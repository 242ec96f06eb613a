--------------------------- MODULE EncoderProofs ---------------------------
(***************************************************************************)
(* Proofs about the two halves of the encoder.                             *)
(*                                                                         *)
(* ClosureScope, for methods of any shape, size and depth.  Scopes are     *)
(* numbered as they are made, so the scope around one has a smaller        *)
(* number: what is true of a scope if it is of the one around it is true   *)
(* of all (NestInduction), which stands in for recursion along the links.  *)
(*                                                                         *)
(* OpenCode, for every method whose nodes are Levels deep at most.  The    *)
(* recursion over the parse nodes becomes one function for each level,     *)
(* whose equations are proved first.  Then the code: a piece of it has its *)
(* own labels, and pieces with different labels may be joined (Piece,      *)
(* Tidy).  Then the encoding: a node's value is in the next variable, its  *)
(* code is tidy, and the blocks that wait are inside it (Result), for the  *)
(* nodes of each level by what is shown of those below.                    *)
(***************************************************************************)
EXTENDS ClosureScope, OpenCode, SequenceTheorems, FunctionTheorems, FiniteSetTheorems,
        WellFoundedInduction, TLAPS

LEMMA Least ==
  ASSUME NEW T \in SUBSET Nat, T # {}
  PROVE  \E m \in T : \A n \in T : m <= n
<1> DEFINE R == StrictSubsetOrdering(Nat)
           U == {0 .. n : n \in T}
<1>1. IsWellFoundedOn(R, FiniteSubsetsOf(Nat))
  BY FS_StrictSubsetOrderingWellFounded
<1>2. U \subseteq FiniteSubsetsOf(Nat)
  <2> SUFFICES ASSUME NEW n \in T PROVE 0 .. n \in FiniteSubsetsOf(Nat)
    OBVIOUS
  <2>1. IsFiniteSet(0 .. n)
    BY FS_Interval
  <2> QED BY <2>1 DEF FiniteSubsetsOf
<1>3. U # {}
  OBVIOUS
<1>4. \A s, t \in SUBSET Nat : <<s, t>> \in R <=> s \subseteq t /\ s # t
  BY DEF StrictSubsetOrdering
<1> HIDE DEF R, U
<1>5. PICK x \in U : \A y \in U : ~(<<y, x>> \in R)
  BY <1>1, <1>2, <1>3, WFMin
<1>6. PICK m \in T : x = 0 .. m
  BY DEF U
<1>7. \A n \in T : ~(n < m)
  <2> SUFFICES ASSUME NEW n \in T, n < m PROVE FALSE
    OBVIOUS
  <2>1. 0 .. n \in U
    BY DEF U
  <2>2. 0 .. n \in SUBSET Nat /\ 0 .. m \in SUBSET Nat /\ 0 .. n \subseteq 0 .. m /\ 0 .. n # 0 .. m
    <3>1. m \in 0 .. m /\ m \notin 0 .. n
      OBVIOUS
    <3> QED BY <3>1
  <2> DEFINE A == 0 .. n
             B == 0 .. m
  <2>3. A \in SUBSET Nat /\ B \in SUBSET Nat /\ A \subseteq B /\ A # B
    BY <2>2
  <2> HIDE DEF A, B
  <2>4. <<A, B>> \in R
    BY <2>3, <1>4
  <2>5. <<0 .. n, 0 .. m>> \in R
    BY <2>4 DEF A, B
  <2> QED BY <2>1, <2>5, <1>5, <1>6
<1> QED BY <1>7

(* The links p of scopes to the scopes around them.                        *)
Nested(p) ==
  /\ p \in Seq(Nat) /\ Len(p) >= 1
  /\ \A s \in 1 .. Len(p) : p[s] < s /\ (p[s] = 0 => s = 1)

LEMMA NestInduction ==
  ASSUME NEW p, Nested(p), NEW T,
         \A s \in 1 .. Len(p) : (p[s] = 0 \/ p[s] \in T) => s \in T
  PROVE  \A s \in 1 .. Len(p) : s \in T
<1> DEFINE bad == {s \in 1 .. Len(p) : s \notin T}
<1> SUFFICES ASSUME bad # {} PROVE FALSE
  OBVIOUS
<1>1. Len(p) \in Nat /\ bad \in SUBSET Nat
  BY DEF Nested
<1>2. PICK m \in bad : \A n \in bad : m <= n
  BY <1>1, Least
<1>3. p[m] \in Nat /\ p[m] < m /\ m \in 1 .. Len(p)
  BY <1>2 DEF Nested
<1>4. p[m] \notin bad /\ p[m] # 0 => p[m] \in T
  BY <1>1, <1>3
<1>5. p[m] \notin bad
  BY <1>1, <1>2, <1>3
<1> QED BY <1>2, <1>3, <1>4, <1>5

(* Enclosing, as a function of the links.                                  *)
Chain(p) == CHOOSE g : g = [t \in 0 .. Len(p) |-> IF t = 0 THEN {} ELSE {t} \cup g[p[t]]]

LEMMA EnclosingIs ==
  ASSUME NEW s PROVE Enclosing(s) = Chain(outer)[s] /\ Enclosing(s)' = Chain(outer')[s]
BY DEF Enclosing, Chain

LEMMA ChainEquation ==
  ASSUME NEW p, Nested(p)
  PROVE  /\ Chain(p)[0] = {}
         /\ \A s \in 1 .. Len(p) : Chain(p)[s] = {s} \cup Chain(p)[p[s]]
<1> DEFINE N == 1 .. Len(p)
           \* t is in every set that holds s and the link of each of its members
           Around(s) == {t \in N : \A T \in SUBSET N :
                           /\ s # 0 => s \in T
                           /\ \A u \in T : p[u] # 0 => p[u] \in T
                           => t \in T}
           g == [t \in 0 .. Len(p) |-> Around(t)]
<1>1. Len(p) \in Nat /\ \A s \in N : p[s] \in 0 .. Len(p) /\ p[s] \in Nat /\ (p[s] # 0 => p[s] \in N)
  BY DEF Nested
<1>2. Around(0) = {}
  <2>1. {} \in SUBSET N
    OBVIOUS
  <2> QED BY <2>1
<1>3. ASSUME NEW s \in N PROVE Around(s) = {s} \cup Around(p[s])
  <2>1. ASSUME NEW t \in Around(p[s]), p[t] # 0 PROVE p[t] \in Around(p[s])
    <3>1. t \in N /\ p[t] \in N
      BY <1>1, <2>1
    <3> SUFFICES ASSUME NEW T \in SUBSET N, p[s] # 0 => p[s] \in T,
                        \A u \in T : p[u] # 0 => p[u] \in T
                 PROVE  p[t] \in T
      BY <3>1
    <3>2. t \in T
      OBVIOUS
    <3> QED BY <2>1, <3>2
  <2>2. p[s] # 0 => p[s] \in Around(p[s])
    BY <1>1
  <2>3. Around(s) \subseteq {s} \cup Around(p[s])
    <3> DEFINE T == {s} \cup Around(p[s])
    <3>1. T \in SUBSET N /\ s \in T
      OBVIOUS
    <3>2. \A u \in T : p[u] # 0 => p[u] \in T
      BY <2>1, <2>2
    <3> HIDE DEF T
    <3>3. \A t \in Around(s) : t \in T
      BY <3>1, <3>2
    <3> QED BY <3>3 DEF T
  <2>4. s \in Around(s)
    BY <1>1
  <2>5. ASSUME NEW t \in Around(p[s]) PROVE t \in Around(s)
    <3> SUFFICES ASSUME NEW T \in SUBSET N, s # 0 => s \in T,
                        \A u \in T : p[u] # 0 => p[u] \in T
                 PROVE  t \in T
      BY <1>1
    <3>1. p[s] # 0 => p[s] \in T
      BY <1>1
    <3> QED BY <3>1
  <2> QED BY <2>3, <2>4, <2>5
<1> HIDE DEF Around
<1>4. g = [t \in 0 .. Len(p) |-> IF t = 0 THEN {} ELSE {t} \cup g[p[t]]]
  <2>1. \A t \in 0 .. Len(p) : Around(t) = IF t = 0 THEN {} ELSE {t} \cup g[p[t]]
    <3> SUFFICES ASSUME NEW t \in 0 .. Len(p)
                 PROVE  Around(t) = IF t = 0 THEN {} ELSE {t} \cup g[p[t]]
      OBVIOUS
    <3>1. t # 0 => t \in N
      BY <1>1
    <3>2. t # 0 => g[p[t]] = Around(p[t])
      BY <1>1, <3>1
    <3> QED BY <1>2, <1>3, <3>1, <3>2
  <2> QED BY <2>1
<1>5. Chain(p) = [t \in 0 .. Len(p) |-> IF t = 0 THEN {} ELSE {t} \cup Chain(p)[p[t]]]
  <2> HIDE DEF g
  <2> QED BY <1>4 DEF Chain
<1> HIDE DEF g
<1>6. 0 \in 0 .. Len(p) /\ \A s \in N : s \in 0 .. Len(p) /\ s # 0
  BY <1>1
<1> QED BY <1>5, <1>6

LEMMA ChainTyped ==
  ASSUME NEW p, Nested(p)
  PROVE  /\ \A s \in 1 .. Len(p) : s \in Chain(p)[s] /\ 1 \in Chain(p)[s]
         /\ \A s \in 0 .. Len(p) : \A t \in Chain(p)[s] : t \in 1 .. Len(p) /\ t <= s
<1> DEFINE C == Chain(p)
           T == {s \in 1 .. Len(p) : 1 \in C[s] /\ \A t \in C[s] : t \in 1 .. Len(p) /\ t <= s}
<1>1. /\ Len(p) \in Nat /\ C[0] = {} /\ \A s \in 1 .. Len(p) : C[s] = {s} \cup C[p[s]]
      /\ \A s \in 1 .. Len(p) : p[s] \in Nat /\ p[s] < s /\ (p[s] = 0 => s = 1)
  BY ChainEquation DEF Nested
<1> HIDE DEF C
<1>2. \A s \in 1 .. Len(p) : (p[s] = 0 \/ p[s] \in T) => s \in T
  BY <1>1
<1> HIDE DEF T
<1>3. \A s \in 1 .. Len(p) : s \in T
  BY <1>2, NestInduction
<1>4. \A s \in 1 .. Len(p) : s \in C[s] /\ 1 \in C[s] /\ \A t \in C[s] : t \in 1 .. Len(p) /\ t <= s
  BY <1>1, <1>3 DEF T
<1>5. \A s \in 0 .. Len(p) : s = 0 \/ s \in 1 .. Len(p)
  BY <1>1
<1> QED BY <1>1, <1>4, <1>5 DEF C

LEMMA ChainClosed ==
  ASSUME NEW p, Nested(p), NEW s \in 1 .. Len(p), NEW t \in Chain(p)[s]
  PROVE  Chain(p)[t] \subseteq Chain(p)[s] /\ p[t] \in 0 .. Len(p) /\ (p[t] # 0 => p[t] \in Chain(p)[s])
<1> DEFINE C == Chain(p)
           T == {r \in 1 .. Len(p) : \A u \in C[r] : C[u] \subseteq C[r]}
<1>1. /\ Len(p) \in Nat /\ C[0] = {} /\ \A r \in 1 .. Len(p) : C[r] = {r} \cup C[p[r]]
      /\ \A r \in 1 .. Len(p) : p[r] \in 0 .. Len(p)
  BY ChainEquation DEF Nested
<1>2. \A r \in 1 .. Len(p) : r \in C[r] /\ C[r] \subseteq 1 .. Len(p)
  BY ChainTyped, <1>1
<1> HIDE DEF C
<1>3. \A r \in 1 .. Len(p) : (p[r] = 0 \/ p[r] \in T) => r \in T
  BY <1>1
<1>4. s \in T
  <2> HIDE DEF T
  <2> QED BY <1>3, NestInduction
<1>5. t \in 1 .. Len(p) /\ C[t] \subseteq C[s]
  BY <1>2, <1>4 DEF C
<1>6. p[t] # 0 => p[t] \in C[t]
  <2>1. p[t] # 0 => p[t] \in 1 .. Len(p)
    BY <1>1, <1>5
  <2> QED BY <1>1, <1>2, <1>5, <2>1
<1> QED BY <1>1, <1>5, <1>6 DEF C

LEMMA ChainAppend ==
  ASSUME NEW p, Nested(p), NEW q \in 1 .. Len(p), NEW n \in Nat, n = Len(p)
  PROVE  /\ Nested(Append(p, q)) /\ Len(Append(p, q)) = n + 1
         /\ \A s \in 1 .. n : Append(p, q)[s] = p[s]
         /\ Append(p, q)[n + 1] = q
         /\ \A s \in 0 .. n : Chain(Append(p, q))[s] = Chain(p)[s]
         /\ Chain(Append(p, q))[n + 1] = {n + 1} \cup Chain(p)[q]
<1> DEFINE r == Append(p, q)
           C == Chain(p)
           D == Chain(r)
<1>1. p \in Seq(Nat) /\ n >= 1 /\ \A s \in 1 .. n : p[s] \in Nat /\ p[s] < s /\ (p[s] = 0 => s = 1)
  BY DEF Nested
<1>2. r \in Seq(Nat) /\ Len(r) = n + 1 /\ (\A s \in 1 .. n : r[s] = p[s]) /\ r[n + 1] = q
  BY <1>1
<1>3. Nested(r)
  <2> HIDE DEF r
  <2>1. \A s \in 1 .. n + 1 : s \in 1 .. n \/ s = n + 1
    OBVIOUS
  <2> QED BY <1>1, <1>2, <2>1 DEF Nested
<1> HIDE DEF r
<1>4. C[0] = {} /\ \A s \in 1 .. n : C[s] = {s} \cup C[p[s]]
  BY ChainEquation
<1>5. D[0] = {} /\ \A s \in 1 .. n + 1 : D[s] = {s} \cup D[r[s]]
  <2>1. D[0] = {} /\ \A s \in 1 .. Len(r) : D[s] = {s} \cup D[r[s]]
    BY <1>3, ChainEquation
  <2> HIDE DEF D
  <2> QED BY <2>1, <1>2
<1> HIDE DEF C, D
<1> DEFINE T == {s \in 1 .. n : D[s] = C[s]}
<1>6. \A s \in 1 .. Len(p) : (p[s] = 0 \/ p[s] \in T) => s \in T
  <2> SUFFICES ASSUME NEW s \in 1 .. n, p[s] = 0 \/ p[s] \in T PROVE D[s] = C[s]
    OBVIOUS
  <2>1. D[s] = {s} \cup D[p[s]] /\ C[s] = {s} \cup C[p[s]]
    <3>1. s \in 1 .. n + 1
      OBVIOUS
    <3> QED BY <1>2, <1>4, <1>5, <3>1
  <2>2. D[p[s]] = C[p[s]]
    BY <1>4, <1>5
  <2> QED BY <2>1, <2>2
<1>7. \A s \in 1 .. n : D[s] = C[s]
  <2> HIDE DEF T
  <2>1. \A s \in 1 .. n : s \in T
    BY <1>6, NestInduction
  <2> QED BY <2>1 DEF T
<1>8. \A s \in 0 .. n : s = 0 \/ s \in 1 .. n
  OBVIOUS
<1>9. D[n + 1] = {n + 1} \cup C[q]
  <2>1. n + 1 \in 1 .. n + 1
    OBVIOUS
  <2> QED BY <1>2, <1>5, <1>7, <2>1
<1> QED BY <1>2, <1>3, <1>4, <1>5, <1>7, <1>8, <1>9 DEF r, C, D

-----------------------------------------------------------------------------
(* The inductive invariant.                                                *)
Shape ==
  /\ Nested(outer)
  /\ inline \in Seq(BOOLEAN) /\ level \in Seq(Nat) /\ declared \in Seq(SUBSET Everything)
  /\ blocks \in Seq(Nat) /\ offset \in Seq([Everything -> Nat]) /\ lastOffset \in Seq(Nat)
  /\ Len(inline) = Len(outer) /\ Len(level) = Len(outer) /\ Len(declared) = Len(outer)
  /\ Len(blocks) = Len(outer) /\ Len(offset) = Len(outer) /\ Len(lastOffset) = Len(outer)
  /\ current \in 0 .. Len(outer) /\ encodings \subseteq Encoding
  /\ bodies \subseteq Scopes /\ imports \subseteq Scopes
  /\ exports \subseteq Scopes /\ nlrs \subseteq Scopes

\* Only a block literal is a level deeper than the scope around it, which is
\* that of a method or another literal: those seen in line are handed out.
Depths ==
  /\ ~inline[1] /\ level[1] = 1 /\ 1 \notin imports
  /\ \A s \in Scopes :
       /\ s # 1 => level[s] = IF inline[s] THEN level[outer[s]] ELSE level[outer[s]] + 1
       /\ s # 1 /\ ~inline[s] => ~inline[outer[s]]
       /\ inline[s] => declared[s] = {} /\ s \notin bodies
       /\ declared[s] \subseteq Name \/ Slot \cup {Self, Stateful} \subseteq declared[s]

\* A scope that has been left has no literal waiting.
Waiting == \A s \in Scopes \ Enclosing(current) : blocks[s] = 0

\* The places of a state vector are taken, each by one variable of the scope.
VectorSound(at, last, names) ==
  /\ \A m \in Everything : at[m] <= last /\ (at[m] # 0 => m \in names \ Slot)
  /\ \A i \in 1 .. last : \E m \in Everything : at[m] = i
  /\ \A m, l \in Everything : at[m] = at[l] /\ at[m] # 0 => m = l

Vectors ==
  \A s \in Scopes :
    /\ VectorSound(offset[s], lastOffset[s], declared[s])
    /\ s \in exports <=> \E m \in Everything : offset[s][m] # 0

\* A variable that another function uses has moved, and the scopes in between
\* import.
Encoded ==
  \A e \in encodings :
    /\ e.scope \in Scopes /\ e.owner \in Enclosing(e.scope) /\ e.name \in declared[e.owner]
    /\ level[e.owner] # level[e.scope] =>
         IsFree(e.owner, e.name) /\ Enclosing(e.scope) \ Enclosing(e.owner) \subseteq imports

Returning == \A s \in nlrs : outer[s] # 0 => outer[s] \in nlrs

CInv == Shape /\ Depths /\ Waiting /\ Vectors /\ Encoded /\ Returning

-----------------------------------------------------------------------------
(* What follows of scopes and their levels.                                *)
LEMMA Scoped ==
  ASSUME Shape
  PROVE  /\ Len(outer) \in Nat /\ Scopes = 1 .. Len(outer) /\ 1 \in Scopes /\ outer[1] = 0
         /\ \A s \in Scopes : /\ outer[s] \in 0 .. Len(outer) /\ outer[s] < s
                              /\ outer[s] = 0 => s = 1
                              /\ s # 1 => outer[s] \in Scopes
         /\ \A s \in Scopes : /\ inline[s] \in BOOLEAN /\ level[s] \in Nat
                              /\ declared[s] \subseteq Everything /\ blocks[s] \in Nat
                              /\ offset[s] \in [Everything -> Nat] /\ lastOffset[s] \in Nat
<1>1. /\ Nested(outer) /\ inline \in Seq(BOOLEAN) /\ level \in Seq(Nat)
      /\ declared \in Seq(SUBSET Everything) /\ blocks \in Seq(Nat)
      /\ offset \in Seq([Everything -> Nat]) /\ lastOffset \in Seq(Nat)
      /\ Len(inline) = Len(outer) /\ Len(level) = Len(outer) /\ Len(declared) = Len(outer)
      /\ Len(blocks) = Len(outer) /\ Len(offset) = Len(outer) /\ Len(lastOffset) = Len(outer)
  BY DEF Shape
<1>2. /\ outer \in Seq(Nat) /\ Len(outer) >= 1
      /\ \A s \in 1 .. Len(outer) : outer[s] < s /\ (outer[s] = 0 => s = 1)
  BY <1>1 DEF Nested
<1>3. Len(outer) \in Nat /\ Scopes = 1 .. Len(outer) /\ 1 \in Scopes
  BY <1>2 DEF Scopes
<1>4. \A s \in Scopes : outer[s] \in Nat /\ outer[s] < s /\ (outer[s] = 0 => s = 1)
  BY <1>2, <1>3
<1>5. outer[1] = 0 /\ \A s \in Scopes : outer[s] \in 0 .. Len(outer) /\ (s # 1 => outer[s] \in Scopes)
  BY <1>3, <1>4
<1>6. \A s \in Scopes : inline[s] \in BOOLEAN /\ level[s] \in Nat /\ declared[s] \subseteq Everything
  BY <1>1, <1>3
<1>7. \A s \in Scopes : blocks[s] \in Nat /\ offset[s] \in [Everything -> Nat] /\ lastOffset[s] \in Nat
  BY <1>1, <1>3
<1> QED BY <1>3, <1>4, <1>5, <1>6, <1>7

LEMMA Around ==
  ASSUME Shape
  PROVE  /\ Enclosing(0) = {}
         /\ \A s \in Scopes : /\ Enclosing(s) = {s} \cup Enclosing(outer[s])
                              /\ s \in Enclosing(s) /\ 1 \in Enclosing(s)
                              /\ Enclosing(s) \subseteq Scopes
                              /\ \A t \in Enclosing(s) :
                                   /\ t <= s /\ Enclosing(t) \subseteq Enclosing(s)
                                   /\ t # 1 => outer[t] \in Enclosing(s)
<1>1. Nested(outer) /\ Len(outer) \in Nat /\ Scopes = 1 .. Len(outer)
      /\ \A s : Enclosing(s) = Chain(outer)[s]
  BY Scoped, EnclosingIs DEF Shape
<1>2. Enclosing(0) = {} /\ \A s \in Scopes : Enclosing(s) = {s} \cup Enclosing(outer[s])
  BY <1>1, ChainEquation
<1>3. \A s \in Scopes : /\ s \in Enclosing(s) /\ 1 \in Enclosing(s)
                        /\ \A t \in Enclosing(s) : t \in Scopes /\ t <= s
  <2>1. 1 .. Len(outer) \subseteq 0 .. Len(outer)
    BY <1>1
  <2> QED BY <1>1, <2>1, ChainTyped
<1>4. ASSUME NEW s \in Scopes, NEW t \in Enclosing(s)
      PROVE  Enclosing(t) \subseteq Enclosing(s) /\ (t # 1 => outer[t] \in Enclosing(s))
  <2>1. t \in Chain(outer)[s] /\ s \in 1 .. Len(outer)
    BY <1>1
  <2>2. Chain(outer)[t] \subseteq Chain(outer)[s]
        /\ (outer[t] # 0 => outer[t] \in Chain(outer)[s])
    BY <1>1, <2>1, ChainClosed
  <2>3. t # 1 => outer[t] # 0
    BY <1>3, Scoped
  <2> QED BY <1>1, <2>2, <2>3
<1> QED BY <1>2, <1>3, <1>4

LEMMA ScopeInduction ==
  ASSUME Shape, NEW T, 1 \in T,
         \A s \in Scopes : s # 1 /\ outer[s] \in T => s \in T
  PROVE  \A s \in Scopes : s \in T
<1>1. Nested(outer) /\ Scopes = 1 .. Len(outer)
      /\ \A s \in Scopes : outer[s] = 0 => s = 1
  BY Scoped DEF Shape
<1>2. \A s \in 1 .. Len(outer) : (outer[s] = 0 \/ outer[s] \in T) => s \in T
  BY <1>1
<1> QED BY <1>1, <1>2, NestInduction

\* Levels grow inward, and no two functions around a scope have the same.
LEMMA LevelsApart ==
  ASSUME Shape, Depths
  PROVE  \A s \in Scopes :
           /\ level[s] >= 1 /\ (~inline[s] /\ level[s] = 1 => s = 1)
           /\ \A t \in Enclosing(s) : level[t] <= level[s]
           /\ \A t, u \in Enclosing(s) : ~inline[t] /\ ~inline[u] /\ level[t] = level[u] => t = u
<1> DEFINE Good(s) ==
             /\ level[s] >= 1 /\ (~inline[s] /\ level[s] = 1 => s = 1)
             /\ \A t \in Enclosing(s) : level[t] <= level[s]
             /\ \A t, u \in Enclosing(s) : ~inline[t] /\ ~inline[u] /\ level[t] = level[u] => t = u
           T == {s \in Scopes : Good(s)}
<1>1. 1 \in T
  <2>1. Enclosing(1) = {1} /\ level[1] = 1 /\ 1 \in Scopes
    BY Scoped, Around DEF Depths
  <2> QED BY <2>1
<1>2. ASSUME NEW s \in Scopes, s # 1, outer[s] \in T PROVE s \in T
  <2>1. /\ outer[s] \in Scopes /\ level[s] \in Nat /\ level[outer[s]] \in Nat
        /\ level[s] = IF inline[s] THEN level[outer[s]] ELSE level[outer[s]] + 1
        /\ Enclosing(s) = {s} \cup Enclosing(outer[s])
    BY <1>2, Scoped, Around DEF Depths
  <2>2. Good(outer[s])
    BY <1>2
  <2>3. \A t \in Enclosing(outer[s]) : level[t] \in Nat /\ level[t] <= level[outer[s]]
    BY <2>1, <2>2, Scoped, Around
  <2>4. level[s] >= 1 /\ (~inline[s] => level[s] > 1)
    BY <2>1, <2>2
  <2>5. \A t \in Enclosing(s) : level[t] <= level[s]
    BY <2>1, <2>3
  <2>6. ASSUME NEW t \in Enclosing(s), NEW u \in Enclosing(s),
               ~inline[t], ~inline[u], level[t] = level[u]
        PROVE  t = u
    <3>1. CASE t \in Enclosing(outer[s]) /\ u \in Enclosing(outer[s])
      BY <2>2, <2>6, <3>1
    <3>2. CASE t = s /\ u \in Enclosing(outer[s])
      BY <2>1, <2>3, <2>6, <3>2
    <3>3. CASE u = s /\ t \in Enclosing(outer[s])
      BY <2>1, <2>3, <2>6, <3>3
    <3> QED BY <2>1, <3>1, <3>2, <3>3
  <2> QED BY <1>2, <2>4, <2>5, <2>6
<1>3. \A s \in Scopes : s \in T
  <2> HIDE DEF T
  <2> QED BY <1>1, <1>2, ScopeInduction
<1> QED BY <1>3

\* The function a scope belongs to: the innermost that is not in line.
LEMMA FunctionOf ==
  ASSUME Shape, Depths
  PROVE  \A s \in Scopes : /\ Function(s) \in Enclosing(s) /\ ~inline[Function(s)]
                           /\ level[Function(s)] = level[s]
                           /\ ~inline[s] => Function(s) = s
<1> DEFINE S(s) == {t \in Enclosing(s) : ~inline[t]}
           T == {s \in Scopes : /\ Function(s) \in Enclosing(s) /\ ~inline[Function(s)]
                                /\ level[Function(s)] = level[s]
                                /\ ~inline[s] => Function(s) = s}
<1>1. ASSUME NEW s \in Scopes, ~inline[s] PROVE Function(s) = s
  <2>1. s \in S(s) /\ \A t \in S(s) : s >= t
    BY <1>1, Around, Scoped
  <2>2. \A m \in S(s) : m >= s => m = s
    BY <2>1, Around, Scoped
  <2> HIDE DEF S
  <2>3. Max(S(s)) = s
    BY <2>1, <2>2 DEF Max
  <2> QED BY <2>3 DEF Function, S
<1>2. 1 \in T
  BY <1>1, Scoped, Around DEF Depths
<1>3. ASSUME NEW s \in Scopes, s # 1, outer[s] \in T PROVE s \in T
  <2>1. CASE inline[s]
    <3>1. Enclosing(s) = {s} \cup Enclosing(outer[s]) /\ level[s] = level[outer[s]]
      BY <1>3, <2>1, Around DEF Depths
    <3>2. S(s) = S(outer[s])
      BY <2>1, <3>1
    <3>3. Function(s) = Function(outer[s])
      BY <3>2 DEF Function
    <3> QED BY <1>3, <2>1, <3>1, <3>3
  <2>2. CASE ~inline[s]
    BY <1>1, <1>3, <2>2, Around
  <2> QED BY <2>1, <2>2, Scoped, <1>3
<1>4. \A s \in Scopes : s \in T
  <2> HIDE DEF T
  <2> QED BY <1>2, <1>3, ScopeInduction
<1> QED BY <1>4

-----------------------------------------------------------------------------
(* What follows for the code.                                              *)
\* A block literal is made in the code of the scope around it.
LEMMA MadeIn ==
  ASSUME Shape, Depths
  PROVE  \A c \in Closures :
           /\ c \in Scopes /\ outer[c] \in Scopes /\ ~inline[outer[c]]
           /\ Function(outer[c]) = outer[c] /\ level[c] = level[outer[c]] + 1
           /\ outer[c] # 1 => outer[c] \in Closures
BY Scoped, FunctionOf DEF Closures, Depths

LEMMA HandedDown ==
  ASSUME CInv
  PROVE  NonLocalReturnsHome
<1> DEFINE step(g, c) == IF c \notin nlrs THEN 0
                         ELSE IF outer[c] \notin imports THEN Function(outer[c])
                         ELSE IF Function(outer[c]) \in Closures THEN g[Function(outer[c])]
                         ELSE 0
           link == CHOOSE g : g = [c \in Closures |-> step(g, c)]
           home == [c \in Closures |-> IF c \in nlrs THEN 1 ELSE 0]
<1>1. \A b : NlrLink(b) = link[b]
  BY DEF NlrLink
<1> SUFFICES ASSUME Compiles
             PROVE  \A b \in Closures \cap nlrs : link[b] = 1 /\ DeclaresNlr(1)
  BY <1>1 DEF NonLocalReturnsHome
<1>2. Shape /\ Depths /\ Returning /\ 1 \notin imports
  BY DEF CInv, Depths
<1>3. ASSUME NEW c \in Closures, c \in nlrs
      PROVE  /\ outer[c] \in nlrs /\ Function(outer[c]) = outer[c] /\ outer[c] \in Scopes
             /\ outer[c] \notin imports => outer[c] = 1 /\ DeclaresNlr(1)
             /\ outer[c] \in imports => outer[c] \in Closures
  <2>1. outer[c] \in Scopes /\ Function(outer[c]) = outer[c] /\ (outer[c] # 1 => outer[c] \in Closures)
    BY <1>2, MadeIn
  <2>2. outer[c] \in nlrs
    BY <1>2, <1>3, <2>1, Scoped DEF Returning
  <2>3. outer[c] \notin imports => outer[c] = 1 /\ DeclaresNlr(1)
    BY <1>3, <2>1 DEF Compiles, DeclaresNlr
  <2> QED BY <1>2, <2>1, <2>2, <2>3
<1>4. home = [c \in Closures |-> step(home, c)]
  <2>1. ASSUME NEW c \in Closures PROVE step(home, c) = IF c \in nlrs THEN 1 ELSE 0
    BY <1>3
  <2> HIDE DEF step
  <2> QED BY <2>1
<1>5. link = [c \in Closures |-> step(link, c)]
  <2> HIDE DEF step, home
  <2> QED BY <1>4
<1> HIDE DEF link, home
<1> DEFINE T == {c \in Scopes : c \in Closures \cap nlrs => link[c] = 1 /\ DeclaresNlr(1)}
<1>6. 1 \in T
  BY <1>2, Scoped DEF Closures
<1>7. ASSUME NEW s \in Scopes, s # 1, outer[s] \in T PROVE s \in T
  <2> SUFFICES ASSUME s \in Closures \cap nlrs PROVE link[s] = 1 /\ DeclaresNlr(1)
    BY <1>7
  <2>1. link[s] = step(link, s)
    BY <1>5
  <2> QED BY <1>3, <1>7, <2>1
<1>8. \A s \in Scopes : s \in T
  <2> HIDE DEF T
  <2> QED BY <1>2, <1>6, <1>7, ScopeInduction
<1> QED BY <1>8 DEF Closures

\* Around a scope there is a function at each level up to its own.
LEMMA Rungs ==
  ASSUME Shape, Depths
  PROVE  \A s \in Scopes : \A l \in 1 .. level[s] : \E t \in Enclosing(s) : ~inline[t] /\ level[t] = l
<1> DEFINE T == {s \in Scopes : \A l \in 1 .. level[s] : \E t \in Enclosing(s) : ~inline[t] /\ level[t] = l}
<1>1. 1 \in T
  <2>1. 1 \in Scopes /\ 1 \in Enclosing(1) /\ ~inline[1] /\ level[1] = 1
    BY Scoped, Around DEF Depths
  <2> QED BY <2>1
<1>2. ASSUME NEW s \in Scopes, s # 1, outer[s] \in T PROVE s \in T
  <2>1. /\ outer[s] \in Scopes /\ level[s] \in Nat /\ level[outer[s]] \in Nat
        /\ level[s] = IF inline[s] THEN level[outer[s]] ELSE level[outer[s]] + 1
        /\ Enclosing(s) = {s} \cup Enclosing(outer[s])
    BY <1>2, Scoped, Around DEF Depths
  <2> SUFFICES ASSUME NEW l \in 1 .. level[s]
               PROVE  \E t \in Enclosing(s) : ~inline[t] /\ level[t] = l
    BY <1>2
  <2>2. l \in 1 .. level[outer[s]] \/ (~inline[s] /\ l = level[s])
    BY <2>1
  <2>3. CASE l \in 1 .. level[outer[s]]
    BY <1>2, <2>1, <2>3
  <2>4. CASE ~inline[s] /\ l = level[s]
    BY <2>1, <2>4
  <2> QED BY <2>2, <2>3, <2>4
<1>3. \A s \in Scopes : s \in T
  <2> HIDE DEF T
  <2> QED BY <1>1, <1>2, ScopeInduction
<1> QED BY <1>3

LEMMA Climbs ==
  ASSUME CInv, NEW s \in Scopes, NEW o \in Enclosing(s), ~inline[o], level[o] # level[s],
         Enclosing(s) \ Enclosing(o) \subseteq imports, o \in exports
  PROVE  StateReached(s, level[s] - level[o]) = o
<1>1. Shape /\ Depths
  BY DEF CInv
<1>2. PICK ls \in Nat, lo \in Nat : ls = level[s] /\ lo = level[o] /\ 1 <= lo /\ lo < ls /\ o \in Scopes
  BY <1>1, Scoped, Around, LevelsApart
<1>3. PICK d \in Nat \ {0} : d = ls - lo
  BY <1>2
<1> DEFINE rung(t, k) == t \in Enclosing(s) /\ ~inline[t] /\ level[t] = ls - k
           step(g, k) == IF k = 0 THEN Function(s)
                         ELSE IF g[k - 1] \in Closures THEN OuterLink(g[k - 1]) ELSE 0
           climb == CHOOSE g : g = [k \in 0 .. d |-> step(g, k)]
           up(k) == CHOOSE t \in Enclosing(s) : ~inline[t] /\ level[t] = ls - k
           last == IF up(d - 1) \in Closures THEN OuterLink(up(d - 1)) ELSE 0
           way == [k \in 0 .. d |-> IF k < d THEN up(k) ELSE last]
<1>4. StateReached(s, level[s] - level[o]) =
        IF climb[d - 1] \in Closures THEN StateLink(climb[d - 1]) ELSE 0
  BY <1>2, <1>3 DEF StateReached
<1>5. ASSUME NEW t, NEW u, NEW k, rung(t, k), rung(u, k) PROVE t = u
  BY <1>1, <1>5, LevelsApart
<1>6. ASSUME NEW k \in 0 .. d - 1 PROVE rung(up(k), k)
  <2>1. ls - k \in 1 .. level[s]
    BY <1>2, <1>3
  <2> QED BY <1>1, <2>1, Rungs
<1>7. rung(Function(s), 0)
  BY <1>1, <1>2, FunctionOf
<1>8. ASSUME NEW k \in 0 .. d - 1, NEW t, rung(t, k)
      PROVE  t \in Closures /\ rung(outer[t], k + 1) /\ outer[t] \in Scopes
  <2>1. t \in Scopes /\ t # 1
    BY <1>1, <1>2, <1>3, <1>8, Around DEF Depths
  <2>2. t \in Closures
    BY <1>8, <2>1 DEF Closures
  <2>3. /\ outer[t] \in Scopes /\ ~inline[outer[t]] /\ level[t] = level[outer[t]] + 1
        /\ level[outer[t]] \in Nat /\ outer[t] \in Enclosing(s)
    BY <1>1, <1>8, <2>1, <2>2, MadeIn, Scoped, Around
  <2>4. level[outer[t]] = ls - (k + 1)
    BY <1>2, <1>8, <2>3
  <2> QED BY <2>2, <2>3, <2>4
<1>9. ASSUME NEW k \in 0 .. d - 1, k + 1 < d, NEW t, rung(t, k)
      PROVE  OuterLink(t) = outer[t]
  <2>1. t \in Closures /\ rung(outer[t], k + 1) /\ outer[t] \in Scopes
    BY <1>8, <1>9
  <2>2. level[outer[t]] > lo
    BY <1>2, <1>3, <1>9, <2>1
  <2>3. outer[t] \notin Enclosing(o)
    <3>1. \A u \in Enclosing(o) : level[u] <= lo /\ level[u] \in Nat
      BY <1>1, <1>2, LevelsApart, Scoped, Around
    <3> QED BY <1>2, <2>2, <3>1
  <2>4. outer[t] \in imports
    BY <2>1, <2>3
  <2> QED BY <1>1, <2>1, <2>4, MadeIn DEF OuterLink
<1>10. way = [k \in 0 .. d |-> step(way, k)]
  <2>1. ASSUME NEW k \in 0 .. d PROVE (IF k < d THEN up(k) ELSE last) = step(way, k)
    <3>1. CASE k = 0
      <4>1. rung(up(0), 0)
        BY <1>3, <1>6
      <4>2. up(0) = Function(s)
        BY <1>5, <1>7, <4>1
      <4> QED BY <1>3, <3>1, <4>2
    <3>2. CASE k # 0
      <4>1. k - 1 \in 0 .. d - 1 /\ k - 1 \in 0 .. d /\ k - 1 < d
        BY <1>3, <3>2
      <4>2. way[k - 1] = up(k - 1)
        BY <4>1
      <4>3. CASE k = d
        BY <4>2, <4>3, <3>2
      <4>4. CASE k < d
        <5>1. rung(up(k - 1), k - 1) /\ rung(up(k), k)
          <6>1. k \in 0 .. d - 1
            BY <4>4
          <6> QED BY <1>6, <4>1, <6>1
        <5>2. up(k - 1) \in Closures /\ rung(outer[up(k - 1)], k)
          <6>1. rung(outer[up(k - 1)], (k - 1) + 1)
            BY <1>8, <4>1, <5>1
          <6>2. (k - 1) + 1 = k
            BY <4>1
          <6> QED BY <1>8, <4>1, <5>1, <6>1, <6>2
        <5>3. OuterLink(up(k - 1)) = outer[up(k - 1)]
          <6>1. (k - 1) + 1 < d
            BY <4>1, <4>4
          <6> QED BY <1>9, <4>1, <5>1, <6>1
        <5>4. up(k) = outer[up(k - 1)]
          BY <1>5, <5>1, <5>2
        <5> HIDE DEF up, way
        <5> QED BY <3>2, <4>2, <4>4, <5>2, <5>3, <5>4
      <4> QED BY <1>3, <4>3, <4>4
    <3> QED BY <3>1, <3>2
  <2> HIDE DEF step, up, last
  <2> QED BY <2>1
<1>11. climb = [k \in 0 .. d |-> step(climb, k)]
  <2> HIDE DEF step, way
  <2> QED BY <1>10
<1> HIDE DEF climb, way, up, last
<1> DEFINE bad == {k \in 0 .. d - 1 : ~rung(climb[k], k)}
<1>12. bad = {}
  <2> SUFFICES ASSUME bad # {} PROVE FALSE
    OBVIOUS
  <2>1. PICK m \in bad : \A n \in bad : m <= n
    <3>1. bad \in SUBSET Nat
      BY <1>3
    <3> HIDE DEF bad
    <3> QED BY <3>1, Least
  <2>2. m \in 0 .. d - 1 /\ m \in 0 .. d /\ ~rung(climb[m], m)
    BY <1>3, <2>1
  <2>3. climb[m] = step(climb, m)
    <3> HIDE DEF step
    <3> QED BY <1>11, <2>2
  <2>4. m # 0
    BY <1>7, <2>2, <2>3
  <2>5. m - 1 \in 0 .. d - 1 /\ m - 1 \notin bad /\ (m - 1) + 1 = m /\ m < d
    BY <2>1, <2>2, <2>4, <1>3
  <2>6. rung(climb[m - 1], m - 1)
    BY <2>5
  <2>7. climb[m - 1] \in Closures /\ rung(outer[climb[m - 1]], m)
        /\ OuterLink(climb[m - 1]) = outer[climb[m - 1]]
    <3>1. climb[m - 1] \in Closures /\ rung(outer[climb[m - 1]], (m - 1) + 1)
      BY <1>8, <2>5, <2>6
    <3>2. OuterLink(climb[m - 1]) = outer[climb[m - 1]]
      BY <1>9, <2>5, <2>6
    <3> QED BY <2>5, <3>1, <3>2
  <2> QED BY <2>2, <2>3, <2>4, <2>7
<1>13. d - 1 \in 0 .. d - 1 /\ (d - 1) + 1 = d
  BY <1>3
<1>14. rung(climb[d - 1], d - 1)
  BY <1>12, <1>13
<1>15. climb[d - 1] \in Closures /\ rung(outer[climb[d - 1]], d)
  <2>1. climb[d - 1] \in Closures /\ rung(outer[climb[d - 1]], (d - 1) + 1)
    BY <1>8, <1>13, <1>14
  <2> QED BY <1>13, <2>1
<1>16. rung(o, d)
  BY <1>2, <1>3
<1>17. outer[climb[d - 1]] = o
  BY <1>5, <1>15, <1>16
<1> QED BY <1>4, <1>15, <1>17 DEF StateLink

LEMMA Reached ==
  ASSUME CInv
  PROVE  FreeVariablesReachable
<1> SUFFICES ASSUME NEW e \in encodings
             PROVE  IF IsFree(e.owner, e.name) /\ level[e.scope] - level[e.owner] > 0
                      THEN StateReached(e.scope, level[e.scope] - level[e.owner]) = e.owner
                      ELSE Function(e.scope) = Function(e.owner)
  BY DEF FreeVariablesReachable
<1>1. Shape /\ Depths
  BY DEF CInv
<1>2. /\ e.scope \in Scopes /\ e.owner \in Enclosing(e.scope) /\ e.name \in declared[e.owner]
      /\ level[e.owner] # level[e.scope] =>
           IsFree(e.owner, e.name) /\ Enclosing(e.scope) \ Enclosing(e.owner) \subseteq imports
  BY DEF CInv, Encoded
<1>3. /\ e.owner \in Scopes /\ level[e.owner] \in Nat /\ level[e.scope] \in Nat
      /\ level[e.owner] <= level[e.scope]
  BY <1>1, <1>2, Around, Scoped, LevelsApart
<1>4. CASE level[e.owner] = level[e.scope]
  <2>1. Function(e.scope) = Function(e.owner)
    <3>1. /\ Function(e.scope) \in Enclosing(e.scope) /\ ~inline[Function(e.scope)]
          /\ level[Function(e.scope)] = level[e.scope]
      BY <1>1, <1>2, FunctionOf
    <3>2. /\ Function(e.owner) \in Enclosing(e.scope) /\ ~inline[Function(e.owner)]
          /\ level[Function(e.owner)] = level[e.owner]
      BY <1>1, <1>2, <1>3, FunctionOf, Around
    <3> QED BY <1>1, <1>2, <1>4, <3>1, <3>2, LevelsApart
  <2>2. ~(level[e.scope] - level[e.owner] > 0)
    BY <1>3, <1>4
  <2> QED BY <2>1, <2>2
<1>5. CASE level[e.owner] # level[e.scope]
  <2>1. ~inline[e.owner]
    BY <1>1, <1>2, <1>3 DEF Depths
  <2>2. e.owner \in exports
    <3>1. Variable(e.name) \in Everything
      BY <1>1, <1>2, <1>3, Scoped DEF Variable, Everything
    <3> QED BY <1>2, <1>3, <1>5, <3>1 DEF CInv, Vectors, IsFree
  <2>3. StateReached(e.scope, level[e.scope] - level[e.owner]) = e.owner
    BY <1>2, <1>5, <2>1, <2>2, Climbs
  <2>4. level[e.scope] - level[e.owner] > 0
    BY <1>3, <1>5
  <2> QED BY <1>2, <1>5, <2>3, <2>4
<1> QED BY <1>4, <1>5

LEMMA VectorFits ==
  ASSUME CInv
  PROVE  StateVectorsFit
<1> SUFFICES ASSUME NEW s \in Scopes
             PROVE  LET free == {n \in declared[s] : IsFree(s, n)}
                        place == {offset[s][n] : n \in Everything} \ {0}
                    IN /\ (free # {}) <=> (s \in exports)
                       /\ place = 1 .. lastOffset[s]
                       /\ Cardinality({n \in Everything : offset[s][n] # 0}) = lastOffset[s]
                       /\ lastOffset[s] <= Cardinality(free)
  BY DEF StateVectorsFit
<1> DEFINE free == {n \in declared[s] : IsFree(s, n)}
           taken == {n \in Everything : offset[s][n] # 0}
           place == {offset[s][n] : n \in Everything} \ {0}
<1>1. declared[s] \subseteq Everything /\ offset[s] \in [Everything -> Nat] /\ lastOffset[s] \in Nat
  BY Scoped DEF CInv
<1>2. /\ VectorSound(offset[s], lastOffset[s], declared[s])
      /\ s \in exports <=> \E m \in Everything : offset[s][m] # 0
  BY DEF CInv, Vectors
<1>3. PICK last \in Nat : last = lastOffset[s]
  BY <1>1
<1>4. /\ \A m \in Everything : offset[s][m] <= last /\ (offset[s][m] # 0 => m \in declared[s] \ Slot)
      /\ \A i \in 1 .. last : \E m \in Everything : offset[s][m] = i
      /\ \A m, l \in Everything : offset[s][m] = offset[s][l] /\ offset[s][m] # 0 => m = l
  BY <1>2, <1>3 DEF VectorSound
<1>5. taken \subseteq free
  BY <1>4 DEF IsFree, Variable
<1>6. \A n \in free : Variable(n) \in taken
  BY <1>1 DEF IsFree, Variable, Everything
<1>7. free # {} <=> s \in exports
  BY <1>2, <1>5, <1>6
<1>8. place = 1 .. last
  BY <1>1, <1>4
<1>9. IsFiniteSet(Everything)
  <2>1. IsFiniteSet(Name \cup Slot)
    BY ClosureScopeAssumption, FS_Union
  <2>2. IsFiniteSet((Name \cup Slot) \cup {Self})
    BY <2>1, FS_AddElement
  <2>3. IsFiniteSet(((Name \cup Slot) \cup {Self}) \cup {Stateful})
    BY <2>2, FS_AddElement
  <2>4. Everything = ((Name \cup Slot) \cup {Self}) \cup {Stateful}
    BY DEF Everything
  <2> QED BY <2>3, <2>4
<1>10. IsFiniteSet(taken) /\ IsFiniteSet(free)
  <2>1. taken \in SUBSET Everything /\ free \in SUBSET Everything
    BY <1>1
  <2> HIDE DEF taken, free
  <2> QED BY <1>9, <2>1, FS_Subset
<1>11. Cardinality(taken) = last
  <2> DEFINE f == [n \in taken |-> offset[s][n]]
  <2>1. f \in [taken -> 1 .. last]
    BY <1>1, <1>4
  <2>2. \A m, l \in taken : f[m] = f[l] => m = l
    BY <1>4
  <2>3. \A i \in 1 .. last : \E m \in taken : f[m] = i
    BY <1>4
  <2> HIDE DEF f, taken
  <2>4. f \in Bijection(taken, 1 .. last)
    BY <2>1, <2>2, <2>3, Fun_IsBij
  <2>5. ExistsBijection(taken, 1 .. last)
    BY <2>4 DEF ExistsBijection
  <2>6. Cardinality(1 .. last) = Cardinality(taken)
    BY <1>10, <2>5, FS_Bijection
  <2>7. Cardinality(1 .. last) = last
    BY FS_Interval
  <2> QED BY <2>6, <2>7
<1>12. Cardinality(taken) <= Cardinality(free)
  <2> HIDE DEF taken, free
  <2> QED BY <1>5, <1>10, FS_Subset
<1> HIDE DEF taken, free, place
<1> QED BY <1>3, <1>7, <1>8, <1>11, <1>12 DEF taken, free, place

LEMMA NoneWaiting ==
  ASSUME CInv
  PROVE  EveryBlockEncoded
BY Around DEF CInv, Waiting, EveryBlockEncoded, Done

-----------------------------------------------------------------------------
(* The invariant holds of a method that is begun ...                       *)
LEMMA EncloseNext ==
  /\ \A s : Enclosing(s) = Chain(outer)[s] /\ Enclosing(s)' = Chain(outer')[s]
  /\ Enclosing(current)' = Chain(outer')[current']
BY DEF Enclosing, Chain

LEMMA SoundEmpty ==
  ASSUME NEW names
  PROVE  VectorSound(NoOffsets, 0, names) /\ ~(\E m \in Everything : NoOffsets[m] # 0)
         /\ NoOffsets \in [Everything -> Nat]
BY DEF VectorSound, NoOffsets

LEMMA ScopesInitially == Init => CInv
<1> SUFFICES ASSUME Init PROVE CInv
  OBVIOUS
<1>1. /\ outer = <<0>> /\ inline = <<FALSE>> /\ level = <<1>> /\ blocks = <<0>>
      /\ offset = <<NoOffsets>> /\ lastOffset = <<0>>
      /\ bodies = {} /\ encodings = {} /\ imports = {} /\ exports = {} /\ nlrs = {}
      /\ current = 1
  BY DEF Init
<1>2. PICK names \in SUBSET Everything :
        declared = <<names>> /\ (names \subseteq Name \/ Slot \cup {Self, Stateful} \subseteq names)
  BY DEF Init, Everything
<1>3. NoOffsets \in [Everything -> Nat]
  BY SoundEmpty
<1>4. Nested(outer) /\ Len(outer) = 1 /\ Scopes = {1} /\ outer[1] = 0
  BY <1>1 DEF Nested, Scopes
<1>5. Shape
  <2>1. inline \in Seq(BOOLEAN) /\ level \in Seq(Nat) /\ blocks \in Seq(Nat) /\ lastOffset \in Seq(Nat)
    BY <1>1
  <2>2. Len(inline) = 1 /\ Len(level) = 1 /\ Len(blocks) = 1 /\ Len(lastOffset) = 1
    BY <1>1
  <2>3. declared \in Seq(SUBSET Everything) /\ Len(declared) = 1
    BY <1>2
  <2>4. offset \in Seq([Everything -> Nat]) /\ Len(offset) = 1
    <3> HIDE DEF NoOffsets
    <3> QED BY <1>1, <1>3
  <2>5. current \in 0 .. Len(outer)
    BY <1>1, <1>4
  <2> QED BY <1>1, <1>4, <2>1, <2>2, <2>3, <2>4, <2>5 DEF Shape
<1>6. Depths
  BY <1>1, <1>2, <1>4 DEF Depths
<1>7. Waiting /\ Encoded /\ Returning
  BY <1>1, <1>4 DEF Waiting, Encoded, Returning
<1>8. Vectors
  BY <1>1, <1>4, SoundEmpty DEF Vectors
<1> QED BY <1>5, <1>6, <1>7, <1>8 DEF CInv

(* ... and is kept when a scope is opened, as nothing said of the others   *)
(* is about it ...                                                         *)
LEMMA Grow ==
  ASSUME NEW S, NEW q \in Seq(S), NEW x \in S, NEW n \in Nat, Len(q) = n
  PROVE  /\ Append(q, x) \in Seq(S) /\ Len(Append(q, x)) = n + 1
         /\ \A i \in 1 .. n : Append(q, x)[i] = q[i]
         /\ Append(q, x)[n + 1] = x
OBVIOUS

LEMMA ScopeOpened ==
  ASSUME CInv, current \in Scopes, NEW names \in SUBSET Name, NEW isInline \in BOOLEAN,
         NEW waiting \in Seq(Nat), Len(waiting) = Len(outer),
         NewScope(names, isInline, waiting),
         isInline => names = {}, ~isInline => ~inline[current],
         \A s \in Scopes \ Enclosing(current) : waiting[s] = 0,
         UNCHANGED <<bodies, encodings, imports, exports, nlrs>>
  PROVE  CInv'
<1>0. PICK n \in Nat : n = Len(outer) /\ Scopes = 1 .. n /\ n >= 1
  BY Scoped DEF CInv, Nested, Shape
<1>1. Shape /\ Depths /\ Waiting /\ Vectors /\ Encoded /\ Returning
  BY DEF CInv
<1>2. /\ outer' = Append(outer, current) /\ inline' = Append(inline, isInline)
      /\ declared' = Append(declared, names) /\ blocks' = Append(waiting, 0)
      /\ offset' = Append(offset, NoOffsets) /\ lastOffset' = Append(lastOffset, 0)
      /\ current' = n + 1
  BY <1>0 DEF NewScope
<1>3. PICK l \in Nat : /\ level' = Append(level, l)
                       /\ l = IF isInline THEN level[current] ELSE level[current] + 1
  <2>1. level[current] \in Nat
    BY <1>1, Scoped
  <2> QED BY <2>1 DEF NewScope
<1>4. /\ Nested(outer') /\ Len(outer') = n + 1
      /\ \A s \in 1 .. n : outer'[s] = outer[s]
      /\ outer'[n + 1] = current
      /\ \A s \in 0 .. n : Chain(outer')[s] = Chain(outer)[s]
      /\ Chain(outer')[n + 1] = {n + 1} \cup Chain(outer)[current]
  <2>1. Nested(outer) /\ current \in 1 .. Len(outer) /\ n = Len(outer)
    BY <1>0, <1>1 DEF Shape
  <2>2. outer' = Append(outer, current)
    BY <1>2
  <2> QED BY <2>1, <2>2, ChainAppend
<1>5. /\ inline' \in Seq(BOOLEAN) /\ Len(inline') = n + 1
      /\ \A s \in 1 .. n : inline'[s] = inline[s]
      /\ inline'[n + 1] = isInline
  <2>1. inline \in Seq(BOOLEAN) /\ Len(inline) = n
    BY <1>0, <1>1 DEF Shape
  <2> QED BY <1>2, <2>1, Grow
<1>6. /\ level' \in Seq(Nat) /\ Len(level') = n + 1
      /\ \A s \in 1 .. n : level'[s] = level[s]
      /\ level'[n + 1] = l
  <2>1. level \in Seq(Nat) /\ Len(level) = n
    BY <1>0, <1>1 DEF Shape
  <2> QED BY <1>3, <2>1, Grow
<1>7. /\ declared' \in Seq(SUBSET Everything) /\ Len(declared') = n + 1
      /\ \A s \in 1 .. n : declared'[s] = declared[s]
      /\ declared'[n + 1] = names
  <2>1. declared \in Seq(SUBSET Everything) /\ Len(declared) = n /\ names \in SUBSET Everything
    BY <1>0, <1>1 DEF Shape, Everything
  <2> DEFINE S == SUBSET Everything
  <2> HIDE DEF S
  <2>2. declared \in Seq(S) /\ names \in S
    BY <2>1 DEF S
  <2>3. /\ declared' \in Seq(S) /\ Len(declared') = n + 1
        /\ \A s \in 1 .. n : declared'[s] = declared[s]
        /\ declared'[n + 1] = names
    BY <1>2, <2>1, <2>2, Grow
  <2> QED BY <2>3 DEF S
<1>8. /\ blocks' \in Seq(Nat) /\ Len(blocks') = n + 1
      /\ \A s \in 1 .. n : blocks'[s] = waiting[s]
  <2>1. Len(waiting) = n
    BY <1>0
  <2> QED BY <1>2, <2>1, Grow
<1>9. /\ offset' \in Seq([Everything -> Nat]) /\ Len(offset') = n + 1
      /\ \A s \in 1 .. n : offset'[s] = offset[s]
      /\ offset'[n + 1] = NoOffsets
  <2>1. offset \in Seq([Everything -> Nat]) /\ Len(offset) = n /\ NoOffsets \in [Everything -> Nat]
    BY <1>0, <1>1, SoundEmpty DEF Shape
  <2> HIDE DEF NoOffsets
  <2> QED BY <1>2, <2>1, Grow
<1>10. /\ lastOffset' \in Seq(Nat) /\ Len(lastOffset') = n + 1
       /\ \A s \in 1 .. n : lastOffset'[s] = lastOffset[s]
       /\ lastOffset'[n + 1] = 0
  <2>1. lastOffset \in Seq(Nat) /\ Len(lastOffset) = n
    BY <1>0, <1>1 DEF Shape
  <2>2. PICK z \in Nat : z = 0
    OBVIOUS
  <2>3. lastOffset' = Append(lastOffset, z)
    BY <1>2, <2>2
  <2>4. /\ Append(lastOffset, z) \in Seq(Nat) /\ Len(Append(lastOffset, z)) = n + 1
        /\ \A s \in 1 .. n : Append(lastOffset, z)[s] = lastOffset[s]
        /\ Append(lastOffset, z)[n + 1] = z
    BY <2>1, Grow
  <2> QED BY <2>2, <2>3, <2>4
<1>11. Scopes' = 1 .. n + 1
  BY <1>4 DEF Scopes, Nested
<1>12. \A s \in 1 .. n + 1 : s \in 1 .. n \/ s = n + 1
  OBVIOUS
<1>13. /\ \A s \in 0 .. n : Enclosing(s)' = Enclosing(s)
       /\ Enclosing(current)' = {n + 1} \cup Enclosing(current)
  BY <1>2, <1>4, EncloseNext
<1>14. Shape'
  <2>1. current' \in 0 .. Len(outer') /\ Scopes \subseteq Scopes'
    BY <1>0, <1>2, <1>4, <1>11
  <2> QED BY <1>1, <1>4, <1>5, <1>6, <1>7, <1>8, <1>9, <1>10, <2>1 DEF Shape
<1>15. Depths'
  <2>1. ~inline'[1] /\ level'[1] = 1 /\ 1 \notin imports'
    <3>1. 1 \in 1 .. n
      BY <1>0
    <3> QED BY <1>1, <1>5, <1>6, <3>1 DEF Depths
  <2> SUFFICES ASSUME NEW s \in Scopes'
               PROVE  /\ s # 1 => level'[s] = IF inline'[s] THEN level'[outer'[s]] ELSE level'[outer'[s]] + 1
                      /\ s # 1 /\ ~inline'[s] => ~inline'[outer'[s]]
                      /\ inline'[s] => declared'[s] = {} /\ s \notin bodies'
                      /\ declared'[s] \subseteq Name \/ Slot \cup {Self, Stateful} \subseteq declared'[s]
    BY <2>1, SMTT(20) DEF Depths
  <2>2. CASE s \in 1 .. n
    <3>1. /\ s # 1 => level[s] = IF inline[s] THEN level[outer[s]] ELSE level[outer[s]] + 1
          /\ s # 1 /\ ~inline[s] => ~inline[outer[s]]
          /\ inline[s] => declared[s] = {} /\ s \notin bodies
          /\ declared[s] \subseteq Name \/ Slot \cup {Self, Stateful} \subseteq declared[s]
          /\ s # 1 => outer[s] \in 1 .. n
      BY <1>0, <1>1, <2>2, Scoped DEF Depths
    <3>2. /\ outer'[s] = outer[s] /\ inline'[s] = inline[s] /\ level'[s] = level[s]
          /\ declared'[s] = declared[s] /\ bodies' = bodies
      BY <1>4, <1>5, <1>6, <1>7, <2>2
    <3>3. s # 1 => inline'[outer[s]] = inline[outer[s]] /\ level'[outer[s]] = level[outer[s]]
      BY <1>5, <1>6, <3>1
    <3> QED BY <3>1, <3>2, <3>3
  <2>3. CASE s = n + 1
    <3>1. outer'[s] = current /\ current \in 1 .. n /\ s \notin bodies
      BY <1>0, <1>1, <1>4, <2>3 DEF Shape
    <3> QED BY <1>3, <1>5, <1>6, <1>7, <2>3, <3>1
  <2> QED BY <1>11, <1>12, <2>2, <2>3
<1>16. Waiting'
  <2> SUFFICES ASSUME NEW s \in Scopes', s \notin Enclosing(current)' PROVE blocks'[s] = 0
    BY DEF Waiting
  <2>1. s \in 1 .. n /\ s \notin Enclosing(current)
    BY <1>11, <1>12, <1>13
  <2> QED BY <1>0, <1>8, <2>1
<1>17. Vectors'
  <2> SUFFICES ASSUME NEW s \in Scopes'
               PROVE  /\ VectorSound(offset'[s], lastOffset'[s], declared'[s])
                      /\ s \in exports' <=> \E m \in Everything : offset'[s][m] # 0
    BY DEF Vectors, VectorSound
  <2>1. CASE s \in 1 .. n
    <3>1. offset'[s] = offset[s] /\ lastOffset'[s] = lastOffset[s] /\ declared'[s] = declared[s]
      BY <1>7, <1>9, <1>10, <2>1
    <3>2. /\ VectorSound(offset[s], lastOffset[s], declared[s])
          /\ s \in exports <=> \E m \in Everything : offset[s][m] # 0
      BY <1>0, <1>1, <2>1 DEF Vectors
    <3> QED BY <3>1, <3>2
  <2>2. CASE s = n + 1
    <3>1. s \notin exports'
      BY <1>0, <1>1, <2>2 DEF Shape
    <3> QED BY <1>9, <1>10, <2>2, <3>1, SoundEmpty
  <2> QED BY <1>11, <1>12, <2>1, <2>2
<1>18. Encoded'
  <2> SUFFICES ASSUME NEW e \in encodings'
               PROVE  /\ e.scope \in Scopes' /\ e.owner \in Enclosing(e.scope)' /\ e.name \in declared'[e.owner]
                      /\ level'[e.owner] # level'[e.scope] =>
                           /\ offset'[e.owner][Variable(e.name)] # 0
                           /\ Enclosing(e.scope)' \ Enclosing(e.owner)' \subseteq imports'
    BY DEF Encoded, IsFree
  <2>1. /\ e.scope \in Scopes /\ e.owner \in Enclosing(e.scope) /\ e.name \in declared[e.owner]
        /\ level[e.owner] # level[e.scope] =>
             /\ offset[e.owner][Variable(e.name)] # 0
             /\ Enclosing(e.scope) \ Enclosing(e.owner) \subseteq imports
    BY <1>1 DEF Encoded, IsFree
  <2>2. e.scope \in 1 .. n /\ e.owner \in 1 .. n /\ 1 .. n \subseteq 0 .. n /\ 1 .. n \subseteq 1 .. n + 1
    BY <1>0, <1>1, <2>1, Around
  <2>3. /\ Enclosing(e.scope)' = Enclosing(e.scope) /\ Enclosing(e.owner)' = Enclosing(e.owner)
        /\ declared'[e.owner] = declared[e.owner] /\ offset'[e.owner] = offset[e.owner]
        /\ level'[e.owner] = level[e.owner] /\ level'[e.scope] = level[e.scope]
    BY <1>6, <1>7, <1>9, <1>13, <2>2
  <2> QED BY <1>11, <2>1, <2>2, <2>3
<1>19. Returning'
  <2>1. \A s \in nlrs : s \in 1 .. n
    BY <1>0, <1>1 DEF Shape
  <2> QED BY <1>1, <1>4, <2>1 DEF Returning
<1> QED BY <1>14, <1>15, <1>16, <1>17, <1>18, <1>19 DEF CInv

(* ... when a variable moves to a state vector ...                         *)
VectorOf(v, names) ==
  /\ v = [at |-> v.at, last |-> v.last] /\ v.at \in [Everything -> Nat] /\ v.last \in Nat
  /\ VectorSound(v.at, v.last, names)

LEMMA PlaceGiven ==
  ASSUME NEW v, NEW names, VectorOf(v, names), NEW m \in Everything, m \in names \ Slot
  PROVE  /\ VectorOf(GivenPlace(v, m), names) /\ GivenPlace(v, m).at[m] # 0
         /\ \A l \in Everything : v.at[l] # 0 => GivenPlace(v, m).at[l] # 0
<1>1. CASE v.at[m] # 0
  BY <1>1 DEF GivenPlace
<1>2. CASE v.at[m] = 0
  <2> DEFINE at == [v.at EXCEPT ![m] = v.last + 1]
             last == v.last + 1
  <2>1. GivenPlace(v, m) = [at |-> at, last |-> last]
    BY <1>2 DEF GivenPlace
  <2>2. /\ at \in [Everything -> Nat] /\ last \in Nat /\ at[m] = last /\ last # 0
        /\ \A l \in Everything : l # m => at[l] = v.at[l]
    BY DEF VectorOf
  <2>3. /\ v.last \in Nat /\ \A l \in Everything : v.at[l] \in Nat /\ v.at[l] <= v.last
        /\ \A l \in Everything : v.at[l] # 0 => l \in names \ Slot
        /\ \A i \in 1 .. v.last : \E l \in Everything : v.at[l] = i
        /\ \A k, l \in Everything : v.at[k] = v.at[l] /\ v.at[k] # 0 => k = l
    BY DEF VectorOf, VectorSound
  <2>4. last = v.last + 1
    OBVIOUS
  <2> HIDE DEF at, last
  <2>5. \A l \in Everything : at[l] <= last /\ (at[l] # 0 => l \in names \ Slot)
    BY <2>2, <2>3, <2>4
  <2>6. \A i \in 1 .. last : \E l \in Everything : at[l] = i
    <3> SUFFICES ASSUME NEW i \in 1 .. last PROVE \E l \in Everything : at[l] = i
      OBVIOUS
    <3>1. i = last \/ i \in 1 .. v.last
      BY <2>3, <2>4
    <3>2. CASE i = last
      BY <2>2, <3>2
    <3>3. CASE i \in 1 .. v.last
      <4>1. PICK l \in Everything : v.at[l] = i
        BY <2>3, <3>3
      <4>2. l # m
        BY <1>2, <3>3, <4>1
      <4> QED BY <2>2, <4>1, <4>2
    <3> QED BY <3>1, <3>2, <3>3
  <2>7. ASSUME NEW k \in Everything, NEW l \in Everything, at[k] = at[l], at[k] # 0
        PROVE  k = l
    <3>1. CASE k # m /\ l # m
      BY <2>2, <2>3, <2>7, <3>1
    <3>2. CASE k = m /\ l # m
      BY <2>2, <2>3, <2>4, <2>7, <3>2
    <3>3. CASE l = m /\ k # m
      BY <2>2, <2>3, <2>4, <2>7, <3>3
    <3> QED BY <3>1, <3>2, <3>3
  <2>8. VectorSound(at, last, names)
    BY <2>5, <2>6, <2>7 DEF VectorSound
  <2>9. \A l \in Everything : v.at[l] # 0 => at[l] # 0
    BY <2>2
  <2> QED BY <2>1, <2>2, <2>8, <2>9 DEF VectorOf
<1> QED BY <1>1, <1>2

LEMMA Freed ==
  ASSUME CInv, NEW o \in Scopes, NEW n \in Everything \ {Stateful}, n \in declared[o], FreeWithin(o, n)
  PROVE  /\ offset' \in Seq([Everything -> Nat]) /\ Len(offset') = Len(outer)
         /\ lastOffset' \in Seq(Nat) /\ Len(lastOffset') = Len(outer)
         /\ exports' = exports \cup {o}
         /\ \A s \in Scopes : s # o => offset'[s] = offset[s] /\ lastOffset'[s] = lastOffset[s]
         /\ VectorSound(offset'[o], lastOffset'[o], declared[o])
         /\ Variable(n) \in Everything /\ offset'[o][Variable(n)] # 0
         /\ \A m \in Everything : offset[o][m] # 0 => offset'[o][m] # 0
<1> DEFINE names == declared[o]
           v == [at |-> offset[o], last |-> lastOffset[o]]
           w == IF Variable(n) = Self THEN GivenPlace(GivenPlace(v, Self), Stateful)
                ELSE GivenPlace(v, n)
<1>1. /\ offset' = [offset EXCEPT ![o] = w.at] /\ lastOffset' = [lastOffset EXCEPT ![o] = w.last]
      /\ exports' = exports \cup {o}
  BY DEF FreeWithin
<1>2. VectorOf(v, names)
  <2>1. offset[o] \in [Everything -> Nat] /\ lastOffset[o] \in Nat
    BY Scoped DEF CInv
  <2> QED BY <2>1 DEF CInv, Vectors, VectorOf
<1>3. Self \in Everything /\ Stateful \in Everything /\ Self \notin Slot /\ Stateful \notin Slot
  BY ClosureScopeAssumption DEF Everything
<1>4. Variable(n) = Self => Self \in names \ Slot /\ Stateful \in names \ Slot
  <2>1. names \subseteq Name \/ Slot \cup {Self, Stateful} \subseteq names
    BY DEF CInv, Depths
  <2>2. Variable(n) = Self => n \in Slot \/ n = Self
    BY DEF Variable
  <2>3. Self \notin Name /\ Slot \cap Name = {}
    BY ClosureScopeAssumption
  <2> QED BY <1>3, <2>1, <2>2, <2>3
<1>5. /\ VectorOf(w, names) /\ w.at[Variable(n)] # 0 /\ Variable(n) \in Everything
      /\ \A m \in Everything : offset[o][m] # 0 => w.at[m] # 0
  <2>1. CASE Variable(n) = Self
    <3>1. /\ VectorOf(GivenPlace(v, Self), names) /\ GivenPlace(v, Self).at[Self] # 0
          /\ \A m \in Everything : v.at[m] # 0 => GivenPlace(v, Self).at[m] # 0
      BY <1>2, <1>3, <1>4, <2>1, PlaceGiven
    <3> DEFINE x == GivenPlace(v, Self)
    <3>2. v.at = offset[o]
      OBVIOUS
    <3> HIDE DEF x, v
    <3>3. /\ VectorOf(GivenPlace(x, Stateful), names)
          /\ \A m \in Everything : x.at[m] # 0 => GivenPlace(x, Stateful).at[m] # 0
      BY <1>3, <1>4, <2>1, <3>1, PlaceGiven DEF x
    <3>4. w = GivenPlace(x, Stateful)
      BY <2>1 DEF x
    <3> QED BY <1>3, <2>1, <3>1, <3>2, <3>3, <3>4 DEF x
  <2>2. CASE Variable(n) # Self
    <3>1. n \notin Slot /\ Variable(n) = n
      BY <2>2 DEF Variable
    <3>2. /\ VectorOf(GivenPlace(v, n), names) /\ GivenPlace(v, n).at[n] # 0
          /\ \A m \in Everything : v.at[m] # 0 => GivenPlace(v, n).at[m] # 0
      BY <1>2, <3>1, PlaceGiven
    <3> QED BY <2>2, <3>1, <3>2
  <2> QED BY <2>1, <2>2
<1> HIDE DEF w
<1>6. w.at \in [Everything -> Nat] /\ w.last \in Nat /\ VectorSound(w.at, w.last, names)
  BY <1>5 DEF VectorOf
<1>7. /\ offset \in Seq([Everything -> Nat]) /\ lastOffset \in Seq(Nat)
      /\ Len(offset) = Len(outer) /\ Len(lastOffset) = Len(outer) /\ Scopes = 1 .. Len(outer)
  BY Scoped DEF CInv, Shape
<1>8. /\ offset' \in Seq([Everything -> Nat]) /\ Len(offset') = Len(outer)
      /\ offset'[o] = w.at /\ \A s \in Scopes : s # o => offset'[s] = offset[s]
  <2> DEFINE Fns == [Everything -> Nat]
             x == w.at
  <2>1. x \in Fns /\ offset \in Seq(Fns) /\ offset' = [offset EXCEPT ![o] = x]
    BY <1>1, <1>6, <1>7
  <2> HIDE DEF Fns, x
  <2>2. /\ offset' \in Seq(Fns) /\ Len(offset') = Len(outer)
        /\ offset'[o] = x /\ \A s \in Scopes : s # o => offset'[s] = offset[s]
    BY <1>7, <2>1
  <2> QED BY <2>2 DEF Fns, x
<1>9. /\ lastOffset' \in Seq(Nat) /\ Len(lastOffset') = Len(outer)
      /\ lastOffset'[o] = w.last /\ \A s \in Scopes : s # o => lastOffset'[s] = lastOffset[s]
  BY <1>1, <1>6, <1>7
<1> QED BY <1>1, <1>5, <1>6, <1>8, <1>9

LEMMA MentionKeeps ==
  ASSUME CInv, NEW n \in Everything \ {Stateful}, Encode(n)
  PROVE  CInv'
<1>1. Shape /\ Depths /\ Waiting /\ Vectors /\ Encoded /\ Returning
  BY DEF CInv
<1>2. PICK o \in Defining(current, n) :
        /\ encodings' = encodings \cup {[scope |-> current, name |-> n, owner |-> o]}
        /\ IF level[o] = level[current] THEN UNCHANGED <<offset, lastOffset, exports>>
           ELSE FreeWithin(o, n)
        /\ IF level[o] = level[current] /\ ~IsFree(o, n) THEN UNCHANGED imports
           ELSE CloseOver(current, o)
  BY DEF Encode
<1>3. UNCHANGED <<outer, inline, level, declared, blocks, bodies, nlrs, current>>
  BY DEF Encode
<1>4. /\ current \in Scopes /\ o \in Enclosing(current) /\ o \in Scopes /\ n \in declared[o]
      /\ Enclosing(current) \subseteq Scopes
  <2>1. current \in Scopes
    BY <1>1, Scoped DEF Encode, InStatements, Shape
  <2> QED BY <1>1, <2>1, Around DEF Defining
<1>5. Scopes' = Scopes /\ Enclosing(current)' = Enclosing(current)
      /\ \A s : Enclosing(s)' = Enclosing(s)
  BY <1>3, EncloseNext DEF Scopes
<1>6. imports \subseteq imports' /\ imports' \subseteq Scopes /\ 1 \notin imports'
  <2>1. 1 \in Enclosing(o)
    BY <1>1, <1>4, Around
  <2> QED BY <1>1, <1>2, <1>4, <2>1 DEF CloseOver, Shape, Depths
<1>7. /\ offset' \in Seq([Everything -> Nat]) /\ Len(offset') = Len(outer)
      /\ lastOffset' \in Seq(Nat) /\ Len(lastOffset') = Len(outer)
      /\ exports' \subseteq Scopes
      /\ \A s \in Scopes : /\ VectorSound(offset'[s], lastOffset'[s], declared[s])
                           /\ s \in exports' <=> \E m \in Everything : offset'[s][m] # 0
                           /\ \A m \in Everything : offset[s][m] # 0 => offset'[s][m] # 0
      /\ level[o] # level[current] => offset'[o][Variable(n)] # 0
  <2>1. CASE level[o] = level[current]
    BY <1>1, <1>2, <2>1 DEF Shape, Vectors
  <2>2. CASE level[o] # level[current]
    <3>1. /\ offset' \in Seq([Everything -> Nat]) /\ Len(offset') = Len(outer)
          /\ lastOffset' \in Seq(Nat) /\ Len(lastOffset') = Len(outer)
          /\ exports' = exports \cup {o}
          /\ \A s \in Scopes : s # o => offset'[s] = offset[s] /\ lastOffset'[s] = lastOffset[s]
          /\ VectorSound(offset'[o], lastOffset'[o], declared[o])
          /\ Variable(n) \in Everything /\ offset'[o][Variable(n)] # 0
          /\ \A m \in Everything : offset[o][m] # 0 => offset'[o][m] # 0
      BY <1>2, <1>4, <2>2, Freed
    <3>2. ASSUME NEW s \in Scopes
          PROVE  /\ VectorSound(offset'[s], lastOffset'[s], declared[s])
                 /\ s \in exports' <=> \E m \in Everything : offset'[s][m] # 0
                 /\ \A m \in Everything : offset[s][m] # 0 => offset'[s][m] # 0
      <4>1. CASE s = o
        BY <3>1, <4>1
      <4>2. CASE s # o
        <5>1. /\ VectorSound(offset[s], lastOffset[s], declared[s])
              /\ s \in exports <=> \E m \in Everything : offset[s][m] # 0
          BY <1>1 DEF Vectors
        <5> QED BY <3>1, <4>2, <5>1
      <4> QED BY <4>1, <4>2
    <3>3. exports' \subseteq Scopes
      BY <1>1, <1>4, <3>1 DEF Shape
    <3> QED BY <3>1, <3>2, <3>3
  <2> QED BY <2>1, <2>2
<1>8. Shape'
  <2>1. encodings' \subseteq Encoding
    <3>1. current \in Nat /\ o \in Nat
      BY <1>1, <1>4, Scoped
    <3>2. [scope |-> current, name |-> n, owner |-> o] \in Encoding
      BY <3>1 DEF Encoding
    <3>3. encodings \subseteq Encoding
      BY <1>1 DEF Shape
    <3> HIDE DEF Encoding
    <3> QED BY <1>2, <3>2, <3>3
  <2> QED BY <1>1, <1>3, <1>5, <1>6, <1>7, <2>1 DEF Shape
<1>9. Depths'
  BY <1>1, <1>3, <1>5, <1>6 DEF Depths
<1>10. Waiting' /\ Returning'
  BY <1>1, <1>3, <1>5 DEF Waiting, Returning
<1>11. Vectors'
  BY <1>3, <1>5, <1>7 DEF Vectors, VectorSound
<1>12. Encoded'
  <2> SUFFICES ASSUME NEW e \in encodings'
               PROVE  /\ e.scope \in Scopes' /\ e.owner \in Enclosing(e.scope)' /\ e.name \in declared'[e.owner]
                      /\ level'[e.owner] # level'[e.scope] =>
                           /\ offset'[e.owner][Variable(e.name)] # 0
                           /\ Enclosing(e.scope)' \ Enclosing(e.owner)' \subseteq imports'
    BY DEF Encoded, IsFree
  <2>1. CASE e \in encodings
    <3>1. /\ e.scope \in Scopes /\ e.owner \in Enclosing(e.scope) /\ e.name \in declared[e.owner]
          /\ level[e.owner] # level[e.scope] =>
               /\ offset[e.owner][Variable(e.name)] # 0
               /\ Enclosing(e.scope) \ Enclosing(e.owner) \subseteq imports
      BY <1>1, <2>1 DEF Encoded, IsFree
    <3>2. e.owner \in Scopes /\ e.name \in Everything /\ Variable(e.name) \in Everything
      <4>1. e.owner \in Scopes
        BY <1>1, <3>1, Around
      <4>2. e.name \in Everything
        BY <1>1, <2>1 DEF Shape, Encoding
      <4> QED BY <4>1, <4>2 DEF Variable, Everything
    <3> QED BY <1>3, <1>5, <1>6, <1>7, <3>1, <3>2
  <2>2. CASE e = [scope |-> current, name |-> n, owner |-> o]
    <3>1. e.scope = current /\ e.owner = o /\ e.name = n
      BY <2>2
    <3>2. level[o] # level[current] => Enclosing(current) \ Enclosing(o) \subseteq imports'
      BY <1>2 DEF CloseOver
    <3> QED BY <1>3, <1>4, <1>5, <1>7, <3>1, <3>2
  <2> QED BY <1>2, <2>1, <2>2
<1> QED BY <1>8, <1>9, <1>10, <1>11, <1>12 DEF CInv

(* ... and when only the place in the method moves on.                     *)
LEMMA MovesOn ==
  ASSUME CInv,
         UNCHANGED <<outer, inline, level, declared, offset, lastOffset, encodings, imports, exports>>,
         blocks' \in Seq(Nat), Len(blocks') = Len(outer), current' \in 0 .. Len(outer),
         bodies' \subseteq Scopes, \A s \in bodies' : ~inline[s],
         nlrs' \subseteq Scopes, \A s \in nlrs' : outer[s] # 0 => outer[s] \in nlrs',
         \A s \in Scopes \ Enclosing(current)' : blocks'[s] = 0
  PROVE  CInv'
<1>1. Shape /\ Depths /\ Waiting /\ Vectors /\ Encoded /\ Returning
  BY DEF CInv
<1>2. Scopes' = Scopes /\ \A s : Enclosing(s)' = Enclosing(s)
  BY EncloseNext DEF Scopes
<1>3. Shape' /\ Depths'
  BY <1>1, <1>2 DEF Shape, Depths
<1>4. Waiting' /\ Returning'
  BY <1>2 DEF Waiting, Returning
<1>5. Vectors' /\ Encoded'
  BY <1>1, <1>2 DEF Vectors, VectorSound, Encoded, IsFree
<1> QED BY <1>3, <1>4, <1>5 DEF CInv

LEMMA ScopesKept == CInv /\ [Next]_vars => CInv'
<1> SUFFICES ASSUME CInv, [Next]_vars PROVE CInv'
  OBVIOUS
<1>1. Shape /\ Depths /\ Waiting /\ Returning
  BY DEF CInv
<1>2. /\ blocks \in Seq(Nat) /\ Len(blocks) = Len(outer) /\ Len(outer) \in Nat
      /\ current \in 0 .. Len(outer) /\ Scopes = 1 .. Len(outer)
      /\ (current # 0 => current \in Scopes) /\ DOMAIN blocks = Scopes
  <2>1. blocks \in Seq(Nat) /\ Len(blocks) = Len(outer) /\ Len(outer) \in Nat
        /\ current \in 0 .. Len(outer) /\ Scopes = 1 .. Len(outer)
    BY <1>1, Scoped DEF Shape
  <2> QED BY <2>1
<1>3. /\ bodies \subseteq Scopes /\ (\A s \in bodies : ~inline[s]) /\ nlrs \subseteq Scopes
      /\ (\A s \in nlrs : outer[s] # 0 => outer[s] \in nlrs)
      /\ \A s \in Scopes \ Enclosing(current) : blocks[s] = 0
  BY <1>1 DEF Shape, Depths, Returning, Waiting
<1>4. current # 0 => /\ Enclosing(current) = {current} \cup Enclosing(outer[current])
                     /\ current \in Enclosing(current) /\ Enclosing(current) \subseteq Scopes
                     /\ outer[current] \in 0 .. Len(outer) /\ blocks[current] \in Nat
                     /\ \A t \in Enclosing(current) : t # 1 => outer[t] \in Enclosing(current)
  BY <1>1, <1>2, Around, Scoped
<1>5. ASSUME NEW n \in Everything \ {Stateful}, Encode(n) PROVE CInv'
  BY <1>5, MentionKeeps
<1>6. CASE NonLocalReturn
  <2>1. UNCHANGED <<outer, inline, level, declared, blocks, offset, lastOffset, encodings, imports,
                    exports, bodies, current>> /\ nlrs' = nlrs \cup Enclosing(current) /\ current # 0
    BY <1>6 DEF NonLocalReturn, NoteNLR, InStatements
  <2>2. Enclosing(current)' = Enclosing(current)
    BY <2>1, EncloseNext
  <2>3. \A s \in nlrs' : outer[s] # 0 => outer[s] \in nlrs'
    BY <1>1, <1>3, <1>4, <2>1, Scoped
  <2> QED BY <1>2, <1>3, <1>4, <2>1, <2>2, <2>3, MovesOn
<1>7. CASE OpenInline
  <2>1. /\ NewScope({}, TRUE, blocks) /\ current \in Scopes
        /\ UNCHANGED <<bodies, encodings, imports, exports, nlrs>>
    BY <1>2, <1>7 DEF OpenInline, InStatements
  <2> QED BY <1>2, <1>3, <2>1, ScopeOpened
<1>8. CASE CloseInline
  <2>1. /\ current \in Scopes /\ current # 0 /\ inline[current] /\ current' = outer[current]
        /\ blocks' = [blocks EXCEPT ![outer[current]] = @ + blocks[current], ![current] = 0]
        /\ UNCHANGED <<outer, inline, level, declared, offset, lastOffset, encodings, imports,
                       exports, bodies, nlrs>>
    BY <1>2, <1>8 DEF CloseInline, InStatements
  <2>2. current # 1 /\ outer[current] \in Scopes /\ outer[current] # current
    BY <1>1, <1>2, <2>1, Scoped DEF Depths
  <2>3. Enclosing(current)' = Enclosing(outer[current])
    BY <2>1, EncloseNext
  <2>4. blocks[outer[current]] + blocks[current] \in Nat
    BY <1>1, <1>4, <2>1, <2>2, Scoped
  <2>5. /\ blocks' \in Seq(Nat) /\ Len(blocks') = Len(outer) /\ blocks'[current] = 0
        /\ \A s \in Scopes : s # current /\ s # outer[current] => blocks'[s] = blocks[s]
    <3> DEFINE sum == blocks[outer[current]] + blocks[current]
               b == [blocks EXCEPT ![outer[current]] = sum]
    <3>1. blocks' = [b EXCEPT ![current] = 0]
      BY <2>1, <2>2
    <3>2. b \in Seq(Nat) /\ Len(b) = Len(outer) /\ \A s \in Scopes : s # outer[current] => b[s] = blocks[s]
      <4>1. sum \in Nat
        BY <2>4
      <4> HIDE DEF sum
      <4> QED BY <1>2, <2>2, <4>1
    <3>3. current \in Scopes /\ Scopes = 1 .. Len(outer)
      BY <1>2, <2>1
    <3> HIDE DEF b, sum
    <3>4. /\ blocks' \in Seq(Nat) /\ Len(blocks') = Len(outer) /\ blocks'[current] = 0
          /\ \A s \in Scopes : s # current => blocks'[s] = b[s]
      BY <3>1, <3>2, <3>3
    <3> QED BY <3>2, <3>4
  <2>6. outer[current] \in Enclosing(outer[current])
    BY <1>1, <2>2, Around
  <2>7. \A s \in Scopes \ Enclosing(outer[current]) : blocks'[s] = 0
    BY <1>3, <1>4, <2>1, <2>5, <2>6
  <2> QED BY <1>3, <1>4, <2>1, <2>3, <2>5, <2>7, MovesOn
<1>9. CASE AddBlock
  <2>1. /\ current \in Scopes /\ current # 0 /\ blocks' = [blocks EXCEPT ![current] = @ + 1]
        /\ UNCHANGED <<outer, inline, level, declared, offset, lastOffset, encodings, imports,
                       exports, bodies, nlrs, current>>
    BY <1>2, <1>9 DEF AddBlock, InStatements
  <2>2. /\ blocks' \in Seq(Nat) /\ Len(blocks') = Len(outer)
        /\ \A s \in Scopes : s # current => blocks'[s] = blocks[s]
    BY <1>2, <1>4, <2>1
  <2>3. Enclosing(current)' = Enclosing(current)
    BY <2>1, EncloseNext
  <2> QED BY <1>2, <1>3, <1>4, <2>1, <2>2, <2>3, MovesOn
<1>10. CASE EndStatements
  <2>1. /\ current \in Scopes /\ ~inline[current] /\ bodies' = bodies \cup {current}
        /\ UNCHANGED <<outer, inline, level, declared, blocks, offset, lastOffset, encodings,
                       imports, exports, nlrs, current>>
    BY <1>2, <1>10 DEF EndStatements, InStatements
  <2>2. Enclosing(current)' = Enclosing(current)
    BY <2>1, EncloseNext
  <2> QED BY <1>2, <1>3, <2>1, <2>2, MovesOn
<1>11. ASSUME NEW names \in SUBSET Name, EncodeBody(names) PROVE CInv'
  <2>1. /\ NewScope(names, FALSE, [blocks EXCEPT ![current] = @ - 1]) /\ current \in bodies
        /\ blocks[current] > 0 /\ UNCHANGED <<bodies, encodings, imports, exports, nlrs>>
    BY <1>11 DEF EncodeBody
  <2>2. current \in Scopes /\ ~inline[current] /\ current # 0
    BY <1>2, <1>3, <2>1
  <2> DEFINE waiting == [blocks EXCEPT ![current] = @ - 1]
  <2>3. /\ waiting \in Seq(Nat) /\ Len(waiting) = Len(outer)
        /\ \A s \in Scopes : s # current => waiting[s] = blocks[s]
    BY <1>2, <1>4, <2>1, <2>2
  <2>4. \A s \in Scopes \ Enclosing(current) : waiting[s] = 0
    BY <1>3, <1>4, <2>2, <2>3
  <2> HIDE DEF waiting
  <2>5. NewScope(names, FALSE, waiting)
    BY <2>1 DEF waiting
  <2> QED BY <2>1, <2>2, <2>3, <2>4, <2>5, ScopeOpened
<1>12. CASE EndBody
  <2>1. /\ current \in bodies /\ blocks[current] = 0 /\ current' = outer[current]
        /\ UNCHANGED <<outer, inline, level, declared, blocks, offset, lastOffset, encodings,
                       imports, exports, bodies, nlrs>>
    BY <1>12 DEF EndBody
  <2>2. current \in Scopes /\ current # 0
    BY <1>2, <1>3, <2>1
  <2>3. Enclosing(current)' = Enclosing(outer[current])
    BY <2>1, EncloseNext
  <2>4. \A s \in Scopes \ Enclosing(outer[current]) : blocks'[s] = 0
    BY <1>3, <1>4, <2>1, <2>2
  <2> QED BY <1>2, <1>3, <1>4, <2>1, <2>2, <2>3, <2>4, MovesOn
<1>13. CASE UNCHANGED vars
  <2>1. UNCHANGED <<outer, inline, level, declared, blocks, offset, lastOffset, encodings,
                    imports, exports, bodies, nlrs, current>>
    BY <1>13 DEF vars
  <2>2. Enclosing(current)' = Enclosing(current)
    BY <2>1, EncloseNext
  <2> QED BY <1>2, <1>3, <2>1, <2>2, MovesOn
<1> QED BY <1>5, <1>6, <1>7, <1>8, <1>9, <1>10, <1>11, <1>12, <1>13 DEF Next

LEMMA ScopesInvariance == Spec => []CInv
<1> QED BY ScopesInitially, ScopesKept, PTL DEF Spec

-----------------------------------------------------------------------------
(***************************************************************************)
(* Every reference finds its variable, in a method of any size and depth,  *)
(* though Scope>>encode: decides whether a variable moves to a state       *)
(* vector while references to it are still being met: along the links of   *)
(* closures, or in its own C function (CCodeGenerator, genFreeState:).     *)
(***************************************************************************)
THEOREM VariablesReachable == Spec => []FreeVariablesReachable
<1>1. CInv => FreeVariablesReachable
  BY Reached
<1> QED BY <1>1, ScopesInvariance, PTL

(***************************************************************************)
(* A state vector has the size Scope>>stateVectorSize counts, and each     *)
(* offset EncodedVariableNode>>freeWithin: gave lies in it, once.          *)
(***************************************************************************)
THEOREM VectorsFit == Spec => []StateVectorsFit
<1>1. CInv => StateVectorsFit
  BY VectorFits
<1> QED BY <1>1, ScopesInvariance, PTL

(***************************************************************************)
(* The jump buffer is handed down to every block that returns, through     *)
(* however many blocks, where the C code compiles at all (CCodeGenerator,  *)
(* makeBlock:; MethodNode, declareNonLocalReturn).                         *)
(***************************************************************************)
THEOREM ReturnsHome == Spec => []NonLocalReturnsHome
<1>1. CInv => NonLocalReturnsHome
  BY HandedDown
<1> QED BY <1>1, ScopesInvariance, PTL

(***************************************************************************)
(* No literal is forgotten: what BlockNode>>encodeOpen meets in line is    *)
(* encoded with the scopes around it.                                      *)
(***************************************************************************)
THEOREM BlocksEncoded == Spec => []EveryBlockEncoded
<1>1. CInv => EveryBlockEncoded
  BY NoneWaiting
<1> QED BY <1>1, ScopesInvariance, PTL

\* Counting along the numbers.
LEMMA Upward ==
  ASSUME NEW Shown, 0 \in Shown, \A n \in Nat : n \in Shown => n + 1 \in Shown
  PROVE  \A n \in Nat : n \in Shown
<1> SUFFICES ASSUME NEW n \in Nat, n \notin Shown PROVE FALSE
  OBVIOUS
<1> DEFINE bad == {i \in Nat : i \notin Shown}
<1>1. bad \in SUBSET Nat /\ bad # {}
  OBVIOUS
<1>2. PICK m \in bad : \A i \in bad : m <= i
  <2> HIDE DEF bad
  <2> QED BY <1>1, Least
<1>3. m \in Nat /\ m # 0 /\ m - 1 \in Nat /\ ~(m <= m - 1)
  OBVIOUS
<1>4. m - 1 \in Shown
  BY <1>2, <1>3
<1>5. (m - 1) + 1 \in Shown /\ (m - 1) + 1 = m
  BY <1>3, <1>4
<1> QED BY <1>5

\* Counting along a sequence.
LEMMA UpTo ==
  ASSUME NEW n \in Nat, NEW Good, 0 \in Good, \A i \in 1 .. n : i - 1 \in Good => i \in Good
  PROVE  n \in Good
<1> DEFINE Shown == {m \in Nat : m <= n => m \in Good}
<1>1. 0 \in Shown
  OBVIOUS
<1>2. ASSUME NEW m \in Nat, m \in Shown PROVE m + 1 \in Shown
  <2> SUFFICES ASSUME m + 1 <= n PROVE m + 1 \in Good
    OBVIOUS
  <2>1. m + 1 \in 1 .. n /\ (m + 1) - 1 = m /\ m \in Good
    BY <1>2
  <2> QED BY <2>1
<1> HIDE DEF Shown
<1>3. n \in Shown
  BY <1>1, <1>2, Upward
<1> QED BY <1>3 DEF Shown

-----------------------------------------------------------------------------
(* The nodes by their levels: the equations of the recursive definition.   *)
LevelsAt(n, below) ==
    IF n = 0 THEN {r \in Over({}) : r.kind \in {"variable", "literal"}}
    ELSE {r \in Over(below) : Parsed(r)}
LEMMA LevelsLowest == \A a, b : LevelsAt(0, a) = LevelsAt(0, b)
BY DEF LevelsAt

LevelsTo(f, m) == \A n \in 0 .. m : f[n] = LevelsAt(n, f[n - 1])
LEMMA LevelsSame ==
  ASSUME NEW f, NEW g, NEW m \in Nat, LevelsTo(f, m), NEW o \in Nat, LevelsTo(g, o)
  PROVE  \A n \in Nat : n <= m /\ n <= o => f[n] = g[n]
<1> DEFINE Shown == {n \in Nat : n <= m /\ n <= o => f[n] = g[n]}
<1>1. 0 \in Shown
  <2>1. 0 \in 0 .. m /\ 0 \in 0 .. o
    OBVIOUS
  <2>2. f[0] = LevelsAt(0, f[0 - 1]) /\ g[0] = LevelsAt(0, g[0 - 1])
    BY <2>1 DEF LevelsTo
  <2> QED BY <2>2, LevelsLowest
<1>2. ASSUME NEW n \in Nat, n \in Shown PROVE n + 1 \in Shown
  <2> SUFFICES ASSUME n + 1 <= m, n + 1 <= o PROVE f[n + 1] = g[n + 1]
    OBVIOUS
  <2>1. f[n] = g[n]
    BY <1>2
  <2>2. n + 1 \in 0 .. m /\ n + 1 \in 0 .. o /\ (n + 1) - 1 = n
    OBVIOUS
  <2>3. f[n + 1] = LevelsAt(n + 1, f[n]) /\ g[n + 1] = LevelsAt(n + 1, g[n])
    BY <2>2 DEF LevelsTo
  <2> QED BY <2>1, <2>3
<1> HIDE DEF Shown
<1>3. \A n \in Nat : n \in Shown
  BY <1>1, <1>2, Upward
<1> QED BY <1>3 DEF Shown

LEMMA LevelsMade == \A m \in Nat : \E f : LevelsTo(f, m)
<1> DEFINE Shown == {m \in Nat : \E f : LevelsTo(f, m)}
<1>1. 0 \in Shown
  <2> DEFINE f == [n \in {0} |-> LevelsAt(0, 0)]
  <2>0. f[0] = LevelsAt(0, 0)
    OBVIOUS
  <2> HIDE DEF f
  <2>1. f[0] = LevelsAt(0, f[0 - 1])
    BY <2>0, LevelsLowest
  <2>2. LevelsTo(f, 0)
    BY <2>1 DEF LevelsTo
  <2> QED BY <2>2
<1>2. ASSUME NEW m \in Nat, m \in Shown PROVE m + 1 \in Shown
  <2>1. PICK g : LevelsTo(g, m)
    BY <1>2
  <2> DEFINE f == [n \in 0 .. m + 1 |-> IF n = m + 1 THEN LevelsAt(m + 1, g[m]) ELSE g[n]]
  <2>2. f[m + 1] = LevelsAt(m + 1, g[m]) /\ \A n \in 0 .. m : f[n] = g[n]
    OBVIOUS
  <2> HIDE DEF f
  <2>3. ASSUME NEW n \in 0 .. m + 1 PROVE f[n] = LevelsAt(n, f[n - 1])
    <3>1. CASE n = m + 1
      <4>1. m \in 0 .. m /\ n - 1 = m
        BY <3>1
      <4> QED BY <2>2, <3>1, <4>1
    <3>2. CASE n # m + 1 /\ n # 0
      <4>1. n \in 0 .. m /\ n - 1 \in 0 .. m
        BY <3>2
      <4>2. f[n] = g[n] /\ f[n - 1] = g[n - 1]
        BY <2>2, <4>1
      <4>3. g[n] = LevelsAt(n, g[n - 1])
        BY <2>1, <4>1 DEF LevelsTo
      <4> QED BY <4>2, <4>3
    <3>3. CASE n = 0
      <4>1. 0 \in 0 .. m
        OBVIOUS
      <4>2. f[0] = g[0] /\ g[0] = LevelsAt(0, g[0 - 1])
        BY <2>1, <2>2, <4>1 DEF LevelsTo
      <4> QED BY <4>2, <3>3, LevelsLowest
    <3> QED BY <3>1, <3>2, <3>3
  <2>4. LevelsTo(f, m + 1)
    BY <2>3 DEF LevelsTo
  <2> QED BY <2>4
<1> HIDE DEF Shown
<1>3. \A m \in Nat : m \in Shown
  BY <1>1, <1>2, Upward
<1> QED BY <1>3 DEF Shown

LEMMA LevelsIs == \A n \in Nat : Nodes[n] = LevelsAt(n, Nodes[n - 1])
<1> DEFINE Solves(f) == f = [n \in Nat |-> LevelsAt(n, f[n - 1])]
           part(m) == CHOOSE f : LevelsTo(f, m)
           whole == [n \in Nat |-> part(n)[n]]
<1>1. \A m \in Nat : LevelsTo(part(m), m)
  BY LevelsMade
<1> HIDE DEF part
<1>2. ASSUME NEW n \in Nat PROVE whole[n] = LevelsAt(n, whole[n - 1])
  <2>1. n \in 0 .. n /\ part(n)[n] = LevelsAt(n, part(n)[n - 1])
    <3> DEFINE f == part(n)
    <3>1. LevelsTo(f, n) /\ n \in 0 .. n
      BY <1>1
    <3> HIDE DEF f
    <3>2. f[n] = LevelsAt(n, f[n - 1])
      BY <3>1 DEF LevelsTo
    <3> QED BY <3>1, <3>2 DEF f
  <2>2. ASSUME n # 0 PROVE part(n)[n - 1] = part(n - 1)[n - 1]
    <3>1. n - 1 \in Nat /\ n - 1 <= n /\ n - 1 <= n - 1
      BY <2>2
    <3>2. LevelsTo(part(n), n) /\ LevelsTo(part(n - 1), n - 1)
      BY <1>1, <3>1
    <3> QED BY <3>1, <3>2, LevelsSame
  <2>3. whole[n] = part(n)[n] /\ (n # 0 => whole[n - 1] = part(n - 1)[n - 1])
    OBVIOUS
  <2> HIDE DEF whole
  <2>4. CASE n # 0
    BY <2>1, <2>2, <2>3, <2>4
  <2>5. CASE n = 0
    BY <2>1, <2>3, <2>5, LevelsLowest
  <2> QED BY <2>4, <2>5
<1>3. Solves(whole)
  <2>1. whole = [n \in Nat |-> whole[n]]
    OBVIOUS
  <2> HIDE DEF whole
  <2> QED BY <1>2, <2>1
<1>4. Solves(Nodes)
  <2>1. Nodes = CHOOSE f : Solves(f)
    BY DEF Nodes, LevelsAt
  <2> HIDE DEF Solves, whole
  <2> QED BY <1>3, <2>1
<1> QED BY <1>4

-----------------------------------------------------------------------------
(* The same for the encoding of nodes, of blocks, and their code.          *)
EncodedAt(d, below) ==
    [x \in Nodes[d] \X Encoders |-> EncodeNode(IF d = 0 THEN <<>> ELSE below, x[1], x[2])]
LEMMA EncodedLowest == \A a, b : EncodedAt(0, a) = EncodedAt(0, b)
BY DEF EncodedAt

EncodedTo(f, m) == \A n \in 0 .. m : f[n] = EncodedAt(n, f[n - 1])
LEMMA EncodedSame ==
  ASSUME NEW f, NEW g, NEW m \in Nat, EncodedTo(f, m), NEW o \in Nat, EncodedTo(g, o)
  PROVE  \A n \in Nat : n <= m /\ n <= o => f[n] = g[n]
<1> DEFINE Shown == {n \in Nat : n <= m /\ n <= o => f[n] = g[n]}
<1>1. 0 \in Shown
  <2>1. 0 \in 0 .. m /\ 0 \in 0 .. o
    OBVIOUS
  <2>2. f[0] = EncodedAt(0, f[0 - 1]) /\ g[0] = EncodedAt(0, g[0 - 1])
    BY <2>1 DEF EncodedTo
  <2> QED BY <2>2, EncodedLowest
<1>2. ASSUME NEW n \in Nat, n \in Shown PROVE n + 1 \in Shown
  <2> SUFFICES ASSUME n + 1 <= m, n + 1 <= o PROVE f[n + 1] = g[n + 1]
    OBVIOUS
  <2>1. f[n] = g[n]
    BY <1>2
  <2>2. n + 1 \in 0 .. m /\ n + 1 \in 0 .. o /\ (n + 1) - 1 = n
    OBVIOUS
  <2>3. f[n + 1] = EncodedAt(n + 1, f[n]) /\ g[n + 1] = EncodedAt(n + 1, g[n])
    BY <2>2 DEF EncodedTo
  <2> QED BY <2>1, <2>3
<1> HIDE DEF Shown
<1>3. \A n \in Nat : n \in Shown
  BY <1>1, <1>2, Upward
<1> QED BY <1>3 DEF Shown

LEMMA EncodedMade == \A m \in Nat : \E f : EncodedTo(f, m)
<1> DEFINE Shown == {m \in Nat : \E f : EncodedTo(f, m)}
<1>1. 0 \in Shown
  <2> DEFINE f == [n \in {0} |-> EncodedAt(0, 0)]
  <2>0. f[0] = EncodedAt(0, 0)
    OBVIOUS
  <2> HIDE DEF f
  <2>1. f[0] = EncodedAt(0, f[0 - 1])
    BY <2>0, EncodedLowest
  <2>2. EncodedTo(f, 0)
    BY <2>1 DEF EncodedTo
  <2> QED BY <2>2
<1>2. ASSUME NEW m \in Nat, m \in Shown PROVE m + 1 \in Shown
  <2>1. PICK g : EncodedTo(g, m)
    BY <1>2
  <2> DEFINE f == [n \in 0 .. m + 1 |-> IF n = m + 1 THEN EncodedAt(m + 1, g[m]) ELSE g[n]]
  <2>2. f[m + 1] = EncodedAt(m + 1, g[m]) /\ \A n \in 0 .. m : f[n] = g[n]
    OBVIOUS
  <2> HIDE DEF f
  <2>3. ASSUME NEW n \in 0 .. m + 1 PROVE f[n] = EncodedAt(n, f[n - 1])
    <3>1. CASE n = m + 1
      <4>1. m \in 0 .. m /\ n - 1 = m
        BY <3>1
      <4> QED BY <2>2, <3>1, <4>1
    <3>2. CASE n # m + 1 /\ n # 0
      <4>1. n \in 0 .. m /\ n - 1 \in 0 .. m
        BY <3>2
      <4>2. f[n] = g[n] /\ f[n - 1] = g[n - 1]
        BY <2>2, <4>1
      <4>3. g[n] = EncodedAt(n, g[n - 1])
        BY <2>1, <4>1 DEF EncodedTo
      <4> QED BY <4>2, <4>3
    <3>3. CASE n = 0
      <4>1. 0 \in 0 .. m
        OBVIOUS
      <4>2. f[0] = g[0] /\ g[0] = EncodedAt(0, g[0 - 1])
        BY <2>1, <2>2, <4>1 DEF EncodedTo
      <4> QED BY <4>2, <3>3, EncodedLowest
    <3> QED BY <3>1, <3>2, <3>3
  <2>4. EncodedTo(f, m + 1)
    BY <2>3 DEF EncodedTo
  <2> QED BY <2>4
<1> HIDE DEF Shown
<1>3. \A m \in Nat : m \in Shown
  BY <1>1, <1>2, Upward
<1> QED BY <1>3 DEF Shown

LEMMA EncodedIs == \A n \in Nat : NodeEncoding[n] = EncodedAt(n, NodeEncoding[n - 1])
<1> DEFINE Solves(f) == f = [n \in Nat |-> EncodedAt(n, f[n - 1])]
           part(m) == CHOOSE f : EncodedTo(f, m)
           whole == [n \in Nat |-> part(n)[n]]
<1>1. \A m \in Nat : EncodedTo(part(m), m)
  BY EncodedMade
<1> HIDE DEF part
<1>2. ASSUME NEW n \in Nat PROVE whole[n] = EncodedAt(n, whole[n - 1])
  <2>1. n \in 0 .. n /\ part(n)[n] = EncodedAt(n, part(n)[n - 1])
    <3> DEFINE f == part(n)
    <3>1. EncodedTo(f, n) /\ n \in 0 .. n
      BY <1>1
    <3> HIDE DEF f
    <3>2. f[n] = EncodedAt(n, f[n - 1])
      BY <3>1 DEF EncodedTo
    <3> QED BY <3>1, <3>2 DEF f
  <2>2. ASSUME n # 0 PROVE part(n)[n - 1] = part(n - 1)[n - 1]
    <3>1. n - 1 \in Nat /\ n - 1 <= n /\ n - 1 <= n - 1
      BY <2>2
    <3>2. EncodedTo(part(n), n) /\ EncodedTo(part(n - 1), n - 1)
      BY <1>1, <3>1
    <3> QED BY <3>1, <3>2, EncodedSame
  <2>3. whole[n] = part(n)[n] /\ (n # 0 => whole[n - 1] = part(n - 1)[n - 1])
    OBVIOUS
  <2> HIDE DEF whole
  <2>4. CASE n # 0
    BY <2>1, <2>2, <2>3, <2>4
  <2>5. CASE n = 0
    BY <2>1, <2>3, <2>5, EncodedLowest
  <2> QED BY <2>4, <2>5
<1>3. Solves(whole)
  <2>1. whole = [n \in Nat |-> whole[n]]
    OBVIOUS
  <2> HIDE DEF whole
  <2> QED BY <1>2, <2>1
<1>4. Solves(NodeEncoding)
  <2>1. NodeEncoding = CHOOSE f : Solves(f)
    BY DEF NodeEncoding, EncodedAt
  <2> HIDE DEF Solves, whole
  <2> QED BY <1>3, <2>1
<1> QED BY <1>4

-----------------------------------------------------------------------------
BlocksAt(d, below) ==
    [x \in {n \in Nodes[d] : n.kind = "block"} \X Encoders |->
        EncodeUnit(IF d = 0 THEN <<>> ELSE below, BlockBody(x[1]), x[1].sub, x[2])]
LEMMA BlocksLowest == \A a, b : BlocksAt(0, a) = BlocksAt(0, b)
BY DEF BlocksAt

BlocksTo(f, m) == \A n \in 0 .. m : f[n] = BlocksAt(n, f[n - 1])
LEMMA BlocksSame ==
  ASSUME NEW f, NEW g, NEW m \in Nat, BlocksTo(f, m), NEW o \in Nat, BlocksTo(g, o)
  PROVE  \A n \in Nat : n <= m /\ n <= o => f[n] = g[n]
<1> DEFINE Shown == {n \in Nat : n <= m /\ n <= o => f[n] = g[n]}
<1>1. 0 \in Shown
  <2>1. 0 \in 0 .. m /\ 0 \in 0 .. o
    OBVIOUS
  <2>2. f[0] = BlocksAt(0, f[0 - 1]) /\ g[0] = BlocksAt(0, g[0 - 1])
    BY <2>1 DEF BlocksTo
  <2> QED BY <2>2, BlocksLowest
<1>2. ASSUME NEW n \in Nat, n \in Shown PROVE n + 1 \in Shown
  <2> SUFFICES ASSUME n + 1 <= m, n + 1 <= o PROVE f[n + 1] = g[n + 1]
    OBVIOUS
  <2>1. f[n] = g[n]
    BY <1>2
  <2>2. n + 1 \in 0 .. m /\ n + 1 \in 0 .. o /\ (n + 1) - 1 = n
    OBVIOUS
  <2>3. f[n + 1] = BlocksAt(n + 1, f[n]) /\ g[n + 1] = BlocksAt(n + 1, g[n])
    BY <2>2 DEF BlocksTo
  <2> QED BY <2>1, <2>3
<1> HIDE DEF Shown
<1>3. \A n \in Nat : n \in Shown
  BY <1>1, <1>2, Upward
<1> QED BY <1>3 DEF Shown

LEMMA BlocksMade == \A m \in Nat : \E f : BlocksTo(f, m)
<1> DEFINE Shown == {m \in Nat : \E f : BlocksTo(f, m)}
<1>1. 0 \in Shown
  <2> DEFINE f == [n \in {0} |-> BlocksAt(0, 0)]
  <2>0. f[0] = BlocksAt(0, 0)
    OBVIOUS
  <2> HIDE DEF f
  <2>1. f[0] = BlocksAt(0, f[0 - 1])
    BY <2>0, BlocksLowest
  <2>2. BlocksTo(f, 0)
    BY <2>1 DEF BlocksTo
  <2> QED BY <2>2
<1>2. ASSUME NEW m \in Nat, m \in Shown PROVE m + 1 \in Shown
  <2>1. PICK g : BlocksTo(g, m)
    BY <1>2
  <2> DEFINE f == [n \in 0 .. m + 1 |-> IF n = m + 1 THEN BlocksAt(m + 1, g[m]) ELSE g[n]]
  <2>2. f[m + 1] = BlocksAt(m + 1, g[m]) /\ \A n \in 0 .. m : f[n] = g[n]
    OBVIOUS
  <2> HIDE DEF f
  <2>3. ASSUME NEW n \in 0 .. m + 1 PROVE f[n] = BlocksAt(n, f[n - 1])
    <3>1. CASE n = m + 1
      <4>1. m \in 0 .. m /\ n - 1 = m
        BY <3>1
      <4> QED BY <2>2, <3>1, <4>1
    <3>2. CASE n # m + 1 /\ n # 0
      <4>1. n \in 0 .. m /\ n - 1 \in 0 .. m
        BY <3>2
      <4>2. f[n] = g[n] /\ f[n - 1] = g[n - 1]
        BY <2>2, <4>1
      <4>3. g[n] = BlocksAt(n, g[n - 1])
        BY <2>1, <4>1 DEF BlocksTo
      <4> QED BY <4>2, <4>3
    <3>3. CASE n = 0
      <4>1. 0 \in 0 .. m
        OBVIOUS
      <4>2. f[0] = g[0] /\ g[0] = BlocksAt(0, g[0 - 1])
        BY <2>1, <2>2, <4>1 DEF BlocksTo
      <4> QED BY <4>2, <3>3, BlocksLowest
    <3> QED BY <3>1, <3>2, <3>3
  <2>4. BlocksTo(f, m + 1)
    BY <2>3 DEF BlocksTo
  <2> QED BY <2>4
<1> HIDE DEF Shown
<1>3. \A m \in Nat : m \in Shown
  BY <1>1, <1>2, Upward
<1> QED BY <1>3 DEF Shown

LEMMA BlocksIs == \A n \in Nat : BlockEncoding[n] = BlocksAt(n, BlockEncoding[n - 1])
<1> DEFINE Solves(f) == f = [n \in Nat |-> BlocksAt(n, f[n - 1])]
           part(m) == CHOOSE f : BlocksTo(f, m)
           whole == [n \in Nat |-> part(n)[n]]
<1>1. \A m \in Nat : BlocksTo(part(m), m)
  BY BlocksMade
<1> HIDE DEF part
<1>2. ASSUME NEW n \in Nat PROVE whole[n] = BlocksAt(n, whole[n - 1])
  <2>1. n \in 0 .. n /\ part(n)[n] = BlocksAt(n, part(n)[n - 1])
    <3> DEFINE f == part(n)
    <3>1. BlocksTo(f, n) /\ n \in 0 .. n
      BY <1>1
    <3> HIDE DEF f
    <3>2. f[n] = BlocksAt(n, f[n - 1])
      BY <3>1 DEF BlocksTo
    <3> QED BY <3>1, <3>2 DEF f
  <2>2. ASSUME n # 0 PROVE part(n)[n - 1] = part(n - 1)[n - 1]
    <3>1. n - 1 \in Nat /\ n - 1 <= n /\ n - 1 <= n - 1
      BY <2>2
    <3>2. BlocksTo(part(n), n) /\ BlocksTo(part(n - 1), n - 1)
      BY <1>1, <3>1
    <3> QED BY <3>1, <3>2, BlocksSame
  <2>3. whole[n] = part(n)[n] /\ (n # 0 => whole[n - 1] = part(n - 1)[n - 1])
    OBVIOUS
  <2> HIDE DEF whole
  <2>4. CASE n # 0
    BY <2>1, <2>2, <2>3, <2>4
  <2>5. CASE n = 0
    BY <2>1, <2>3, <2>5, BlocksLowest
  <2> QED BY <2>4, <2>5
<1>3. Solves(whole)
  <2>1. whole = [n \in Nat |-> whole[n]]
    OBVIOUS
  <2> HIDE DEF whole
  <2> QED BY <1>2, <2>1
<1>4. Solves(BlockEncoding)
  <2>1. BlockEncoding = CHOOSE f : Solves(f)
    BY DEF BlockEncoding, BlocksAt
  <2> HIDE DEF Solves, whole
  <2> QED BY <1>3, <2>1
<1> QED BY <1>4

-----------------------------------------------------------------------------
CodedAt(d, below) ==
    [x \in Nodes[d] \X Nat |-> GenNode(IF d = 0 THEN <<>> ELSE below, x[1], x[2])]
LEMMA CodedLowest == \A a, b : CodedAt(0, a) = CodedAt(0, b)
BY DEF CodedAt

CodedTo(f, m) == \A n \in 0 .. m : f[n] = CodedAt(n, f[n - 1])
LEMMA CodedSame ==
  ASSUME NEW f, NEW g, NEW m \in Nat, CodedTo(f, m), NEW o \in Nat, CodedTo(g, o)
  PROVE  \A n \in Nat : n <= m /\ n <= o => f[n] = g[n]
<1> DEFINE Shown == {n \in Nat : n <= m /\ n <= o => f[n] = g[n]}
<1>1. 0 \in Shown
  <2>1. 0 \in 0 .. m /\ 0 \in 0 .. o
    OBVIOUS
  <2>2. f[0] = CodedAt(0, f[0 - 1]) /\ g[0] = CodedAt(0, g[0 - 1])
    BY <2>1 DEF CodedTo
  <2> QED BY <2>2, CodedLowest
<1>2. ASSUME NEW n \in Nat, n \in Shown PROVE n + 1 \in Shown
  <2> SUFFICES ASSUME n + 1 <= m, n + 1 <= o PROVE f[n + 1] = g[n + 1]
    OBVIOUS
  <2>1. f[n] = g[n]
    BY <1>2
  <2>2. n + 1 \in 0 .. m /\ n + 1 \in 0 .. o /\ (n + 1) - 1 = n
    OBVIOUS
  <2>3. f[n + 1] = CodedAt(n + 1, f[n]) /\ g[n + 1] = CodedAt(n + 1, g[n])
    BY <2>2 DEF CodedTo
  <2> QED BY <2>1, <2>3
<1> HIDE DEF Shown
<1>3. \A n \in Nat : n \in Shown
  BY <1>1, <1>2, Upward
<1> QED BY <1>3 DEF Shown

LEMMA CodedMade == \A m \in Nat : \E f : CodedTo(f, m)
<1> DEFINE Shown == {m \in Nat : \E f : CodedTo(f, m)}
<1>1. 0 \in Shown
  <2> DEFINE f == [n \in {0} |-> CodedAt(0, 0)]
  <2>0. f[0] = CodedAt(0, 0)
    OBVIOUS
  <2> HIDE DEF f
  <2>1. f[0] = CodedAt(0, f[0 - 1])
    BY <2>0, CodedLowest
  <2>2. CodedTo(f, 0)
    BY <2>1 DEF CodedTo
  <2> QED BY <2>2
<1>2. ASSUME NEW m \in Nat, m \in Shown PROVE m + 1 \in Shown
  <2>1. PICK g : CodedTo(g, m)
    BY <1>2
  <2> DEFINE f == [n \in 0 .. m + 1 |-> IF n = m + 1 THEN CodedAt(m + 1, g[m]) ELSE g[n]]
  <2>2. f[m + 1] = CodedAt(m + 1, g[m]) /\ \A n \in 0 .. m : f[n] = g[n]
    OBVIOUS
  <2> HIDE DEF f
  <2>3. ASSUME NEW n \in 0 .. m + 1 PROVE f[n] = CodedAt(n, f[n - 1])
    <3>1. CASE n = m + 1
      <4>1. m \in 0 .. m /\ n - 1 = m
        BY <3>1
      <4> QED BY <2>2, <3>1, <4>1
    <3>2. CASE n # m + 1 /\ n # 0
      <4>1. n \in 0 .. m /\ n - 1 \in 0 .. m
        BY <3>2
      <4>2. f[n] = g[n] /\ f[n - 1] = g[n - 1]
        BY <2>2, <4>1
      <4>3. g[n] = CodedAt(n, g[n - 1])
        BY <2>1, <4>1 DEF CodedTo
      <4> QED BY <4>2, <4>3
    <3>3. CASE n = 0
      <4>1. 0 \in 0 .. m
        OBVIOUS
      <4>2. f[0] = g[0] /\ g[0] = CodedAt(0, g[0 - 1])
        BY <2>1, <2>2, <4>1 DEF CodedTo
      <4> QED BY <4>2, <3>3, CodedLowest
    <3> QED BY <3>1, <3>2, <3>3
  <2>4. CodedTo(f, m + 1)
    BY <2>3 DEF CodedTo
  <2> QED BY <2>4
<1> HIDE DEF Shown
<1>3. \A m \in Nat : m \in Shown
  BY <1>1, <1>2, Upward
<1> QED BY <1>3 DEF Shown

LEMMA CodedIs == \A n \in Nat : NodeCode[n] = CodedAt(n, NodeCode[n - 1])
<1> DEFINE Solves(f) == f = [n \in Nat |-> CodedAt(n, f[n - 1])]
           part(m) == CHOOSE f : CodedTo(f, m)
           whole == [n \in Nat |-> part(n)[n]]
<1>1. \A m \in Nat : CodedTo(part(m), m)
  BY CodedMade
<1> HIDE DEF part
<1>2. ASSUME NEW n \in Nat PROVE whole[n] = CodedAt(n, whole[n - 1])
  <2>1. n \in 0 .. n /\ part(n)[n] = CodedAt(n, part(n)[n - 1])
    <3> DEFINE f == part(n)
    <3>1. CodedTo(f, n) /\ n \in 0 .. n
      BY <1>1
    <3> HIDE DEF f
    <3>2. f[n] = CodedAt(n, f[n - 1])
      BY <3>1 DEF CodedTo
    <3> QED BY <3>1, <3>2 DEF f
  <2>2. ASSUME n # 0 PROVE part(n)[n - 1] = part(n - 1)[n - 1]
    <3>1. n - 1 \in Nat /\ n - 1 <= n /\ n - 1 <= n - 1
      BY <2>2
    <3>2. CodedTo(part(n), n) /\ CodedTo(part(n - 1), n - 1)
      BY <1>1, <3>1
    <3> QED BY <3>1, <3>2, CodedSame
  <2>3. whole[n] = part(n)[n] /\ (n # 0 => whole[n - 1] = part(n - 1)[n - 1])
    OBVIOUS
  <2> HIDE DEF whole
  <2>4. CASE n # 0
    BY <2>1, <2>2, <2>3, <2>4
  <2>5. CASE n = 0
    BY <2>1, <2>3, <2>5, CodedLowest
  <2> QED BY <2>4, <2>5
<1>3. Solves(whole)
  <2>1. whole = [n \in Nat |-> whole[n]]
    OBVIOUS
  <2> HIDE DEF whole
  <2> QED BY <1>2, <2>1
<1>4. Solves(NodeCode)
  <2>1. NodeCode = CHOOSE f : Solves(f)
    BY DEF NodeCode, CodedAt
  <2> HIDE DEF Solves, whole
  <2> QED BY <1>3, <2>1
<1> QED BY <1>4

-----------------------------------------------------------------------------

LEMMA SeqGrows ==
  ASSUME NEW A, NEW B, A \subseteq B
  PROVE  Seq(A) \subseteq Seq(B)
<1> SUFFICES ASSUME NEW s \in Seq(A) PROVE s \in Seq(B)
  OBVIOUS
<1>1. Len(s) \in Nat /\ DOMAIN s = 1 .. Len(s) /\ s = [i \in 1 .. Len(s) |-> s[i]]
  OBVIOUS
<1>2. \A i \in 1 .. Len(s) : s[i] \in B
  BY <1>1
<1> QED BY <1>1, <1>2

LEMMA OverGrows ==
  ASSUME NEW A, NEW B, A \subseteq B
  PROVE  Over(A) \subseteq Over(B)
<1>1. [name: Names, sub: Seq(A)] \subseteq [name: Names, sub: Seq(B)] /\ Seq(A) \subseteq Seq(B)
  BY SeqGrows
<1>2. Seq([name: Names, sub: Seq(A)]) \subseteq Seq([name: Names, sub: Seq(B)])
  <2> DEFINE M == [name: Names, sub: Seq(A)]
             N == [name: Names, sub: Seq(B)]
  <2>1. M \subseteq N
    BY <1>1
  <2> HIDE DEF M, N
  <2>2. Seq(M) \subseteq Seq(N)
    BY <2>1, SeqGrows
  <2> QED BY <2>2 DEF M, N
<1> QED BY <1>1, <1>2 DEF Over

LEMMA Lowest ==
  /\ Nodes[0] = {r \in Over({}) : r.kind \in {"variable", "literal"}}
  /\ \A n \in Nodes[0] : n.sub = <<>> /\ Parsed(n) /\ n.kind # "block"
<1>1. Nodes[0] = {r \in Over({}) : r.kind \in {"variable", "literal"}}
  BY LevelsIs DEF LevelsAt
<1>2. \A s \in Seq({}) : s = <<>>
  OBVIOUS
<1> QED BY <1>1, <1>2 DEF Over, Parsed

LEMMA Higher ==
  ASSUME NEW d \in Nat, d # 0
  PROVE  Nodes[d] = {r \in Over(Nodes[d - 1]) : Parsed(r)}
BY LevelsIs DEF LevelsAt

LEMMA NodesGrow ==
  ASSUME NEW n \in Nat
  PROVE  \A m \in 0 .. n : Nodes[m] \subseteq Nodes[n]
<1> DEFINE Shown == {k \in Nat : Nodes[k] \subseteq Nodes[k + 1]}
<1>1. 0 \in Shown
  <2>1. Nodes[1] = {r \in Over(Nodes[0]) : Parsed(r)}
    BY Higher
  <2>2. Over({}) \subseteq Over(Nodes[0])
    BY OverGrows
  <2> QED BY <2>1, <2>2, Lowest
<1>2. ASSUME NEW k \in Nat, k \in Shown PROVE k + 1 \in Shown
  <2>1. Nodes[k] \subseteq Nodes[k + 1] /\ k + 1 # 0 /\ (k + 1) + 1 # 0 /\ (k + 1) - 1 = k /\ ((k + 1) + 1) - 1 = k + 1
    BY <1>2
  <2>2. Nodes[k + 1] = {r \in Over(Nodes[k]) : Parsed(r)}
    BY <2>1, Higher
  <2>3. Nodes[(k + 1) + 1] = {r \in Over(Nodes[k + 1]) : Parsed(r)}
    BY <2>1, Higher
  <2>4. Over(Nodes[k]) \subseteq Over(Nodes[k + 1])
    BY <2>1, OverGrows
  <2> QED BY <2>2, <2>3, <2>4
<1> HIDE DEF Shown
<1>3. \A k \in Nat : k \in Shown
  BY <1>1, <1>2, Upward
<1>4. \A k \in Nat : Nodes[k] \subseteq Nodes[k + 1]
  BY <1>3 DEF Shown
<1> DEFINE U == {k \in Nat : \A m \in 0 .. k : Nodes[m] \subseteq Nodes[k]}
<1>5. 0 \in U
  OBVIOUS
<1>6. ASSUME NEW k \in Nat, k \in U PROVE k + 1 \in U
  <2> SUFFICES ASSUME NEW m \in 0 .. k + 1 PROVE Nodes[m] \subseteq Nodes[k + 1]
    OBVIOUS
  <2>1. m = k + 1 \/ m \in 0 .. k
    OBVIOUS
  <2>2. m \in 0 .. k => Nodes[m] \subseteq Nodes[k]
    BY <1>6
  <2>3. Nodes[k] \subseteq Nodes[k + 1]
    BY <1>4
  <2> QED BY <2>1, <2>2, <2>3
<1> HIDE DEF U
<1>7. \A k \in Nat : k \in U
  BY <1>5, <1>6, Upward
<1> QED BY <1>7 DEF U

\* What a node is made of: messages are those of a cascade.
Message(below) == [name: Names, sub: Seq(below)]
Typed(n, below) ==
    /\ n = [kind |-> n.kind, name |-> n.name, value |-> n.value, sub |-> n.sub,
            cascades |-> n.cascades, loc |-> n.loc, gen |-> n.gen]
    /\ n.kind \in Kinds /\ n.name \in Names /\ n.value \in Int
    /\ n.sub \in Seq(below) /\ n.cascades \in Seq(Message(below)) /\ n.loc \in Nat /\ n.gen \in Gens

LEMMA OverIs ==
  ASSUME NEW below, NEW n
  PROVE  n \in Over(below) <=> Typed(n, below)
BY DEF Over, Typed, Message

LEMMA NodeIn ==
  ASSUME NEW d \in Nat, d # 0, NEW n
  PROVE  n \in Nodes[d] <=> Typed(n, Nodes[d - 1]) /\ Parsed(n)
BY Higher, OverIs

LEMMA LeafIn ==
  ASSUME NEW n
  PROVE  n \in Nodes[0] <=> Typed(n, {}) /\ n.kind \in {"variable", "literal"}
BY Lowest, OverIs

\* What encoding assigns to a node leaves the rest as it was.
Filling(n, sub, cascades, loc, gen) ==
    [n EXCEPT !.sub = sub, !.loc = loc, !.gen = gen, !.cascades = cascades]
LEMMA TypedSame ==
  ASSUME NEW n, NEW A, Typed(n, A), NEW B, NEW sub \in Seq(B), NEW cascades \in Seq(Message(B)),
         NEW loc \in Nat, NEW gen \in Gens
  PROVE  LET r == Filling(n, sub, cascades, loc, gen)
         IN  /\ Typed(r, B) /\ r.kind = n.kind /\ r.name = n.name /\ r.value = n.value
             /\ r.sub = sub /\ r.cascades = cascades /\ r.loc = loc /\ r.gen = gen
<1>1. PICK k, m, v, s, c, l, g :
        /\ n = [kind |-> k, name |-> m, value |-> v, sub |-> s, cascades |-> c, loc |-> l, gen |-> g]
        /\ k \in Kinds /\ m \in Names /\ v \in Int
  BY DEF Typed
<1> DEFINE a == [n EXCEPT !.sub = sub]
           b == [a EXCEPT !.loc = loc]
           q == [b EXCEPT !.gen = gen]
           r == [q EXCEPT !.cascades = cascades]
<1>2. a = [kind |-> k, name |-> m, value |-> v, sub |-> sub, cascades |-> c, loc |-> l, gen |-> g]
  BY <1>1
<1> HIDE DEF a
<1>3. b = [kind |-> k, name |-> m, value |-> v, sub |-> sub, cascades |-> c, loc |-> loc, gen |-> g]
  BY <1>2
<1> HIDE DEF b
<1>4. q = [kind |-> k, name |-> m, value |-> v, sub |-> sub, cascades |-> c, loc |-> loc, gen |-> gen]
  BY <1>3
<1> HIDE DEF q
<1>5. r = [kind |-> k, name |-> m, value |-> v, sub |-> sub, cascades |-> cascades, loc |-> loc, gen |-> gen]
  BY <1>4
<1> HIDE DEF r
<1>6. r = Filling(n, sub, cascades, loc, gen)
  BY DEF a, b, q, r, Filling
<1> QED BY <1>1, <1>5, <1>6 DEF Typed

Parting(n, sub, loc, gen) == [n EXCEPT !.sub = sub, !.loc = loc, !.gen = gen]
LEMMA TypedParts ==
  ASSUME NEW n, NEW A, Typed(n, A), NEW B, NEW sub \in Seq(B), n.cascades \in Seq(Message(B)),
         NEW loc \in Nat, NEW gen \in Gens
  PROVE  LET r == Parting(n, sub, loc, gen)
         IN  /\ Typed(r, B) /\ r.kind = n.kind /\ r.name = n.name /\ r.value = n.value
             /\ r.sub = sub /\ r.cascades = n.cascades /\ r.loc = loc /\ r.gen = gen
<1>1. PICK k, m, v, s, c, l, g :
        /\ n = [kind |-> k, name |-> m, value |-> v, sub |-> s, cascades |-> c, loc |-> l, gen |-> g]
        /\ k \in Kinds /\ m \in Names /\ v \in Int
  BY DEF Typed
<1> DEFINE a == [n EXCEPT !.sub = sub]
           b == [a EXCEPT !.loc = loc]
           r == [b EXCEPT !.gen = gen]
<1>2. a = [kind |-> k, name |-> m, value |-> v, sub |-> sub, cascades |-> c, loc |-> l, gen |-> g]
  BY <1>1
<1> HIDE DEF a
<1>3. b = [kind |-> k, name |-> m, value |-> v, sub |-> sub, cascades |-> c, loc |-> loc, gen |-> g]
  BY <1>2
<1> HIDE DEF b
<1>4. r = [kind |-> k, name |-> m, value |-> v, sub |-> sub, cascades |-> c, loc |-> loc, gen |-> gen]
  BY <1>3
<1> HIDE DEF r
<1>5. r = Parting(n, sub, loc, gen)
  BY DEF a, b, r, Parting
<1> QED BY <1>1, <1>4, <1>5 DEF Typed

Placing(n, loc, gen) == [n EXCEPT !.loc = loc, !.gen = gen]
LEMMA TypedPlace ==
  ASSUME NEW n, NEW A, Typed(n, A), NEW loc \in Nat, NEW gen \in Gens
  PROVE  LET r == Placing(n, loc, gen)
         IN  /\ Typed(r, A) /\ r.kind = n.kind /\ r.name = n.name /\ r.value = n.value
             /\ r.sub = n.sub /\ r.cascades = n.cascades /\ r.loc = loc /\ r.gen = gen
<1>1. PICK k, m, v, s, c, l, g :
        /\ n = [kind |-> k, name |-> m, value |-> v, sub |-> s, cascades |-> c, loc |-> l, gen |-> g]
        /\ k \in Kinds /\ m \in Names /\ v \in Int
  BY DEF Typed
<1> DEFINE a == [n EXCEPT !.loc = loc]
           r == [a EXCEPT !.gen = gen]
<1>2. a = [kind |-> k, name |-> m, value |-> v, sub |-> s, cascades |-> c, loc |-> loc, gen |-> g]
  BY <1>1
<1> HIDE DEF a
<1>3. r = [kind |-> k, name |-> m, value |-> v, sub |-> s, cascades |-> c, loc |-> loc, gen |-> gen]
  BY <1>2
<1> HIDE DEF r
<1>4. r = Placing(n, loc, gen)
  BY DEF a, r, Placing
<1> QED BY <1>1, <1>3, <1>4 DEF Typed

Changing(n, i, x) == [n EXCEPT !.sub[i] = x]
LEMMA TypedPart ==
  ASSUME NEW n, NEW A, Typed(n, A), NEW i \in 1 .. Len(n.sub), NEW x \in A
  PROVE  LET r == Changing(n, i, x)
         IN  /\ Typed(r, A) /\ r.kind = n.kind /\ r.name = n.name /\ r.value = n.value
             /\ Len(r.sub) = Len(n.sub) /\ r.cascades = n.cascades /\ r.loc = n.loc /\ r.gen = n.gen
             /\ \A j \in 1 .. Len(n.sub) : r.sub[j] = IF j = i THEN x ELSE n.sub[j]
<1>1. PICK k, m, v, s, c, l, g :
        /\ n = [kind |-> k, name |-> m, value |-> v, sub |-> s, cascades |-> c, loc |-> l, gen |-> g]
        /\ k \in Kinds /\ m \in Names /\ v \in Int
  BY DEF Typed
<1> DEFINE t == [s EXCEPT ![i] = x]
<1>2. Changing(n, i, x) =
        [kind |-> k, name |-> m, value |-> v, sub |-> t, cascades |-> c, loc |-> l, gen |-> g]
  BY <1>1 DEF Changing
<1>3. s \in Seq(A) /\ s = n.sub
  BY <1>1 DEF Typed
<1>4. t \in Seq(A) /\ Len(t) = Len(s) /\ \A j \in 1 .. Len(s) : t[j] = IF j = i THEN x ELSE s[j]
  BY <1>3, ExceptSeq
<1> HIDE DEF t
<1> DEFINE r == Changing(n, i, x)
<1>6. /\ r = [kind |-> k, name |-> m, value |-> v, sub |-> t, cascades |-> c, loc |-> l, gen |-> g]
      /\ r.kind = k /\ r.name = m /\ r.value = v /\ r.sub = t /\ r.cascades = c /\ r.loc = l /\ r.gen = g
  BY <1>2
<1>7. /\ n.kind = k /\ n.name = m /\ n.value = v /\ n.sub = s /\ n.cascades = c /\ n.loc = l /\ n.gen = g
  BY <1>1
<1> HIDE DEF r
<1>8. Typed(r, A)
  BY <1>1, <1>4, <1>6, <1>7 DEF Typed
<1> QED BY <1>3, <1>4, <1>6, <1>7, <1>8 DEF r

-----------------------------------------------------------------------------
(* What encoding does to the encoder besides the variables in use: those    *)
(* declared and the blocks that wait, all in D, only become more.           *)
Grown(e, f, D) ==
    /\ e \in Encoders /\ f \in Encoders
    /\ f.max >= e.max /\ f.level = e.level /\ f.units = e.units /\ f.errors = e.errors
    /\ \E more \in Seq(D) : f.blocks = e.blocks \o more

LEMMA EncoderIs ==
  ASSUME NEW e
  PROVE  e \in Encoders <=>
           /\ e = [count |-> e.count, max |-> e.max, level |-> e.level, blocks |-> e.blocks,
                   units |-> e.units, errors |-> e.errors]
           /\ e.count \in Nat /\ e.max \in Nat /\ e.level \in Nat /\ e.blocks \in Seq(AnyNode)
           /\ e.units \in Seq(Units) /\ e.errors \in SUBSET Faults
BY DEF Encoders

LEMMA GrownSame ==
  ASSUME NEW e \in Encoders, NEW D
  PROVE  Grown(e, e, D)
<1>1. e.blocks \in Seq(AnyNode) /\ e.max \in Nat
  BY EncoderIs
<1>2. <<>> \in Seq(D) /\ e.blocks = e.blocks \o <<>>
  BY <1>1
<1>3. \E more \in Seq(D) : e.blocks = e.blocks \o more
  BY <1>2
<1> QED BY <1>1, <1>3 DEF Grown

LEMMA GrownOn ==
  ASSUME NEW e, NEW f, NEW g, NEW D, D \subseteq AnyNode, Grown(e, f, D), Grown(f, g, D)
  PROVE  Grown(e, g, D)
<1>1. PICK a \in Seq(D) : f.blocks = e.blocks \o a
  BY DEF Grown
<1>2. PICK b \in Seq(D) : g.blocks = f.blocks \o b
  BY DEF Grown
<1>3. e.blocks \in Seq(AnyNode) /\ a \in Seq(AnyNode) /\ b \in Seq(AnyNode)
  BY EncoderIs, SeqGrows DEF Grown
<1>4. a \o b \in Seq(D) /\ g.blocks = e.blocks \o (a \o b)
  <2>1. a \o b \in Seq(D)
    BY ConcatProperties
  <2>2. (e.blocks \o a) \o b = e.blocks \o (a \o b)
    <3> DEFINE x == e.blocks
    <3>1. x \in Seq(AnyNode) /\ a \in Seq(AnyNode) /\ b \in Seq(AnyNode)
      BY <1>3
    <3> HIDE DEF x
    <3>2. (x \o a) \o b = x \o (a \o b)
      BY ONLY <3>1, ConcatAssociative
    <3> QED BY <3>2 DEF x
  <2> QED BY <1>1, <1>2, <2>1, <2>2
<1>5. e.max \in Nat /\ f.max \in Nat /\ g.max \in Nat
  BY EncoderIs DEF Grown
<1>6. \E more \in Seq(D) : g.blocks = e.blocks \o more
  BY <1>4
<1>7. /\ e \in Encoders /\ g \in Encoders /\ g.max >= e.max
      /\ g.level = e.level /\ g.units = e.units /\ g.errors = e.errors
  BY <1>5 DEF Grown
<1> QED BY <1>6, <1>7 DEF Grown

LEMMA GrownMore ==
  ASSUME NEW e, NEW f, NEW D, NEW E, Grown(e, f, D), D \subseteq E
  PROVE  Grown(e, f, E)
BY SeqGrows DEF Grown

LEMMA PushGrows ==
  ASSUME NEW e \in Encoders, NEW D
  PROVE  Grown(e, Push(e), D) /\ Push(e).count = e.count + 1 /\ Push(e).max >= e.count + 1
         /\ Push(e).blocks = e.blocks
<1> DEFINE high == IF e.count + 1 > e.max THEN e.count + 1 ELSE e.max
<1>1. PICK c \in Nat, m \in Nat, l \in Nat, b \in Seq(AnyNode), u \in Seq(Units), r \in SUBSET Faults :
        e = [count |-> c, max |-> m, level |-> l, blocks |-> b, units |-> u, errors |-> r]
  BY DEF Encoders
<1>2. high \in Nat /\ high >= m /\ high >= c + 1
  BY <1>1
<1>3. [e EXCEPT !.count = @ + 1] =
        [count |-> c + 1, max |-> m, level |-> l, blocks |-> b, units |-> u, errors |-> r]
  BY <1>1
<1> HIDE DEF high
<1>4. Push(e) = [[e EXCEPT !.count = @ + 1] EXCEPT !.max = high]
  BY <1>1 DEF Push, high
<1>5. Push(e) = [count |-> c + 1, max |-> high, level |-> l, blocks |-> b, units |-> u, errors |-> r]
  BY <1>3, <1>4
<1>6. Push(e) \in Encoders
  BY <1>2, <1>5 DEF Encoders
<1>7. <<>> \in Seq(D) /\ b = b \o <<>>
  OBVIOUS
<1>8. \E more \in Seq(D) : Push(e).blocks = e.blocks \o more
  <2>1. Push(e).blocks = b /\ e.blocks = b
    BY <1>1, <1>5
  <2> QED BY <2>1, <1>7
<1> DEFINE f == Push(e)
<1>9. /\ f.max = high /\ f.count = c + 1 /\ f.level = l /\ f.units = u /\ f.errors = r /\ f.blocks = b
      /\ e.max = m /\ e.count = c /\ e.level = l /\ e.units = u /\ e.errors = r /\ e.blocks = b
  BY <1>1, <1>5
<1> HIDE DEF f
<1>10. Grown(e, f, D)
  BY <1>2, <1>6, <1>8, <1>9 DEF Grown, f
<1> QED BY <1>2, <1>9, <1>10 DEF f

LEMMA PopGrows ==
  ASSUME NEW e \in Encoders, NEW D, NEW n \in Nat, n <= e.count
  PROVE  Grown(e, Pop(e, n), D) /\ Pop(e, n).count = e.count - n /\ Pop(e, n).max = e.max
<1>1. PICK c \in Nat, m \in Nat, l \in Nat, b \in Seq(AnyNode), u \in Seq(Units), r \in SUBSET Faults :
        e = [count |-> c, max |-> m, level |-> l, blocks |-> b, units |-> u, errors |-> r]
  BY DEF Encoders
<1>2. Pop(e, n) = [count |-> c - n, max |-> m, level |-> l, blocks |-> b, units |-> u, errors |-> r]
  BY <1>1 DEF Pop
<1>3. Pop(e, n) \in Encoders
  BY <1>1, <1>2 DEF Encoders
<1>4. <<>> \in Seq(D) /\ b = b \o <<>>
  OBVIOUS
<1>5. \E more \in Seq(D) : Pop(e, n).blocks = e.blocks \o more
  <2>1. Pop(e, n).blocks = b /\ e.blocks = b
    BY <1>1, <1>2
  <2> QED BY <2>1, <1>4
<1> DEFINE f == Pop(e, n)
<1>6. /\ f.max = m /\ f.count = c - n /\ f.level = l /\ f.units = u /\ f.errors = r
      /\ e.max = m /\ e.count = c /\ e.level = l /\ e.units = u /\ e.errors = r
  BY <1>1, <1>2
<1> HIDE DEF f
<1>7. Grown(e, f, D)
  <2>1. f \in Encoders /\ \E more \in Seq(D) : f.blocks = e.blocks \o more
    BY <1>3, <1>5 DEF f
  <2>2. f.max >= e.max
    BY <1>1, <1>6
  <2> QED BY <1>6, <2>1, <2>2 DEF Grown
<1> QED BY <1>6, <1>7 DEF f

-----------------------------------------------------------------------------
(* A piece of code: its variables are the first m, each label of L is at     *)
(* one place in it, no other is in it, and its jumps are to labels of J.     *)
IsCode(c) == \E X : c \in Seq(X)
Within(x, m) == x.loc \in 0 .. m /\ \A j \in DOMAIN x.locs : x.locs[j] \in 0 .. m
LabelAt(c, i, l) == c[i].op = "label" /\ c[i].arg = l
Piece(c, L, J, m) ==
    /\ IsCode(c)
    /\ \A i \in 1 .. Len(c) : /\ Within(c[i], m)
                              /\ c[i].op = "label" => c[i].arg \in L
                              /\ c[i].op = "jump"  => c[i].arg \in J
    /\ \A l \in L : \E i \in 1 .. Len(c) :
           LabelAt(c, i, l) /\ \A h \in 1 .. Len(c) : LabelAt(c, h, l) => h = i
\* Code whose labels are numbered from k + 1, and that jumps to these.
Tidy(x, k, m) ==
    /\ x.k \in Nat /\ x.k >= k
    /\ \E L \in SUBSET (k + 1 .. x.k) : Piece(x.c, L, L, m)

LEMMA CodeJoins ==
  ASSUME NEW a, NEW b, IsCode(a), IsCode(b)
  PROVE  /\ IsCode(a \o b) /\ Len(a) \in Nat /\ Len(b) \in Nat /\ Len(a \o b) = Len(a) + Len(b)
         /\ \A i \in 1 .. Len(a) + Len(b) : (a \o b)[i] = IF i <= Len(a) THEN a[i] ELSE b[i - Len(a)]
<1>1. PICK X : a \in Seq(X)
  BY DEF IsCode
<1>2. PICK Y : b \in Seq(Y)
  BY DEF IsCode
<1> DEFINE Z == X \cup Y
<1>3. X \subseteq Z /\ Y \subseteq Z
  OBVIOUS
<1> HIDE DEF Z
<1>4. a \in Seq(Z) /\ b \in Seq(Z)
  BY <1>1, <1>2, <1>3, SeqGrows
<1>5. a \o b \in Seq(Z)
  BY <1>4, ConcatProperties
<1> QED BY <1>4, <1>5, ConcatProperties DEF IsCode

LEMMA PieceJoins ==
  ASSUME NEW a, NEW b, NEW K, NEW L, NEW I, NEW J, NEW m,
         Piece(a, K, I, m), Piece(b, L, J, m), K \cap L = {}
  PROVE  Piece(a \o b, K \cup L, I \cup J, m)
<1> DEFINE c == a \o b
           p == Len(a)
           q == Len(b)
<1>1. /\ IsCode(c) /\ p \in Nat /\ q \in Nat /\ Len(c) = p + q
      /\ \A i \in 1 .. p + q : c[i] = IF i <= p THEN a[i] ELSE b[i - p]
  BY CodeJoins DEF Piece
<1> HIDE DEF c
<1>2. \A i \in 1 .. p : /\ Within(a[i], m) /\ (a[i].op = "label" => a[i].arg \in K)
                        /\ (a[i].op = "jump" => a[i].arg \in I)
  BY DEF Piece
<1>3. \A i \in 1 .. q : /\ Within(b[i], m) /\ (b[i].op = "label" => b[i].arg \in L)
                        /\ (b[i].op = "jump" => b[i].arg \in J)
  BY DEF Piece
<1>4. \A l \in K : \E i \in 1 .. p : LabelAt(a, i, l) /\ \A h \in 1 .. p : LabelAt(a, h, l) => h = i
  BY DEF Piece
<1>5. \A l \in L : \E i \in 1 .. q : LabelAt(b, i, l) /\ \A h \in 1 .. q : LabelAt(b, h, l) => h = i
  BY DEF Piece
<1> HIDE DEF p, q
<1>6. ASSUME NEW i \in 1 .. p + q
      PROVE  /\ Within(c[i], m) /\ (c[i].op = "label" => c[i].arg \in K \cup L)
             /\ (c[i].op = "jump" => c[i].arg \in I \cup J)
  <2>1. CASE i <= p
    <3>1. i \in 1 .. p /\ c[i] = a[i]
      BY <1>1, <2>1
    <3> QED BY <3>1, <1>2
  <2>2. CASE i > p
    <3>1. i - p \in 1 .. q /\ c[i] = b[i - p]
      BY <1>1, <2>2
    <3> QED BY <3>1, <1>3
  <2> QED BY <1>1, <2>1, <2>2
<1>7. ASSUME NEW l \in K \cup L
      PROVE  \E i \in 1 .. p + q : LabelAt(c, i, l) /\ \A h \in 1 .. p + q : LabelAt(c, h, l) => h = i
  <2>1. CASE l \in K
    <3>1. PICK i \in 1 .. p : LabelAt(a, i, l) /\ \A h \in 1 .. p : LabelAt(a, h, l) => h = i
      BY <1>4, <2>1
    <3>2. i \in 1 .. p + q /\ c[i] = a[i]
      BY <1>1, <3>1
    <3>3. ASSUME NEW h \in 1 .. p + q, LabelAt(c, h, l) PROVE h = i
      <4>1. CASE h <= p
        BY <1>1, <3>1, <3>3, <4>1 DEF LabelAt
      <4>2. CASE h > p
        <5>1. h - p \in 1 .. q /\ c[h] = b[h - p]
          BY <1>1, <4>2
        <5>2. b[h - p].arg \in L /\ b[h - p].arg = l
          BY <1>3, <5>1, <3>3 DEF LabelAt
        <5> QED BY <5>2, <2>1
      <4> QED BY <1>1, <4>1, <4>2
    <3>4. LabelAt(c, i, l)
      BY <3>1, <3>2 DEF LabelAt
    <3> QED BY <3>2, <3>3, <3>4
  <2>2. CASE l \in L
    <3>1. PICK j \in 1 .. q : LabelAt(b, j, l) /\ \A h \in 1 .. q : LabelAt(b, h, l) => h = j
      BY <1>5, <2>2
    <3>2. p + j \in 1 .. p + q /\ c[p + j] = b[j]
      BY <1>1, <3>1
    <3>3. ASSUME NEW h \in 1 .. p + q, LabelAt(c, h, l) PROVE h = p + j
      <4>1. CASE h <= p
        <5>1. h \in 1 .. p /\ c[h] = a[h]
          BY <1>1, <4>1
        <5>2. a[h].arg \in K /\ a[h].arg = l
          BY <1>2, <5>1, <3>3 DEF LabelAt
        <5> QED BY <5>2, <2>2
      <4>2. CASE h > p
        <5>1. h - p \in 1 .. q /\ c[h] = b[h - p]
          BY <1>1, <4>2
        <5>2. h - p = j
          BY <3>1, <3>3, <5>1 DEF LabelAt
        <5> QED BY <5>1, <5>2, <1>1, <3>1
      <4> QED BY <1>1, <4>1, <4>2
    <3>4. LabelAt(c, p + j, l)
      BY <3>1, <3>2 DEF LabelAt
    <3> QED BY <3>2, <3>3, <3>4
  <2> QED BY <2>1, <2>2
<1> QED BY <1>1, <1>6, <1>7 DEF Piece, c

LEMMA PieceWider ==
  ASSUME NEW c, NEW L, NEW J, NEW I, NEW m \in Nat, NEW n \in Nat, Piece(c, L, J, m), J \subseteq I, m <= n
  PROVE  Piece(c, L, I, n)
<1>1. \A x : Within(x, m) => Within(x, n)
  BY DEF Within
<1> QED BY <1>1 DEF Piece

LEMMA NoPiece == \A m : Piece(<<>>, {}, {}, m)
<1>1. <<>> \in Seq({}) /\ Len(<<>>) = 0
  OBVIOUS
<1> QED BY <1>1 DEF Piece, IsCode

LEMMA OnePiece ==
  ASSUME NEW x, NEW m, Within(x, m)
  PROVE  /\ x.op \notin {"label", "jump"} => Piece(<<x>>, {}, {}, m)
         /\ x.op = "label" => Piece(<<x>>, {x.arg}, {}, m)
         /\ x.op = "jump" => Piece(<<x>>, {}, {x.arg}, m)
<1> DEFINE c == <<x>>
<1>1. c \in Seq({x}) /\ Len(c) = 1 /\ c[1] = x /\ 1 .. 1 = {1}
  OBVIOUS
<1> HIDE DEF c
<1>2. IsCode(c)
  BY <1>1 DEF IsCode
<1>3. \A i \in 1 .. Len(c) : i = 1 /\ c[i] = x
  BY <1>1
<1>4. 1 \in 1 .. Len(c)
  BY <1>1
<1>5. x.op = "label" => LabelAt(c, 1, x.arg)
  BY <1>1 DEF LabelAt
<1> QED BY <1>2, <1>3, <1>4, <1>5 DEF Piece, c

-----------------------------------------------------------------------------
(* The code of parts one after the other: the labels of each are its own.   *)
AfterPart(gen, ns, i, r) ==
    [c |-> r.c \o gen[<<ns[i], r.k>>].c, each |-> Append(r.each, gen[<<ns[i], r.k>>].c),
     k |-> gen[<<ns[i], r.k>>].k]
Generates(t, n, gen, ns, s) ==
    t = [i \in 0 .. n |-> IF i = 0 THEN s ELSE AfterPart(gen, ns, i, t[i - 1])]
LEMMA GeneratesMade ==
  ASSUME NEW n \in Nat, NEW gen, NEW ns, NEW s
  PROVE  \E t : Generates(t, n, gen, ns, s)
<1> DEFINE Shown == {m \in Nat : \E t : Generates(t, m, gen, ns, s)}
<1>1. 0 \in Shown
  <2> DEFINE t == [i \in 0 .. 0 |-> s]
  <2>1. t = [i \in 0 .. 0 |-> IF i = 0 THEN s ELSE AfterPart(gen, ns, i, t[i - 1])]
    OBVIOUS
  <2>2. Generates(t, 0, gen, ns, s)
    BY <2>1 DEF Generates
  <2> QED BY <2>2
<1>2. ASSUME NEW m \in Nat, m \in Shown PROVE m + 1 \in Shown
  <2>1. PICK g : Generates(g, m, gen, ns, s)
    BY <1>2
  <2> DEFINE t == [i \in 0 .. m + 1 |-> IF i = m + 1 THEN AfterPart(gen, ns, m + 1, g[m]) ELSE g[i]]
  <2>2. t = [i \in 0 .. m + 1 |-> t[i]]
    OBVIOUS
  <2>3. t[m + 1] = AfterPart(gen, ns, m + 1, g[m]) /\ \A i \in 0 .. m : t[i] = g[i]
    OBVIOUS
  <2> HIDE DEF t
  <2>4. ASSUME NEW i \in 0 .. m + 1
        PROVE  t[i] = IF i = 0 THEN s ELSE AfterPart(gen, ns, i, t[i - 1])
    <3>1. CASE i = m + 1
      <4>1. m \in 0 .. m /\ i - 1 = m /\ i # 0
        BY <3>1
      <4> QED BY <2>3, <3>1, <4>1
    <3>2. CASE i # m + 1
      <4>1. i \in 0 .. m /\ (i # 0 => i - 1 \in 0 .. m)
        BY <3>2
      <4>2. g[i] = IF i = 0 THEN s ELSE AfterPart(gen, ns, i, g[i - 1])
        BY <2>1, <4>1 DEF Generates
      <4> QED BY <2>3, <4>1, <4>2
    <3> QED BY <3>1, <3>2
  <2>5. Generates(t, m + 1, gen, ns, s)
    BY <2>2, <2>4 DEF Generates
  <2> QED BY <2>5
<1> HIDE DEF Shown
<1>3. n \in Shown
  BY <1>1, <1>2, Upward
<1> QED BY <1>3 DEF Shown

LEMMA GeneratesFolds ==
  ASSUME NEW gen, NEW ns, NEW k, Len(ns) \in Nat
  PROVE  \E u : /\ GenAll(gen, ns, k) = u[Len(ns)] /\ u[0] = [c |-> <<>>, each |-> <<>>, k |-> k]
               /\ \A i \in 1 .. Len(ns) : u[i] = AfterPart(gen, ns, i, u[i - 1])
<1> DEFINE n == Len(ns)
           s == [c |-> <<>>, each |-> <<>>, k |-> k]
<1>1. n \in Nat
  OBVIOUS
<1>2. GenAll(gen, ns, k) = (CHOOSE t : Generates(t, n, gen, ns, s))[n]
  BY DEF GenAll, AfterPart, Generates
<1> HIDE DEF n, s
<1>3. PICK u : Generates(u, n, gen, ns, s) /\ GenAll(gen, ns, k) = u[n]
  BY <1>1, <1>2, GeneratesMade
<1>4. u[0] = s /\ \A i \in 1 .. n : u[i] = AfterPart(gen, ns, i, u[i - 1])
  <2>1. 0 \in 0 .. n /\ \A i \in 1 .. n : i \in 0 .. n /\ i # 0
    BY <1>1
  <2> QED BY <1>3, <2>1 DEF Generates
<1> QED BY <1>3, <1>4 DEF n, s

LEMMA CodeAppends ==
  ASSUME NEW a, IsCode(a), NEW x
  PROVE  /\ IsCode(Append(a, x)) /\ Len(a) \in Nat /\ Len(Append(a, x)) = Len(a) + 1
         /\ Append(a, x)[Len(a) + 1] = x /\ \A i \in 1 .. Len(a) : Append(a, x)[i] = a[i]
<1>1. PICK X : a \in Seq(X)
  BY DEF IsCode
<1> DEFINE Z == X \cup {x}
<1>2. X \subseteq Z /\ x \in Z
  OBVIOUS
<1> HIDE DEF Z
<1>3. a \in Seq(Z)
  BY <1>1, <1>2, SeqGrows
<1>4. Append(a, x) \in Seq(Z)
  BY <1>2, <1>3
<1> QED BY <1>2, <1>3, <1>4 DEF IsCode

\* The labels L of each of the codes cs are numbers after k up to l.
Apart(cs, n, k, l, m) ==
    \E L \in [1 .. n -> SUBSET (k + 1 .. l)] :
        /\ \A i \in 1 .. n : Piece(cs[i], L[i], L[i], m)
        /\ \A i, j \in 1 .. n : i # j => L[i] \cap L[j] = {}

LEMMA ApartMore ==
  ASSUME NEW cs, IsCode(cs), NEW n \in Nat, Len(cs) = n, NEW k \in Nat, NEW l \in Nat, NEW m,
         Apart(cs, n, k, l, m), NEW x, Tidy(x, l, m), k <= l
  PROVE  Apart(Append(cs, x.c), n + 1, k, x.k, m)
<1>1. PICK L \in [1 .. n -> SUBSET (k + 1 .. l)] :
        /\ \A i \in 1 .. n : Piece(cs[i], L[i], L[i], m)
        /\ \A i, j \in 1 .. n : i # j => L[i] \cap L[j] = {}
  BY DEF Apart
<1>2. PICK M \in SUBSET (l + 1 .. x.k) : Piece(x.c, M, M, m)
  BY DEF Tidy
<1>3. x.k \in Nat /\ x.k >= l
  BY DEF Tidy
<1> DEFINE d == Append(cs, x.c)
           N == [i \in 1 .. n + 1 |-> IF i = n + 1 THEN M ELSE L[i]]
<1>4. d[n + 1] = x.c /\ \A i \in 1 .. n : d[i] = cs[i]
  BY CodeAppends
<1>5. N[n + 1] = M /\ \A i \in 1 .. n : N[i] = L[i]
  OBVIOUS
<1>6. \A i \in 1 .. n + 1 : i = n + 1 \/ i \in 1 .. n
  OBVIOUS
<1>7. M \subseteq k + 1 .. x.k /\ k + 1 .. l \subseteq k + 1 .. x.k
  BY <1>3
<1>8. \A i \in 1 .. n : L[i] \subseteq k + 1 .. l /\ L[i] \cap M = {}
  BY <1>3
<1>9. N \in [1 .. n + 1 -> SUBSET (k + 1 .. x.k)]
  BY <1>6, <1>7, <1>8
<1> HIDE DEF N, d
<1>10. \A i \in 1 .. n + 1 : Piece(d[i], N[i], N[i], m)
  BY <1>1, <1>2, <1>4, <1>5, <1>6
<1>11. \A i, j \in 1 .. n + 1 : i # j => N[i] \cap N[j] = {}
  BY <1>1, <1>5, <1>6, <1>8
<1> QED BY <1>9, <1>10, <1>11 DEF Apart, d

LEMMA TidyJoins ==
  ASSUME NEW r, NEW x, NEW k \in Nat, NEW m, Tidy(r, k, m), Tidy(x, r.k, m)
  PROVE  /\ x.k \in Nat /\ x.k >= k /\ IsCode(r.c \o x.c)
         /\ \E L \in SUBSET (k + 1 .. x.k) : Piece(r.c \o x.c, L, L, m)
<1>1. PICK L \in SUBSET (k + 1 .. r.k) : Piece(r.c, L, L, m)
  BY DEF Tidy
<1>2. PICK M \in SUBSET (r.k + 1 .. x.k) : Piece(x.c, M, M, m)
  BY DEF Tidy
<1>3. x.k \in Nat /\ x.k >= r.k /\ r.k \in Nat /\ r.k >= k
  BY DEF Tidy
<1>4. L \cap M = {} /\ L \cup M \in SUBSET (k + 1 .. x.k) /\ x.k >= k
  BY <1>3
<1>5. Piece(r.c \o x.c, L \cup M, L \cup M, m)
  BY <1>1, <1>2, <1>4, PieceJoins
<1> QED BY <1>3, <1>4, <1>5 DEF Piece

LEMMA GenAllIs ==
  ASSUME NEW gen, NEW ns, Len(ns) \in Nat, NEW k \in Nat, NEW m \in Nat,
         \A i \in 1 .. Len(ns) : \A h \in Nat : Tidy(gen[<<ns[i], h>>], h, m)
  PROVE  LET g == GenAll(gen, ns, k)
         IN  Tidy(g, k, m) /\ Apart(g.each, Len(ns), k, g.k, m)
<1> DEFINE n == Len(ns)
           Fit(r, i) == /\ IsCode(r.each) /\ Len(r.each) = i
                        /\ Tidy(r, k, m) /\ Apart(r.each, i, k, r.k, m)
           start == [c |-> <<>>, each |-> <<>>, k |-> k]
<1>1. PICK u : /\ GenAll(gen, ns, k) = u[n] /\ u[0] = start
               /\ \A i \in 1 .. n : u[i] = AfterPart(gen, ns, i, u[i - 1])
  BY GeneratesFolds
<1>2. n \in Nat /\ \A i \in 1 .. n : \A h \in Nat : Tidy(gen[<<ns[i], h>>], h, m)
  OBVIOUS
<1> HIDE DEF n
<1>3. Fit(start, 0)
  <2>1. start.each = <<>> /\ Len(start.each) = 0 /\ start.k = k /\ start.c = <<>> /\ <<>> \in Seq({})
    OBVIOUS
  <2> HIDE DEF start
  <2>2. Tidy(start, k, m)
    <3>1. Piece(start.c, {}, {}, m)
      BY <2>1, NoPiece
    <3>2. {} \in SUBSET (k + 1 .. start.k) /\ start.k \in Nat /\ start.k >= k
      BY <2>1
    <3> QED BY <3>1, <3>2 DEF Tidy
  <2>3. Apart(start.each, 0, k, start.k, m)
    <3> DEFINE L == [i \in 1 .. 0 |-> {}]
    <3>1. L \in [1 .. 0 -> SUBSET (k + 1 .. k)] /\ 1 .. 0 = {}
      OBVIOUS
    <3> HIDE DEF L
    <3>2. /\ \A i \in 1 .. 0 : Piece(start.each[i], L[i], L[i], m)
          /\ \A i, j \in 1 .. 0 : i # j => L[i] \cap L[j] = {}
      BY <3>1
    <3> QED BY <2>1, <3>1, <3>2 DEF Apart
  <2>4. IsCode(start.each)
    BY <2>1 DEF IsCode
  <2> QED BY <2>1, <2>2, <2>3, <2>4
<1>4. ASSUME NEW i \in 1 .. n, NEW r, Fit(r, i - 1) PROVE Fit(AfterPart(gen, ns, i, r), i)
  <2>1. i - 1 \in Nat /\ (i - 1) + 1 = i
    BY <1>2
  <2>2. IsCode(r.each) /\ Len(r.each) = i - 1 /\ Tidy(r, k, m) /\ Apart(r.each, i - 1, k, r.k, m)
    BY <1>4
  <2>3. r.k \in Nat /\ r.k >= k
    BY <2>2 DEF Tidy
  <2> DEFINE x == gen[<<ns[i], r.k>>]
             z == AfterPart(gen, ns, i, r)
  <2>4. Tidy(x, r.k, m)
    BY <1>2, <2>3
  <2>5. z.c = r.c \o x.c /\ z.each = Append(r.each, x.c) /\ z.k = x.k
    BY DEF AfterPart
  <2> HIDE DEF x, z
  <2>6. Apart(Append(r.each, x.c), (i - 1) + 1, k, x.k, m)
    BY <2>1, <2>2, <2>3, <2>4, ApartMore
  <2>7. Tidy(z, k, m)
    BY <2>2, <2>4, <2>5, TidyJoins DEF Tidy
  <2>8. IsCode(z.each) /\ Len(z.each) = (i - 1) + 1
    BY <2>2, <2>5, CodeAppends
  <2>9. Apart(z.each, i, k, z.k, m)
    BY <2>1, <2>5, <2>6
  <2> QED BY <2>1, <2>7, <2>8, <2>9 DEF z
<1> HIDE DEF Fit, start
<1>5. \A i \in 1 .. n : Fit(u[i - 1], i - 1) => Fit(u[i], i)
  BY <1>1, <1>4
<1> DEFINE Good == {i \in 0 .. n : Fit(u[i], i)}
<1>6. 0 \in Good
  BY <1>1, <1>2, <1>3
<1>7. \A i \in 1 .. n : i - 1 \in Good => i \in Good
  BY <1>2, <1>5
<1> HIDE DEF Good
<1>8. n \in Good
  BY <1>2, <1>6, <1>7, UpTo
<1>9. Fit(u[n], n)
  BY <1>8 DEF Good
<1> QED BY <1>1, <1>9 DEF Fit, n

-----------------------------------------------------------------------------
\* The code of a node of d levels needs the first m variables at most.
Fine(d, n, m) == \A k \in Nat : Tidy(NodeCode[d][<<n, k>>], k, m)

LEMMA TidyWider ==
  ASSUME NEW x, NEW k, NEW m \in Nat, NEW o \in Nat, m <= o, Tidy(x, k, m)
  PROVE  Tidy(x, k, o)
BY PieceWider DEF Tidy

LEMMA FineWider ==
  ASSUME NEW d, NEW n, NEW m \in Nat, NEW o \in Nat, m <= o, Fine(d, n, m)
  PROVE  Fine(d, n, o)
BY TidyWider DEF Fine

LEMMA InstrWith ==
  ASSUME NEW op, NEW loc, NEW arg, NEW locs, NEW flag, NEW check, NEW l, NEW f, NEW c
  PROVE  LET a == [op |-> op, loc |-> loc, arg |-> arg, locs |-> locs, flag |-> flag, check |-> check]
         IN  /\ [a EXCEPT !.locs = l] =
                [op |-> op, loc |-> loc, arg |-> arg, locs |-> l, flag |-> flag, check |-> check]
             /\ [a EXCEPT !.flag = f] =
                [op |-> op, loc |-> loc, arg |-> arg, locs |-> locs, flag |-> f, check |-> check]
             /\ [a EXCEPT !.check = c] =
                [op |-> op, loc |-> loc, arg |-> arg, locs |-> locs, flag |-> flag, check |-> c]
OBVIOUS

LEMMA InstrIs ==
  ASSUME NEW op, NEW loc, NEW arg, NEW locs, NEW flag, NEW check
  PROVE  /\ LET x == Instr(op, loc, arg) IN x.op = op /\ x.loc = loc /\ x.arg = arg /\ x.locs = <<>>
         /\ LET x == [Instr(op, loc, arg) EXCEPT !.flag = flag]
            IN  x.op = op /\ x.loc = loc /\ x.arg = arg /\ x.locs = <<>>
         /\ LET x == [Instr(op, loc, arg) EXCEPT !.locs = locs, !.flag = flag]
            IN  x.op = op /\ x.loc = loc /\ x.arg = arg /\ x.locs = locs
         /\ LET x == [Instr(op, loc, arg) EXCEPT !.locs = locs, !.flag = flag, !.check = check]
            IN  x.op = op /\ x.loc = loc /\ x.arg = arg /\ x.locs = locs
<1>1. PICK e, t, z : Instr(op, loc, arg) =
        [op |-> op, loc |-> loc, arg |-> arg, locs |-> e, flag |-> t, check |-> z] /\ e = <<>>
  BY DEF Instr
<1> DEFINE a == [op |-> op, loc |-> loc, arg |-> arg, locs |-> e, flag |-> t, check |-> z]
           b == [a EXCEPT !.locs = locs]
           c == [b EXCEPT !.flag = flag]
           d == [c EXCEPT !.check = check]
<1>2. b = [op |-> op, loc |-> loc, arg |-> arg, locs |-> locs, flag |-> t, check |-> z]
  BY InstrWith
<1>3. [a EXCEPT !.flag = flag] = [op |-> op, loc |-> loc, arg |-> arg, locs |-> e, flag |-> flag, check |-> z]
  BY InstrWith
<1> HIDE DEF b
<1>4. c = [op |-> op, loc |-> loc, arg |-> arg, locs |-> locs, flag |-> flag, check |-> z]
  BY <1>2, InstrWith
<1> HIDE DEF c
<1>5. d = [op |-> op, loc |-> loc, arg |-> arg, locs |-> locs, flag |-> flag, check |-> check]
  BY <1>4, InstrWith
<1> HIDE DEF d
<1>6. /\ Instr(op, loc, arg) = a
      /\ [Instr(op, loc, arg) EXCEPT !.locs = locs, !.flag = flag] = c
      /\ [Instr(op, loc, arg) EXCEPT !.locs = locs, !.flag = flag, !.check = check] = d
  BY <1>1 DEF b, c, d
<1> HIDE DEF a
<1>7. a.op = op /\ a.loc = loc /\ a.arg = arg /\ a.locs = <<>>
  BY <1>1 DEF a
<1> QED BY <1>3, <1>4, <1>5, <1>6, <1>7 DEF a

LEMMA NoLocs ==
  ASSUME NEW x, NEW m \in Nat, x.loc \in 0 .. m, x.locs = <<>>
  PROVE  Within(x, m)
<1>1. DOMAIN <<>> = {}
  OBVIOUS
<1> QED BY <1>1 DEF Within

LEMMA LeafTidy ==
  ASSUME NEW n, NEW k \in Nat, NEW m \in Nat, n.loc \in 0 .. m
  PROVE  Tidy([c |-> GenLeaf(n), k |-> k], k, m)
<1>1. PICK x : /\ x.op \in {"read", "load"} /\ x.loc = n.loc /\ x.locs = <<>> /\ GenLeaf(n) = <<x>>
  BY InstrIs DEF GenLeaf
<1>2. Within(x, m)
  BY <1>1, NoLocs
<1>3. Piece(GenLeaf(n), {}, {}, m)
  BY <1>1, <1>2, OnePiece
<1> DEFINE r == [c |-> GenLeaf(n), k |-> k]
<1>4. r.c = GenLeaf(n) /\ r.k = k /\ {} \in SUBSET (k + 1 .. k)
  OBVIOUS
<1> HIDE DEF r
<1>5. Tidy(r, k, m)
  BY <1>3, <1>4 DEF Tidy
<1> QED BY <1>5 DEF r

LEMMA SendTidy ==
  ASSUME NEW rcv, NEW sel, NEW args, NEW last, NEW m \in Nat, rcv \in 0 .. m,
         \A i \in DOMAIN args : args[i].loc \in 0 .. m
  PROVE  Piece(GenSend(rcv, sel, args, last), {}, {}, m)
<1> DEFINE locs == [i \in DOMAIN args |-> args[i].loc]
           x == [Instr("send", rcv, sel) EXCEPT !.locs = locs, !.flag = last]
<1>1. DOMAIN locs = DOMAIN args /\ \A i \in DOMAIN args : locs[i] \in 0 .. m
  OBVIOUS
<1> HIDE DEF locs
<1>2. x.op = "send" /\ x.loc = rcv /\ x.locs = locs
  BY InstrIs
<1> HIDE DEF x
<1>3. Within(x, m)
  BY <1>1, <1>2 DEF Within
<1>4. Piece(<<x>>, {}, {}, m)
  BY <1>2, <1>3, OnePiece
<1> QED BY <1>4 DEF GenSend, x, locs

-----------------------------------------------------------------------------
(* The code of a send and of the cascades that follow it.                   *)
AfterMessage(gen, n, i, r) ==
    LET x == GenAll(gen, n.cascades[i].sub, r.k)
    IN  [c |-> r.c \o x.c \o GenSend(n.sub[1].loc, n.cascades[i].name, n.cascades[i].sub, i = Len(n.cascades)),
         k |-> x.k]
FirstMessage(gen, n, k) ==
    [c |-> GenAll(gen, n.sub, k).c \o GenSend(n.sub[1].loc, n.name, Tail(n.sub), n.cascades = <<>>),
     k |-> GenAll(gen, n.sub, k).k]
Follows(t, l, gen, n, s) ==
    t = [i \in 0 .. l |-> IF i = 0 THEN s ELSE AfterMessage(gen, n, i, t[i - 1])]
LEMMA FollowsMade ==
  ASSUME NEW l \in Nat, NEW gen, NEW n, NEW s
  PROVE  \E t : Follows(t, l, gen, n, s)
<1> DEFINE Shown == {m \in Nat : \E t : Follows(t, m, gen, n, s)}
<1>1. 0 \in Shown
  <2> DEFINE t == [i \in 0 .. 0 |-> s]
  <2>1. t = [i \in 0 .. 0 |-> IF i = 0 THEN s ELSE AfterMessage(gen, n, i, t[i - 1])]
    OBVIOUS
  <2>2. Follows(t, 0, gen, n, s)
    BY <2>1 DEF Follows
  <2> QED BY <2>2
<1>2. ASSUME NEW m \in Nat, m \in Shown PROVE m + 1 \in Shown
  <2>1. PICK g : Follows(g, m, gen, n, s)
    BY <1>2
  <2> DEFINE t == [i \in 0 .. m + 1 |-> IF i = m + 1 THEN AfterMessage(gen, n, m + 1, g[m]) ELSE g[i]]
  <2>2. t = [i \in 0 .. m + 1 |-> t[i]]
    OBVIOUS
  <2>3. t[m + 1] = AfterMessage(gen, n, m + 1, g[m]) /\ \A i \in 0 .. m : t[i] = g[i]
    OBVIOUS
  <2> HIDE DEF t
  <2>4. ASSUME NEW i \in 0 .. m + 1
        PROVE  t[i] = IF i = 0 THEN s ELSE AfterMessage(gen, n, i, t[i - 1])
    <3>1. CASE i = m + 1
      <4>1. m \in 0 .. m /\ i - 1 = m /\ i # 0
        BY <3>1
      <4> QED BY <2>3, <3>1, <4>1
    <3>2. CASE i # m + 1
      <4>1. i \in 0 .. m /\ (i # 0 => i - 1 \in 0 .. m)
        BY <3>2
      <4>2. g[i] = IF i = 0 THEN s ELSE AfterMessage(gen, n, i, g[i - 1])
        BY <2>1, <4>1 DEF Follows
      <4> QED BY <2>3, <4>1, <4>2
    <3> QED BY <3>1, <3>2
  <2>5. Follows(t, m + 1, gen, n, s)
    BY <2>2, <2>4 DEF Follows
  <2> QED BY <2>5
<1> HIDE DEF Shown
<1>3. l \in Shown
  BY <1>1, <1>2, Upward
<1> QED BY <1>3 DEF Shown

LEMMA FollowsFolds ==
  ASSUME NEW gen, NEW n, NEW k, Len(n.cascades) \in Nat
  PROVE  \E u : /\ GenSent(gen, n, k) = u[Len(n.cascades)] /\ u[0] = FirstMessage(gen, n, k)
               /\ \A i \in 1 .. Len(n.cascades) : u[i] = AfterMessage(gen, n, i, u[i - 1])
<1> DEFINE l == Len(n.cascades)
           s == FirstMessage(gen, n, k)
<1>1. l \in Nat
  OBVIOUS
<1>2. GenSent(gen, n, k) = (CHOOSE t : Follows(t, l, gen, n, s))[l]
  BY DEF GenSent, AfterMessage, FirstMessage, Follows
<1> HIDE DEF l, s
<1>3. PICK u : Follows(u, l, gen, n, s) /\ GenSent(gen, n, k) = u[l]
  BY <1>1, <1>2, FollowsMade
<1>4. u[0] = s /\ \A i \in 1 .. l : u[i] = AfterMessage(gen, n, i, u[i - 1])
  <2>1. 0 \in 0 .. l /\ \A i \in 1 .. l : i \in 0 .. l /\ i # 0
    BY <1>1
  <2> QED BY <1>3, <2>1 DEF Follows
<1> QED BY <1>3, <1>4 DEF l, s

LEMMA TailIs ==
  ASSUME NEW s, IsCode(s), s # <<>>
  PROVE  /\ Len(s) \in Nat /\ Len(s) >= 1
         /\ \A i \in DOMAIN Tail(s) : i + 1 \in 1 .. Len(s) /\ Tail(s)[i] = s[i + 1]
BY DEF IsCode

LEMMA SentTidy ==
  ASSUME NEW gen, NEW n, NEW k \in Nat, NEW m \in Nat, IsCode(n.sub), n.sub # <<>>, IsCode(n.cascades),
         \A i \in 1 .. Len(n.sub) :
            n.sub[i].loc \in 0 .. m /\ \A h \in Nat : Tidy(gen[<<n.sub[i], h>>], h, m),
         \A j \in 1 .. Len(n.cascades) : IsCode(n.cascades[j].sub) /\ \A i \in 1 .. Len(n.cascades[j].sub) :
            /\ n.cascades[j].sub[i].loc \in 0 .. m
            /\ \A h \in Nat : Tidy(gen[<<n.cascades[j].sub[i], h>>], h, m)
  PROVE  Tidy(GenSent(gen, n, k), k, m)
<1> DEFINE l == Len(n.cascades)
           rcv == n.sub[1].loc
           first == FirstMessage(gen, n, k)
<1>1. Len(n.sub) \in Nat /\ l \in Nat /\ Len(n.sub) >= 1 /\ 1 \in 1 .. Len(n.sub) /\ rcv \in 0 .. m
  BY TailIs DEF IsCode
<1>2. PICK u : /\ GenSent(gen, n, k) = u[l] /\ u[0] = first
               /\ \A i \in 1 .. l : u[i] = AfterMessage(gen, n, i, u[i - 1])
  BY <1>1, FollowsFolds
<1>3. Tidy(first, k, m)
  <2> DEFINE g == GenAll(gen, n.sub, k)
             c == GenSend(rcv, n.name, Tail(n.sub), n.cascades = <<>>)
  <2>1. Tidy(g, k, m)
    BY <1>1, GenAllIs
  <2>2. \A i \in DOMAIN Tail(n.sub) : Tail(n.sub)[i].loc \in 0 .. m
    BY TailIs
  <2>3. Piece(c, {}, {}, m)
    BY <1>1, <2>2, SendTidy
  <2>4. first.c = g.c \o c /\ first.k = g.k
    BY DEF FirstMessage
  <2> HIDE DEF g, c, first
  <2>5. PICK L \in SUBSET (k + 1 .. g.k) : Piece(g.c, L, L, m)
    BY <2>1 DEF Tidy
  <2>6. Piece(g.c \o c, L \cup {}, L \cup {}, m)
    BY <2>3, <2>5, PieceJoins
  <2>7. L \cup {} = L
    OBVIOUS
  <2> QED BY <2>1, <2>4, <2>5, <2>6, <2>7 DEF Tidy
<1>4. ASSUME NEW i \in 1 .. l, NEW r, Tidy(r, k, m) PROVE Tidy(AfterMessage(gen, n, i, r), k, m)
  <2> DEFINE s == n.cascades[i].sub
             x == GenAll(gen, s, r.k)
             c == GenSend(rcv, n.cascades[i].name, s, i = l)
             z == AfterMessage(gen, n, i, r)
  <2>1. r.k \in Nat
    BY <1>4 DEF Tidy
  <2>2. IsCode(s) /\ \A j \in 1 .. Len(s) : s[j].loc \in 0 .. m /\ \A h \in Nat : Tidy(gen[<<s[j], h>>], h, m)
    OBVIOUS
  <2>3. Len(s) \in Nat /\ DOMAIN s = 1 .. Len(s)
    BY <2>2 DEF IsCode
  <2>4. z.c = (r.c \o x.c) \o c /\ z.k = x.k
    BY DEF AfterMessage
  <2>5. Tidy(x, r.k, m)
    BY <2>1, <2>2, <2>3, GenAllIs
  <2>6. Piece(c, {}, {}, m)
    BY <1>1, <2>2, <2>3, SendTidy
  <2> HIDE DEF s, x, c, z
  <2>7. PICK L \in SUBSET (k + 1 .. x.k) : Piece(r.c \o x.c, L, L, m)
    BY <1>4, <2>5, TidyJoins
  <2>8. Piece((r.c \o x.c) \o c, L \cup {}, L \cup {}, m)
    BY <2>6, <2>7, PieceJoins
  <2>9. L \cup {} = L /\ x.k \in Nat /\ x.k >= k
    BY <1>4, <2>5, TidyJoins
  <2>10. Tidy(z, k, m)
    BY <2>4, <2>7, <2>8, <2>9 DEF Tidy
  <2> QED BY <2>10 DEF z
<1> HIDE DEF first, l
<1> DEFINE Good == {i \in 0 .. l : Tidy(u[i], k, m)}
<1>5. 0 \in Good
  BY <1>1, <1>2, <1>3
<1>6. \A i \in 1 .. l : i - 1 \in Good => i \in Good
  BY <1>1, <1>2, <1>4
<1> HIDE DEF Good
<1>7. l \in Good
  BY <1>1, <1>5, <1>6, UpTo
<1> QED BY <1>2, <1>7 DEF Good

-----------------------------------------------------------------------------
(* The code of each form, from the pieces it is made of.                    *)
LabelOf(i) == <<Instr("label", 0, i)>>
JumpTo(i)  == <<Instr("jump", 0, i)>>
TestTo(rcv, sense, i) == <<[Instr("jump", rcv, i) EXCEPT !.flag = sense]>>
NilIn(loc) == <<Instr("load", loc, <<"nil">>)>>
TwoOf(n, op, check) ==
    <<[Instr(op, n.loc, n.name) EXCEPT !.locs = <<n.sub[1].loc, n.sub[2].loc>>,
                                       !.flag = (n.name \in OnTrue), !.check = check]>>

LEMMA PiecesOfForms ==
  ASSUME NEW m \in Nat
  PROVE  /\ \A i : Piece(LabelOf(i), {i}, {}, m) /\ Piece(JumpTo(i), {}, {i}, m)
         /\ \A rcv \in 0 .. m : \A sense, i : Piece(TestTo(rcv, sense, i), {}, {i}, m)
         /\ \A loc \in 0 .. m : Piece(NilIn(loc), {}, {}, m)
         /\ \A loc \in 0 .. m : \A op, arg : op \notin {"label", "jump"} =>
                Piece(<<Instr(op, loc, arg)>>, {}, {}, m)
         /\ \A n, op, check : /\ n.loc \in 0 .. m /\ n.sub[1].loc \in 0 .. m /\ n.sub[2].loc \in 0 .. m
                              /\ op \notin {"label", "jump"}
                              => Piece(TwoOf(n, op, check), {}, {}, m)
<1>1. ASSUME NEW i PROVE Piece(LabelOf(i), {i}, {}, m) /\ Piece(JumpTo(i), {}, {i}, m)
  <2> DEFINE x == Instr("label", 0, i)
             y == Instr("jump", 0, i)
  <2>1. x.op = "label" /\ x.loc = 0 /\ x.locs = <<>> /\ x.arg = i
    BY InstrIs
  <2>2. y.op = "jump" /\ y.loc = 0 /\ y.locs = <<>> /\ y.arg = i
    BY InstrIs
  <2> HIDE DEF x, y
  <2>3. Within(x, m) /\ Within(y, m)
    BY <2>1, <2>2, NoLocs
  <2>4. Piece(<<x>>, {i}, {}, m) /\ Piece(<<y>>, {}, {i}, m)
    BY <2>1, <2>2, <2>3, OnePiece
  <2> QED BY <2>4 DEF LabelOf, JumpTo, x, y
<1>2. ASSUME NEW rcv \in 0 .. m, NEW sense, NEW i PROVE Piece(TestTo(rcv, sense, i), {}, {i}, m)
  <2> DEFINE x == [Instr("jump", rcv, i) EXCEPT !.flag = sense]
  <2>1. x.op = "jump" /\ x.loc = rcv /\ x.locs = <<>> /\ x.arg = i
    BY InstrIs
  <2> HIDE DEF x
  <2>2. Within(x, m)
    BY <2>1, NoLocs
  <2>3. Piece(<<x>>, {}, {i}, m)
    BY <2>1, <2>2, OnePiece
  <2> QED BY <2>3 DEF TestTo, x
<1>3. ASSUME NEW loc \in 0 .. m, NEW op, NEW arg, op \notin {"label", "jump"}
      PROVE  Piece(<<Instr(op, loc, arg)>>, {}, {}, m)
  <2> DEFINE x == Instr(op, loc, arg)
  <2>1. x.op = op /\ x.loc = loc /\ x.locs = <<>>
    BY InstrIs
  <2> HIDE DEF x
  <2>2. Within(x, m)
    BY <2>1, NoLocs
  <2>3. Piece(<<x>>, {}, {}, m)
    BY <1>3, <2>1, <2>2, OnePiece
  <2> QED BY <2>3 DEF x
<1>4. \A loc \in 0 .. m : Piece(NilIn(loc), {}, {}, m)
  <2>1. "load" \notin {"label", "jump"}
    OBVIOUS
  <2> QED BY <1>3, <2>1 DEF NilIn
<1>5. ASSUME NEW n, NEW op, NEW check, n.loc \in 0 .. m, n.sub[1].loc \in 0 .. m, n.sub[2].loc \in 0 .. m,
             op \notin {"label", "jump"}
      PROVE  Piece(TwoOf(n, op, check), {}, {}, m)
  <2> DEFINE locs == <<n.sub[1].loc, n.sub[2].loc>>
             on == n.name \in OnTrue
             x == [Instr(op, n.loc, n.name) EXCEPT !.locs = locs, !.flag = on, !.check = check]
  <2>1. DOMAIN locs = {1, 2} /\ locs[1] \in 0 .. m /\ locs[2] \in 0 .. m
    BY <1>5
  <2> HIDE DEF locs, on
  <2>2. x.op = op /\ x.loc = n.loc /\ x.locs = locs
    BY InstrIs
  <2> HIDE DEF x
  <2>3. Within(x, m)
    BY <1>5, <2>1, <2>2 DEF Within
  <2>4. Piece(<<x>>, {}, {}, m)
    BY <1>5, <2>2, <2>3, OnePiece
  <2> QED BY <2>4 DEF TwoOf, x, locs, on
<1> QED BY <1>1, <1>2, <1>3, <1>4, <1>5

\* Code that goes on from other code without a label or a jump.
GoesOn(all, c, m) == \E more : c = all \o more /\ Piece(more, {}, {}, m)
LEMMA Simply ==
  ASSUME NEW n, NEW each, NEW all, NEW k,
         n.gen \in {"assign", "return", "nonlocal", "identity", "tagged"},
         NEW m \in Nat, n.loc \in 0 .. m, n.sub[1].loc \in 0 .. m,
         n.gen \in {"identity", "tagged"} => n.sub[2].loc \in 0 .. m
  PROVE  GoesOn(all, GenForm(n, each, all, k), m)
<1> DEFINE form == GenForm(n, each, all, k)
           rcv == n.sub[1].loc
           two(op, check) == TwoOf(n, op, check)
<1>1. CASE n.gen = "assign"
  <2> DEFINE c == <<Instr("write", n.loc, n.name)>>
  <2>1. form = all \o c
    BY <1>1 DEF GenForm
  <2>2. Piece(c, {}, {}, m)
    <3>1. "write" \notin {"label", "jump"}
      OBVIOUS
    <3> QED BY <3>1, PiecesOfForms
  <2> HIDE DEF form, c
  <2> QED BY <2>1, <2>2 DEF form, GoesOn
<1>2. CASE n.gen \in {"return", "nonlocal"}
  <2>1. PICK a : form = all \o <<Instr("return", rcv, a)>>
    BY <1>2 DEF GenForm
  <2> DEFINE c == <<Instr("return", rcv, a)>>
  <2>2. Piece(c, {}, {}, m)
    <3>1. "return" \notin {"label", "jump"} /\ rcv \in 0 .. m
      OBVIOUS
    <3> QED BY <3>1, PiecesOfForms
  <2>3. form = all \o c
    BY <2>1
  <2> HIDE DEF form, c
  <2> QED BY <2>3, <2>2 DEF form, GoesOn
<1>3. CASE n.gen = "identity"
  <2> DEFINE c == TwoOf(n, "compare", {})
  <2>1. form = all \o c
    BY <1>3 DEF GenForm, TwoOf
  <2>2. Piece(c, {}, {}, m)
    <3>1. "compare" \notin {"label", "jump"} /\ n.sub[2].loc \in 0 .. m
      BY <1>3
    <3> QED BY <3>1, PiecesOfForms
  <2> HIDE DEF form, c
  <2> QED BY <2>1, <2>2 DEF form, GoesOn
<1>4. CASE n.gen = "tagged"
  <2> DEFINE c == TwoOf(n, "tagged", TagCheck(n.sub[1], n.sub[2]))
  <2>1. form = all \o c
    BY <1>4 DEF GenForm, TwoOf
  <2>2. Piece(c, {}, {}, m)
    <3>1. "tagged" \notin {"label", "jump"} /\ n.sub[2].loc \in 0 .. m
      BY <1>4
    <3> QED BY <3>1, PiecesOfForms
  <2> HIDE DEF form, c
  <2> QED BY <2>1, <2>2 DEF form, GoesOn
<1> QED BY <1>1, <1>2, <1>3, <1>4


LEMMA Joined ==
  ASSUME NEW m, NEW a, NEW b, NEW K, NEW L, NEW I, NEW J, Piece(a, K, I, m), Piece(b, L, J, m), K \cap L = {},
         NEW M, M = K \cup L, NEW N, N = I \cup J
  PROVE  Piece(a \o b, M, N, m)
BY PieceJoins

LEMMA BranchPiece ==
  ASSUME NEW m, NEW K, NEW L, NEW p, K \cap L = {}, p \notin K, p \notin L, NEW a, NEW b, NEW t, NEW l,
         Piece(a, K, K, m), Piece(b, L, L, m), Piece(t, {}, {p}, m), Piece(l, {p}, {}, m)
  PROVE  Piece(a \o t \o b \o l, (K \cup L) \cup {p}, (K \cup L) \cup {p}, m)
<1>1. Piece(a \o t, K, K \cup {p}, m)
  BY Joined
<1>2. (K \cup {p}) \cup L = (K \cup L) \cup {p} /\ (K \cup L) \cap {p} = {}
  OBVIOUS
<1>3. Piece((a \o t) \o b, K \cup L, (K \cup L) \cup {p}, m)
  BY <1>1, <1>2, Joined
<1>4. ((K \cup L) \cup {p}) \cup {} = (K \cup L) \cup {p}
  OBVIOUS
<1> DEFINE c == (a \o t) \o b
           M == K \cup L
           N == M \cup {p}
<1>5. Piece(c, M, N, m) /\ M \cap {p} = {} /\ N = M \cup {p} /\ N \cup {} = N
  BY <1>2, <1>3, <1>4
<1> HIDE DEF c, M, N
<1>6. Piece(c \o l, N, N, m)
  BY <1>5, Joined
<1> QED BY <1>6 DEF c, M, N

LEMMA NilPiece ==
  ASSUME NEW m, NEW K, NEW a, NEW z, Piece(a, K, K, m), Piece(z, {}, {}, m)
  PROVE  Piece(z \o a, K, K, m) /\ Piece(a \o z, K, K, m)
<1>1. {} \cup K = K /\ K \cup {} = K /\ {} \cap K = {} /\ K \cap {} = {}
  OBVIOUS
<1> QED BY <1>1, Joined

LEMMA ChoicePiece ==
  ASSUME NEW m, NEW K, NEW L, NEW M, K \cap L = {}, K \cap M = {}, L \cap M = {}, NEW p, NEW q, p # q,
         p \notin K \cup L \cup M, q \notin K \cup L \cup M,
         NEW a, NEW b, NEW c, NEW t, NEW j, NEW l, NEW o,
         Piece(a, K, K, m), Piece(b, L, L, m), Piece(c, M, M, m), Piece(t, {}, {q}, m), Piece(j, {}, {p}, m),
         Piece(l, {q}, {}, m), Piece(o, {p}, {}, m)
  PROVE  LET A == (((K \cup L) \cup {q}) \cup M) \cup {p}
         IN  Piece(a \o t \o b \o j \o l \o c \o o, A, A, m)
<1> DEFINE B == K \cup L
           C == B \cup {q}
           D == C \cup M
           A == D \cup {p}
           x == (a \o t) \o b
<1>1. Piece(a \o t, K, K \cup {q}, m)
  BY Joined
<1>2. (K \cup {q}) \cup L = C
  OBVIOUS
<1>3. Piece(x, B, C, m)
  BY <1>1, <1>2, Joined
<1>4. /\ B \cap {q} = {} /\ C \cap M = {} /\ D \cap {p} = {} /\ (C \cup {p}) \cup M = A
      /\ B \cup {} = B /\ (C \cup {p}) \cup {} = C \cup {p} /\ C = B \cup {q} /\ D = C \cup M /\ A = D \cup {p}
      /\ A \cup {} = A /\ B \cap {} = {}
  OBVIOUS
<1> HIDE DEF x, A, B, C, D
<1>5. Piece(x \o j, B, C \cup {p}, m)
  BY <1>3, <1>4, Joined
<1> DEFINE y == x \o j
<1>6. Piece(y, B, C \cup {p}, m)
  BY <1>5
<1> HIDE DEF y
<1>7. Piece(y \o l, C, C \cup {p}, m)
  BY <1>4, <1>6, Joined
<1> DEFINE z == y \o l
<1>8. Piece(z, C, C \cup {p}, m)
  BY <1>7
<1> HIDE DEF z
<1>9. Piece(z \o c, D, A, m)
  BY <1>4, <1>8, Joined
<1> DEFINE w == z \o c
<1>10. Piece(w, D, A, m)
  BY <1>9
<1> HIDE DEF w
<1>11. Piece(w \o o, A, A, m)
  BY <1>4, <1>10, Joined
<1> QED BY <1>11 DEF A, B, C, D, w, x, y, z

LEMMA LoopPiece ==
  ASSUME NEW m, NEW K, NEW q, q \notin K, NEW a, NEW l, NEW t,
         Piece(a, K, K, m), Piece(l, {q}, {}, m), Piece(t, {}, {q}, m)
  PROVE  Piece(l \o a \o t, {q} \cup K, {q} \cup K, m)
<1> DEFINE A == {q} \cup K
           x == l \o a
<1>1. {q} \cap K = {} /\ {} \cup K = K /\ A = {q} \cup K /\ A \cup {} = A /\ K \cup {q} = A /\ A \cap {} = {}
  OBVIOUS
<1> HIDE DEF A
<1>2. Piece(x, A, K, m)
  BY <1>1, Joined
<1> HIDE DEF x
<1>3. Piece(x \o t, A, A, m)
  BY <1>1, <1>2, Joined
<1> QED BY <1>3 DEF A, x

LEMMA LoopBodyPiece ==
  ASSUME NEW m, NEW K, NEW L, K \cap L = {}, NEW p, NEW q, p # q, p \notin K \cup L, q \notin K \cup L,
         NEW a, NEW b, NEW j, NEW l, NEW o, NEW t,
         Piece(a, K, K, m), Piece(b, L, L, m), Piece(j, {}, {p}, m), Piece(l, {q}, {}, m),
         Piece(o, {p}, {}, m), Piece(t, {}, {q}, m)
  PROVE  LET A == (({q} \cup L) \cup {p}) \cup K
         IN  Piece(j \o l \o b \o o \o a \o t, A, A, m)
<1> DEFINE B == {q} \cup L
           C == B \cup {p}
           A == C \cup K
           D == {p} \cup L
           E == D \cup K
           x == j \o l
<1>1. /\ {} \cup {q} = {q} /\ {p} \cup {} = {p} /\ {} \cap {q} = {} /\ {q} \cap L = {} /\ B \cap {p} = {}
      /\ C \cap K = {} /\ B = {q} \cup L /\ C = B \cup {p} /\ A = C \cup K /\ D = {p} \cup L /\ E = D \cup K
      /\ D \cup {} = D /\ A \cup {} = A /\ A \cap {} = {} /\ E \cup {q} = A
  OBVIOUS
<1> HIDE DEF A, B, C, D, E
<1>2. Piece(x, {q}, {p}, m)
  BY <1>1, Joined
<1> HIDE DEF x
<1> DEFINE y == x \o b
<1>3. Piece(y, B, D, m)
  BY <1>1, <1>2, Joined
<1> HIDE DEF y
<1> DEFINE z == y \o o
<1>4. Piece(z, C, D, m)
  BY <1>1, <1>3, Joined
<1> HIDE DEF z
<1> DEFINE w == z \o a
<1>5. Piece(w, A, E, m)
  BY <1>1, <1>4, Joined
<1> HIDE DEF w
<1>6. Piece(w \o t, A, A, m)
  BY <1>1, <1>5, Joined
<1> QED BY <1>6 DEF A, B, C, D, w, x, y, z

\* How many parts the code of a form is made from.
Formed(n) ==
    /\ n.gen \in {"open", "value", "assign", "return", "nonlocal", "loop", "if", "and", "loopBody",
                  "identity", "tagged", "ifElse"}
    /\ n.gen \notin {"open", "value"} => Len(n.sub) >= 1
    /\ n.gen \in {"if", "and", "loopBody", "identity", "tagged"} => Len(n.sub) = 2
    /\ n.gen = "ifElse" => Len(n.sub) = 3

LEMMA BranchTidy ==
  ASSUME NEW n, NEW each, NEW all, NEW k \in Nat, NEW m \in Nat, n.gen \in {"if", "and"},
         NEW K, NEW L, K \cap L = {}, k + 2 \notin K, k + 2 \notin L, n.loc \in 0 .. m, n.sub[1].loc \in 0 .. m,
         Piece(each[1], K, K, m), Piece(each[2], L, L, m)
  PROVE  LET A == (K \cup L) \cup {k + 2} IN Piece(GenForm(n, each, all, k), A, A, m)
<1> DEFINE form == GenForm(n, each, all, k)
           rcv == n.sub[1].loc
           A == (K \cup L) \cup {k + 2}
<1>1. PICK s : \/ form = each[1] \o TestTo(rcv, s, k + 2) \o each[2] \o LabelOf(k + 2)
               \/ form = NilIn(n.loc) \o each[1] \o TestTo(rcv, s, k + 2) \o each[2] \o LabelOf(k + 2)
  BY DEF GenForm, TestTo, LabelOf, NilIn
<1>2. Piece(NilIn(n.loc) \o each[1], K, K, m)
  BY NilPiece, PiecesOfForms
<1>3. Piece(TestTo(rcv, s, k + 2), {}, {k + 2}, m) /\ Piece(LabelOf(k + 2), {k + 2}, {}, m)
  BY PiecesOfForms
<1>4. Piece(each[1] \o TestTo(rcv, s, k + 2) \o each[2] \o LabelOf(k + 2), A, A, m)
  BY <1>3, BranchPiece
<1> DEFINE b == NilIn(n.loc) \o each[1]
<1>5. Piece(b \o TestTo(rcv, s, k + 2) \o each[2] \o LabelOf(k + 2), A, A, m)
  <2>1. Piece(b, K, K, m)
    BY <1>2
  <2> HIDE DEF b
  <2> QED BY <2>1, <1>3, BranchPiece
<1> QED BY <1>1, <1>4, <1>5

LEMMA ChoiceTidy ==
  ASSUME NEW n, NEW each, NEW all, NEW k \in Nat, NEW m \in Nat, n.gen = "ifElse",
         NEW K, NEW L, NEW M, K \cap L = {}, K \cap M = {}, L \cap M = {},
         k + 1 \notin K \cup L \cup M, k + 2 \notin K \cup L \cup M, n.sub[1].loc \in 0 .. m,
         Piece(each[1], K, K, m), Piece(each[2], L, L, m), Piece(each[3], M, M, m)
  PROVE  LET A == (((K \cup L) \cup {k + 1}) \cup M) \cup {k + 2}
         IN  Piece(GenForm(n, each, all, k), A, A, m)
<1> DEFINE form == GenForm(n, each, all, k)
           rcv == n.sub[1].loc
           p == k + 2
           q == k + 1
<1>1. PICK s : form = each[1] \o TestTo(rcv, s, q) \o each[2] \o JumpTo(p) \o LabelOf(q) \o each[3] \o LabelOf(p)
  BY DEF GenForm, TestTo, LabelOf, JumpTo
<1> DEFINE a == each[1]
           b == each[2]
           c == each[3]
           t == TestTo(rcv, s, q)
           j == JumpTo(p)
           l == LabelOf(q)
           o == LabelOf(p)
<1>2. /\ Piece(a, K, K, m) /\ Piece(b, L, L, m) /\ Piece(c, M, M, m) /\ Piece(t, {}, {q}, m)
      /\ Piece(j, {}, {p}, m) /\ Piece(l, {q}, {}, m) /\ Piece(o, {p}, {}, m)
  BY PiecesOfForms
<1>3. p # q /\ p \notin K \cup L \cup M /\ q \notin K \cup L \cup M
  OBVIOUS
<1>4. form = a \o t \o b \o j \o l \o c \o o
  BY <1>1
<1> HIDE DEF form, a, b, c, t, j, l, o, p, q
<1> DEFINE A == (((K \cup L) \cup {q}) \cup M) \cup {p}
<1>5. Piece(a \o t \o b \o j \o l \o c \o o, A, A, m)
  BY <1>2, <1>3, ChoicePiece
<1> QED BY <1>4, <1>5 DEF form, p, q

LEMMA LoopTidy ==
  ASSUME NEW n, NEW each, NEW all, NEW k \in Nat, NEW m \in Nat, n.gen = "loop", NEW K, k + 1 \notin K,
         n.loc \in 0 .. m, n.sub[1].loc \in 0 .. m, Piece(all, K, K, m)
  PROVE  LET A == {k + 1} \cup K IN Piece(GenForm(n, each, all, k), A, A, m)
<1> DEFINE form == GenForm(n, each, all, k)
           rcv == n.sub[1].loc
           q == k + 1
<1>1. PICK s : form = LabelOf(q) \o all \o TestTo(rcv, s, q) \o NilIn(n.loc)
  BY DEF GenForm, TestTo, LabelOf, NilIn
<1> DEFINE t == TestTo(rcv, s, q)
           l == LabelOf(q)
           z == NilIn(n.loc)
           x == l \o all \o t
           A == {q} \cup K
<1>2. Piece(t, {}, {q}, m) /\ Piece(l, {q}, {}, m) /\ Piece(z, {}, {}, m)
  BY PiecesOfForms
<1>3. form = x \o z
  BY <1>1
<1> HIDE DEF form, t, l, z, q
<1>4. q \notin K
  BY DEF q
<1>5. Piece(x, A, A, m)
  BY <1>2, <1>4, LoopPiece
<1> HIDE DEF x, A
<1>6. Piece(x \o z, A, A, m)
  BY <1>2, <1>5, NilPiece
<1> QED BY <1>3, <1>6 DEF form, q, A

LEMMA LoopBodyTidy ==
  ASSUME NEW n, NEW each, NEW all, NEW k \in Nat, NEW m \in Nat, n.gen = "loopBody",
         NEW K, NEW L, K \cap L = {}, k + 1 \notin K \cup L, k + 2 \notin K \cup L,
         n.loc \in 0 .. m, n.sub[1].loc \in 0 .. m, Piece(each[1], K, K, m), Piece(each[2], L, L, m)
  PROVE  LET A == (({k + 1} \cup L) \cup {k + 2}) \cup K IN Piece(GenForm(n, each, all, k), A, A, m)
<1> DEFINE form == GenForm(n, each, all, k)
           rcv == n.sub[1].loc
           p == k + 2
           q == k + 1
<1>1. PICK s : form = JumpTo(p) \o LabelOf(q) \o each[2] \o LabelOf(p) \o each[1] \o TestTo(rcv, s, q) \o NilIn(n.loc)
  BY DEF GenForm, TestTo, LabelOf, NilIn, JumpTo
<1> DEFINE a == each[1]
           b == each[2]
           t == TestTo(rcv, s, q)
           j == JumpTo(p)
           l == LabelOf(q)
           o == LabelOf(p)
           z == NilIn(n.loc)
           x == j \o l \o b \o o \o a \o t
           A == (({q} \cup L) \cup {p}) \cup K
<1>2. /\ Piece(a, K, K, m) /\ Piece(b, L, L, m) /\ Piece(t, {}, {q}, m)
      /\ Piece(j, {}, {p}, m) /\ Piece(l, {q}, {}, m) /\ Piece(o, {p}, {}, m) /\ Piece(z, {}, {}, m)
  BY PiecesOfForms
<1>3. p # q /\ p \notin K \cup L /\ q \notin K \cup L
  OBVIOUS
<1>4. form = x \o z
  BY <1>1
<1> HIDE DEF form, a, b, t, j, l, o, z, p, q
<1>5. Piece(x, A, A, m)
  BY <1>2, <1>3, LoopBodyPiece
<1> HIDE DEF x, A
<1>6. Piece(x \o z, A, A, m)
  BY <1>2, <1>5, NilPiece
<1> QED BY <1>4, <1>6 DEF form, p, q, A

LEMMA FormTidy ==
  ASSUME NEW n, NEW each, NEW all, NEW k \in Nat, NEW m \in Nat, NEW p \in Nat, p >= k + 2,
         NEW B \in SUBSET (k + 3 .. p), Piece(all, B, B, m), Len(n.sub) \in Nat,
         Apart(each, Len(n.sub), k + 2, p, m), Formed(n), n.loc \in 0 .. m,
         \A i \in 1 .. Len(n.sub) : n.sub[i].loc \in 0 .. m
  PROVE  \E A \in SUBSET (k + 1 .. p) : Piece(GenForm(n, each, all, k), A, A, m)
<1> DEFINE form == GenForm(n, each, all, k)
           S == k + 3 .. p
           T == k + 1 .. p
<1>1. PICK L \in [1 .. Len(n.sub) -> SUBSET S] :
        /\ \A i \in 1 .. Len(n.sub) : Piece(each[i], L[i], L[i], m)
        /\ \A i, j \in 1 .. Len(n.sub) : i # j => L[i] \cap L[j] = {}
  <2>1. (k + 2) + 1 = k + 3
    OBVIOUS
  <2> QED BY <2>1 DEF Apart
<1>2. k + 1 \in T /\ k + 2 \in T /\ S \subseteq T /\ k + 1 \notin S /\ k + 2 \notin S /\ B \subseteq S
  OBVIOUS
<1>3. \A i \in 1 .. Len(n.sub) : L[i] \subseteq S
  BY <1>1
<1> HIDE DEF S, T
<1> SUFFICES \E A \in SUBSET T : Piece(form, A, A, m)
  BY DEF T
<1>4. n.gen \notin {"open", "value"} => n.sub[1].loc \in 0 .. m
  BY DEF Formed
<1>5. CASE n.gen \in {"open", "value"}
  <2>1. form = all
    BY <1>5 DEF GenForm
  <2> HIDE DEF form
  <2> QED BY <2>1, <1>2
<1>6. CASE n.gen \in {"assign", "return", "nonlocal", "identity", "tagged"}
  <2>1. n.sub[1].loc \in 0 .. m /\ (n.gen \in {"identity", "tagged"} => n.sub[2].loc \in 0 .. m)
    BY <1>4, <1>6 DEF Formed
  <2>2. GoesOn(all, form, m)
    BY <1>6, <2>1, Simply
  <2>3. PICK c : form = all \o c /\ Piece(c, {}, {}, m)
    BY <2>2 DEF GoesOn
  <2> HIDE DEF form
  <2>4. Piece(form, B, B, m)
    BY <2>3, NilPiece
  <2> QED BY <2>4, <1>2
<1>7. CASE n.gen \in {"if", "and"}
  <2> DEFINE A == (L[1] \cup L[2]) \cup {k + 2}
  <2>1. 1 \in 1 .. Len(n.sub) /\ 2 \in 1 .. Len(n.sub)
    <3>1. Len(n.sub) = 2
      BY <1>7 DEF Formed
    <3> QED BY <3>1
  <2>2. /\ L[1] \cap L[2] = {} /\ L[1] \subseteq S /\ L[2] \subseteq S
        /\ Piece(each[1], L[1], L[1], m) /\ Piece(each[2], L[2], L[2], m) /\ n.sub[1].loc \in 0 .. m
    BY <1>1, <1>3, <1>4, <1>7, <2>1
  <2>3. k + 2 \notin L[1] /\ k + 2 \notin L[2] /\ A \in SUBSET T
    BY <1>2, <2>2
  <2>4. Piece(form, A, A, m)
    BY <1>7, <2>2, <2>3, BranchTidy
  <2> HIDE DEF form, A
  <2> QED BY <2>3, <2>4
<1>8. CASE n.gen = "ifElse"
  <2> DEFINE A == (((L[1] \cup L[2]) \cup {k + 1}) \cup L[3]) \cup {k + 2}
  <2>1. 1 \in 1 .. Len(n.sub) /\ 2 \in 1 .. Len(n.sub) /\ 3 \in 1 .. Len(n.sub)
    <3>1. Len(n.sub) = 3
      BY <1>8 DEF Formed
    <3> QED BY <3>1
  <2>2. /\ L[1] \cap L[2] = {} /\ L[1] \subseteq S /\ L[2] \subseteq S /\ L[3] \subseteq S
        /\ Piece(each[1], L[1], L[1], m) /\ Piece(each[2], L[2], L[2], m) /\ n.sub[1].loc \in 0 .. m
    BY <1>1, <1>3, <1>4, <1>8, <2>1
  <2>3. L[1] \cap L[3] = {} /\ L[2] \cap L[3] = {} /\ Piece(each[3], L[3], L[3], m)
    BY <1>1, <2>1
  <2>4. k + 1 \notin L[1] \cup L[2] \cup L[3] /\ k + 2 \notin L[1] \cup L[2] \cup L[3] /\ A \in SUBSET T
    BY <1>2, <2>2
  <2>5. Piece(form, A, A, m)
    BY <1>8, <2>2, <2>3, <2>4, ChoiceTidy
  <2> HIDE DEF form, A
  <2> QED BY <2>4, <2>5
<1>9. CASE n.gen = "loop"
  <2> DEFINE A == {k + 1} \cup B
  <2>1. k + 1 \notin B /\ A \in SUBSET T
    BY <1>2
  <2>2. Piece(form, A, A, m)
    BY <1>4, <1>9, <2>1, LoopTidy
  <2> HIDE DEF form, A
  <2> QED BY <2>1, <2>2
<1>10. CASE n.gen = "loopBody"
  <2> DEFINE A == (({k + 1} \cup L[2]) \cup {k + 2}) \cup L[1]
  <2>1. 1 \in 1 .. Len(n.sub) /\ 2 \in 1 .. Len(n.sub)
    <3>1. Len(n.sub) = 2
      BY <1>10 DEF Formed
    <3> QED BY <3>1
  <2>2. /\ L[1] \cap L[2] = {} /\ L[1] \subseteq S /\ L[2] \subseteq S
        /\ Piece(each[1], L[1], L[1], m) /\ Piece(each[2], L[2], L[2], m) /\ n.sub[1].loc \in 0 .. m
    BY <1>1, <1>3, <1>4, <1>10, <2>1
  <2>3. k + 1 \notin L[1] \cup L[2] /\ k + 2 \notin L[1] \cup L[2] /\ A \in SUBSET T
    BY <1>2, <2>2
  <2>4. Piece(form, A, A, m)
    BY <1>10, <2>2, <2>3, LoopBodyTidy
  <2> HIDE DEF form, A
  <2> QED BY <2>3, <2>4
<1> QED BY <1>5, <1>6, <1>7, <1>8, <1>9, <1>10 DEF Formed

-----------------------------------------------------------------------------
(* The code of an encoded node, from that of its parts.                     *)
Placed(ns, d, m) ==
    IsCode(ns) /\ \A i \in 1 .. Len(ns) : ns[i].loc \in 0 .. m /\ Fine(d, ns[i], m)

LEMMA NodeCodeIs ==
  ASSUME NEW d \in Nat, NEW n \in Nodes[d], NEW k \in Nat
  PROVE  NodeCode[d][<<n, k>>] = GenNode(IF d = 0 THEN <<>> ELSE NodeCode[d - 1], n, k)
<1> DEFINE below == NodeCode[d - 1]
<1>1. NodeCode[d] = CodedAt(d, below)
  BY CodedIs
<1> HIDE DEF below
<1> QED BY <1>1 DEF CodedAt, below

LEMMA LeafFine ==
  ASSUME NEW d \in Nat, NEW n \in Nodes[d], NEW m \in Nat, n.loc \in 0 .. m, n.gen = "leaf"
  PROVE  Fine(d, n, m)
<1> SUFFICES ASSUME NEW k \in Nat PROVE Tidy(NodeCode[d][<<n, k>>], k, m)
  BY DEF Fine
<1>1. NodeCode[d][<<n, k>>] = [c |-> GenLeaf(n), k |-> k]
  BY NodeCodeIs DEF GenNode
<1> QED BY <1>1, LeafTidy

LEMMA SentFine ==
  ASSUME NEW d \in Nat, d # 0, NEW n \in Nodes[d], NEW m \in Nat, n.gen = "send",
         Placed(n.sub, d - 1, m), n.sub # <<>>, IsCode(n.cascades),
         \A j \in 1 .. Len(n.cascades) : Placed(n.cascades[j].sub, d - 1, m)
  PROVE  Fine(d, n, m)
<1> SUFFICES ASSUME NEW k \in Nat PROVE Tidy(NodeCode[d][<<n, k>>], k, m)
  BY DEF Fine
<1> DEFINE gen == NodeCode[d - 1]
<1>1. NodeCode[d][<<n, k>>] = GenSent(gen, n, k)
  BY NodeCodeIs DEF GenNode
<1>2. \A x : Fine(d - 1, x, m) => \A h \in Nat : Tidy(gen[<<x, h>>], h, m)
  BY DEF Fine
<1> HIDE DEF gen
<1>3. IsCode(n.sub) /\ \A i \in 1 .. Len(n.sub) :
            n.sub[i].loc \in 0 .. m /\ \A h \in Nat : Tidy(gen[<<n.sub[i], h>>], h, m)
  BY <1>2 DEF Placed
<1>4. \A j \in 1 .. Len(n.cascades) : IsCode(n.cascades[j].sub) /\ \A i \in 1 .. Len(n.cascades[j].sub) :
            /\ n.cascades[j].sub[i].loc \in 0 .. m
            /\ \A h \in Nat : Tidy(gen[<<n.cascades[j].sub[i], h>>], h, m)
  BY <1>2 DEF Placed
<1>5. Tidy(GenSent(gen, n, k), k, m)
  BY <1>3, <1>4, SentTidy
<1> QED BY <1>1, <1>5

LEMMA FormFine ==
  ASSUME NEW d \in Nat, d # 0, NEW n \in Nodes[d], NEW m \in Nat, n.loc \in 0 .. m, Formed(n),
         Placed(n.sub, d - 1, m)
  PROVE  Fine(d, n, m)
<1> SUFFICES ASSUME NEW k \in Nat PROVE Tidy(NodeCode[d][<<n, k>>], k, m)
  BY DEF Fine
<1> DEFINE gen == NodeCode[d - 1]
           g == GenAll(gen, n.sub, k + 2)
           form == GenForm(n, g.each, g.c, k)
           x == [c |-> form, k |-> g.k]
<1>1. NodeCode[d][<<n, k>>] = x
  BY NodeCodeIs DEF GenNode, Formed
<1>2. \A y : Fine(d - 1, y, m) => \A h \in Nat : Tidy(gen[<<y, h>>], h, m)
  BY DEF Fine
<1>3. Len(n.sub) \in Nat
  BY DEF Placed, IsCode
<1> HIDE DEF gen
<1>4. \A i \in 1 .. Len(n.sub) : n.sub[i].loc \in 0 .. m /\ \A h \in Nat : Tidy(gen[<<n.sub[i], h>>], h, m)
  BY <1>2 DEF Placed
<1>5. k + 2 \in Nat
  OBVIOUS
<1>6. Tidy(g, k + 2, m) /\ Apart(g.each, Len(n.sub), k + 2, g.k, m)
  BY <1>3, <1>4, <1>5, GenAllIs
<1> HIDE DEF g
<1>7. PICK B \in SUBSET ((k + 2) + 1 .. g.k) : Piece(g.c, B, B, m)
  BY <1>6 DEF Tidy
<1>8. g.k \in Nat /\ g.k >= k + 2 /\ B \in SUBSET (k + 3 .. g.k) /\ g.k >= k
  BY <1>6, <1>7 DEF Tidy
<1>9. PICK A \in SUBSET (k + 1 .. g.k) : Piece(form, A, A, m)
  BY <1>3, <1>4, <1>6, <1>7, <1>8, FormTidy
<1>10. x.c = form /\ x.k = g.k
  OBVIOUS
<1> HIDE DEF form, x
<1> QED BY <1>1, <1>8, <1>9, <1>10 DEF Tidy

-----------------------------------------------------------------------------
(* Encoding nodes one after the other.                                      *)
AfterNode(enc, ns, kept, i, r) ==
    LET x == enc[<<ns[i], r.e>>]
    IN  [n |-> Append(r.n, x.n), e |-> IF i <= Len(ns) - kept THEN Pop(x.e, 1) ELSE x.e]
Encodes(t, n, enc, ns, kept, s) ==
    t = [i \in 0 .. n |-> IF i = 0 THEN s ELSE AfterNode(enc, ns, kept, i, t[i - 1])]
LEMMA EncodesMade ==
  ASSUME NEW n \in Nat, NEW enc, NEW ns, NEW kept, NEW s
  PROVE  \E t : Encodes(t, n, enc, ns, kept, s)
<1> DEFINE Shown == {m \in Nat : \E t : Encodes(t, m, enc, ns, kept, s)}
<1>1. 0 \in Shown
  <2> DEFINE t == [i \in 0 .. 0 |-> s]
  <2>1. t = [i \in 0 .. 0 |-> IF i = 0 THEN s ELSE AfterNode(enc, ns, kept, i, t[i - 1])]
    OBVIOUS
  <2>2. Encodes(t, 0, enc, ns, kept, s)
    BY <2>1 DEF Encodes
  <2> QED BY <2>2
<1>2. ASSUME NEW m \in Nat, m \in Shown PROVE m + 1 \in Shown
  <2>1. PICK g : Encodes(g, m, enc, ns, kept, s)
    BY <1>2
  <2> DEFINE t == [i \in 0 .. m + 1 |-> IF i = m + 1 THEN AfterNode(enc, ns, kept, m + 1, g[m]) ELSE g[i]]
  <2>2. t = [i \in 0 .. m + 1 |-> t[i]]
    OBVIOUS
  <2>3. t[m + 1] = AfterNode(enc, ns, kept, m + 1, g[m]) /\ \A i \in 0 .. m : t[i] = g[i]
    OBVIOUS
  <2> HIDE DEF t
  <2>4. ASSUME NEW i \in 0 .. m + 1
        PROVE  t[i] = IF i = 0 THEN s ELSE AfterNode(enc, ns, kept, i, t[i - 1])
    <3>1. CASE i = m + 1
      <4>1. m \in 0 .. m /\ i - 1 = m /\ i # 0
        BY <3>1
      <4> QED BY <2>3, <3>1, <4>1
    <3>2. CASE i # m + 1
      <4>1. i \in 0 .. m /\ (i # 0 => i - 1 \in 0 .. m)
        BY <3>2
      <4>2. g[i] = IF i = 0 THEN s ELSE AfterNode(enc, ns, kept, i, g[i - 1])
        BY <2>1, <4>1 DEF Encodes
      <4> QED BY <2>3, <4>1, <4>2
    <3> QED BY <3>1, <3>2
  <2>5. Encodes(t, m + 1, enc, ns, kept, s)
    BY <2>2, <2>4 DEF Encodes
  <2> QED BY <2>5
<1> HIDE DEF Shown
<1>3. n \in Shown
  BY <1>1, <1>2, Upward
<1> QED BY <1>3 DEF Shown

LEMMA EncodesFolds ==
  ASSUME NEW enc, NEW ns, NEW kept, NEW e, Len(ns) \in Nat
  PROVE  \E u : /\ EncodeAll(enc, ns, e, kept) = u[Len(ns)] /\ u[0] = [n |-> <<>>, e |-> e]
               /\ \A i \in 1 .. Len(ns) : u[i] = AfterNode(enc, ns, kept, i, u[i - 1])
<1> DEFINE n == Len(ns)
           s == [n |-> <<>>, e |-> e]
<1>1. n \in Nat
  OBVIOUS
<1>2. EncodeAll(enc, ns, e, kept) = (CHOOSE t : Encodes(t, n, enc, ns, kept, s))[n]
  BY DEF EncodeAll, AfterNode, Encodes
<1> HIDE DEF n, s
<1>3. PICK u : Encodes(u, n, enc, ns, kept, s) /\ EncodeAll(enc, ns, e, kept) = u[n]
  BY <1>1, <1>2, EncodesMade
<1>4. u[0] = s /\ \A i \in 1 .. n : u[i] = AfterNode(enc, ns, kept, i, u[i - 1])
  <2>1. 0 \in 0 .. n /\ \A i \in 1 .. n : i \in 0 .. n /\ i # 0
    BY <1>1
  <2> QED BY <1>3, <2>1 DEF Encodes
<1> QED BY <1>3, <1>4 DEF n, s

\* What encoding a node comes to: its value is in the next variable, which is
\* then in use, and its code needs no more variables than are declared.
Result(d, x, e, D) ==
    /\ x.n \in Nodes[d] /\ x.n.loc = e.count + 1 /\ Fine(d, x.n, x.e.max)
    /\ Grown(e, x.e, D) /\ x.e.count = e.count + 1 /\ x.e.max >= e.count + 1

\* The same of several nodes, of which the last `kept' stay in use.
Settled(n, f, d) == n.loc \in 0 .. f.max /\ Fine(d, n, f.max)
AllResult(d, all, e, l, kept, D) ==
    /\ all.n \in Seq(Nodes[d]) /\ Len(all.n) = l
    /\ Grown(e, all.e, D) /\ all.e.count = e.count + kept
    /\ \A i \in 1 .. l : /\ all.n[i].loc = e.count + (IF i <= l - kept THEN 1 ELSE i - (l - kept))
                         /\ Settled(all.n[i], all.e, d)

LEMMA SettledStill ==
  ASSUME NEW n, NEW d, NEW e, NEW f, NEW D, Settled(n, e, d), Grown(e, f, D)
  PROVE  Settled(n, f, d)
<1>1. e.max \in Nat /\ f.max \in Nat /\ e.max <= f.max
  BY EncoderIs DEF Grown
<1>2. n.loc \in 0 .. f.max
  BY <1>1 DEF Settled
<1> QED BY <1>1, <1>2, FineWider DEF Settled

LEMMA Rising ==
  ASSUME NEW gap \in Nat, NEW i \in Nat, i >= 1
  PROVE  /\ (IF i - 1 <= gap THEN 0 ELSE (i - 1) - gap) + 1 = IF i <= gap THEN 1 ELSE i - gap
         /\ (IF i <= gap THEN 0 ELSE i - gap) =
            IF i <= gap THEN (IF i <= gap THEN 1 ELSE i - gap) - 1 ELSE (IF i <= gap THEN 1 ELSE i - gap)
         /\ (IF i <= gap THEN 1 ELSE i - gap) \in Nat /\ (IF i <= gap THEN 1 ELSE i - gap) >= 1
OBVIOUS

LEMMA SeqAppends ==
  ASSUME NEW S, NEW s \in Seq(S), NEW x \in S, NEW i \in Nat, Len(s) = i - 1
  PROVE  /\ Append(s, x) \in Seq(S) /\ Len(Append(s, x)) = i /\ Append(s, x)[i] = x
         /\ \A h \in 1 .. i - 1 : Append(s, x)[h] = s[h]
OBVIOUS

LEMMA AllEncoded ==
  ASSUME NEW enc, NEW d, NEW D, D \subseteq AnyNode, NEW ns, Len(ns) \in Nat, NEW kept \in 0 .. Len(ns),
         NEW e \in Encoders,
         \A i \in 1 .. Len(ns) : \A f \in Encoders : Result(d, enc[<<ns[i], f>>], f, D)
  PROVE  AllResult(d, EncodeAll(enc, ns, e, kept), e, Len(ns), kept, D)
<1> DEFINE l == Len(ns)
           start == [n |-> <<>>, e |-> e]
<1>1. PICK u : /\ EncodeAll(enc, ns, e, kept) = u[l] /\ u[0] = start
               /\ \A i \in 1 .. l : u[i] = AfterNode(enc, ns, kept, i, u[i - 1])
  <2>1. Len(ns) \in Nat
    OBVIOUS
  <2> QED BY ONLY <2>1, EncodesFolds
<1> DEFINE gap == l - kept
           up(i) == IF i <= gap THEN 0 ELSE i - gap
           at(i) == IF i <= gap THEN 1 ELSE i - gap
           Fit(r, i) == /\ r.n \in Seq(Nodes[d]) /\ Len(r.n) = i
                        /\ Grown(e, r.e, D) /\ r.e.count = e.count + up(i)
                        /\ \A h \in 1 .. i : r.n[h].loc = e.count + at(h) /\ Settled(r.n[h], r.e, d)
<1>2. l \in Nat /\ gap \in 0 .. l /\ e.count \in Nat
  BY EncoderIs
<1>3. \A i \in 1 .. l : \A f \in Encoders : Result(d, enc[<<ns[i], f>>], f, D)
  OBVIOUS
<1>4. Fit(start, 0)
  <2>1. start.n = <<>> /\ start.e = e /\ Len(<<>>) = 0 /\ <<>> \in Seq(Nodes[d]) /\ up(0) = 0 /\ 1 .. 0 = {}
    BY <1>2
  <2>2. e.count = e.count + up(0)
    BY <1>2, <2>1
  <2> HIDE DEF start, up, at
  <2> QED BY <2>1, <2>2, GrownSame
<1>5. ASSUME NEW i \in 1 .. l, NEW r, Fit(r, i - 1) PROVE Fit(AfterNode(enc, ns, kept, i, r), i)
  <2> DEFINE x == enc[<<ns[i], r.e>>]
             f == IF i <= gap THEN Pop(x.e, 1) ELSE x.e
             z == AfterNode(enc, ns, kept, i, r)
  <2>1. i - 1 \in Nat /\ (i - 1) + 1 = i /\ i \in Nat
    BY <1>2
  <2>2. /\ r.n \in Seq(Nodes[d]) /\ Len(r.n) = i - 1 /\ Grown(e, r.e, D) /\ r.e.count = e.count + up(i - 1)
        /\ \A h \in 1 .. i - 1 : r.n[h].loc = e.count + at(h) /\ Settled(r.n[h], r.e, d)
    BY <1>5
  <2>3. up(i - 1) + 1 = at(i) /\ up(i) = (IF i <= gap THEN at(i) - 1 ELSE at(i)) /\ at(i) \in Nat /\ at(i) >= 1
    <3>1. gap \in Nat /\ i >= 1
      BY <1>2, <2>1
    <3> HIDE DEF gap, l
    <3> QED BY <2>1, <3>1, Rising
  <2>4. z.n = Append(r.n, x.n) /\ z.e = f
    BY DEF AfterNode
  <2>5. r.e \in Encoders
    BY <2>2 DEF Grown
  <2>6. Result(d, x, r.e, D)
    BY <1>3, <2>5
  <2>7. f = (IF i <= gap THEN Pop(x.e, 1) ELSE x.e)
    OBVIOUS
  <2> HIDE DEF x, z, f, up, at, gap, Fit
  <2>8. /\ x.n \in Nodes[d] /\ x.n.loc = e.count + at(i) /\ x.e.count = e.count + at(i) /\ x.e.max >= e.count + at(i)
        /\ x.e \in Encoders /\ x.e.max \in Nat
    <3>1. r.e.count + 1 = e.count + at(i)
      <4>1. up(i - 1) \in Int
        BY <1>2, <2>1 DEF up
      <4> DEFINE a == at(i)
                 b == up(i - 1)
                 c == e.count
                 s == r.e.count
      <4>2. a \in Int /\ c \in Int /\ b \in Int /\ b + 1 = a /\ s = c + b
        BY <1>2, <2>2, <2>3, <4>1
      <4> HIDE DEF a, b, c, s
      <4>3. s + 1 = c + a
        BY ONLY <4>2
      <4> QED BY <4>3 DEF a, c, s
    <3>2. x.e \in Encoders
      BY <2>6 DEF Result, Grown
    <3> QED BY <2>6, <3>1, <3>2, EncoderIs DEF Result
  <2>9. Settled(x.n, x.e, d)
    BY <1>2, <2>3, <2>6, <2>8 DEF Settled, Result
  <2>10. Grown(x.e, f, D) /\ f.count = e.count + up(i)
    <3>1. CASE i <= gap
      <4>1. 1 <= x.e.count /\ 1 \in Nat
        BY <1>2, <2>3, <2>8
      <4>2. Grown(x.e, Pop(x.e, 1), D) /\ Pop(x.e, 1).count = x.e.count - 1
        BY <2>8, <4>1, PopGrows
      <4> QED BY <1>2, <2>3, <2>7, <2>8, <3>1, <4>2
    <3>2. CASE ~(i <= gap)
      <4>1. Grown(x.e, x.e, D)
        BY <2>8, GrownSame
      <4> QED BY <2>3, <2>7, <2>8, <3>2, <4>1
    <3> QED BY <3>1, <3>2
  <2>11. Grown(r.e, f, D) /\ Grown(e, f, D)
    <3>1. Grown(r.e, x.e, D)
      BY <2>6 DEF Result
    <3>2. Grown(r.e, f, D)
      BY <2>10, <3>1, GrownOn
    <3> QED BY <2>2, <3>2, GrownOn
  <2>12. /\ z.n \in Seq(Nodes[d]) /\ Len(z.n) = i /\ z.n[i] = x.n
         /\ \A h \in 1 .. i - 1 : z.n[h] = r.n[h]
    <3>1. r.n \in Seq(Nodes[d]) /\ Len(r.n) = i - 1 /\ x.n \in Nodes[d] /\ i \in Nat
      BY <2>1, <2>2, <2>8
    <3> DEFINE s == r.n
               y == x.n
               S == Nodes[d]
    <3>2. s \in Seq(S) /\ Len(s) = i - 1 /\ y \in S /\ i \in Nat
      BY <3>1
    <3> HIDE DEF s, y, S
    <3>3. /\ Append(s, y) \in Seq(S) /\ Len(Append(s, y)) = i /\ Append(s, y)[i] = y
          /\ \A h \in 1 .. i - 1 : Append(s, y)[h] = s[h]
      BY ONLY <3>2, SeqAppends
    <3> QED BY <2>4, <3>3 DEF s, y, S
  <2>13. ASSUME NEW h \in 1 .. i PROVE z.n[h].loc = e.count + at(h) /\ Settled(z.n[h], z.e, d)
    <3>1. CASE h = i
      BY <2>4, <2>8, <2>9, <2>10, <2>12, <3>1, SettledStill
    <3>2. CASE h # i
      <4>1. h \in 1 .. i - 1
        BY <2>1, <3>2
      <4>2. Settled(r.n[h], r.e, d) /\ r.n[h].loc = e.count + at(h) /\ z.n[h] = r.n[h]
        BY <2>2, <2>12, <4>1
      <4> QED BY <2>4, <2>11, <4>2, SettledStill
    <3> QED BY <3>1, <3>2
  <2>14. Fit(z, i)
    BY <2>4, <2>10, <2>11, <2>12, <2>13 DEF Fit
  <2> QED BY <2>14 DEF z
<1> HIDE DEF Fit, start
<1>6. \A i \in 1 .. l : Fit(u[i - 1], i - 1) => Fit(u[i], i)
  BY <1>1, <1>5
<1> DEFINE Good == {i \in 0 .. l : Fit(u[i], i)}
<1>7. 0 \in Good
  BY <1>1, <1>2, <1>4
<1>8. \A i \in 1 .. l : i - 1 \in Good => i \in Good
  BY <1>2, <1>6
<1> HIDE DEF Good
<1>9. l \in Good
  BY <1>2, <1>7, <1>8, UpTo
<1>10. Fit(u[l], l) /\ up(l) = kept
  BY <1>2, <1>9 DEF Good
<1>11. \A i \in 1 .. l : at(i) = (IF i <= l - kept THEN 1 ELSE i - (l - kept))
  OBVIOUS
<1> HIDE DEF up, at
<1> QED BY <1>1, <1>10, <1>11 DEF Fit, AllResult

-----------------------------------------------------------------------------
LEMMA StillParsed ==
  ASSUME NEW n, NEW r, IsCode(n.sub), IsCode(r.sub), Len(r.sub) = Len(n.sub), r.kind = n.kind, r.name = n.name,
         Parsed(n)
  PROVE  Parsed(r)
<1>1. (n.sub = <<>> <=> Len(n.sub) = 0) /\ (r.sub = <<>> <=> Len(r.sub) = 0)
  <2>1. \A X : \A s \in Seq(X) : s = <<>> <=> Len(s) = 0
    OBVIOUS
  <2> QED BY <2>1 DEF IsCode
<1> QED BY <1>1 DEF Parsed

LEMMA NodeIs ==
  ASSUME NEW d \in Nat, NEW n \in Nodes[d]
  PROVE  /\ Parsed(n) /\ IsCode(n.sub) /\ IsCode(n.cascades)
         /\ d # 0 => Typed(n, Nodes[d - 1])
         /\ d = 0 => Typed(n, {}) /\ n.kind \in {"variable", "literal"}
<1>1. CASE d = 0
  <2>1. Typed(n, {}) /\ n.kind \in {"variable", "literal"} /\ Parsed(n)
    BY <1>1, LeafIn, Lowest
  <2> QED BY <1>1, <2>1 DEF Typed, IsCode
<1>2. CASE d # 0
  <2>1. Typed(n, Nodes[d - 1]) /\ Parsed(n)
    BY <1>2, NodeIn
  <2> QED BY <1>2, <2>1 DEF Typed, IsCode
<1> QED BY <1>1, <1>2

\* A literal block waits.
LEMMA WaitGrows ==
  ASSUME NEW e \in Encoders, NEW D, NEW n \in D, n \in AnyNode
  PROVE  LET f == [Push(e) EXCEPT !.blocks = Append(@, n)]
         IN  Grown(e, f, D) /\ f.count = e.count + 1 /\ f.max >= e.count + 1
<1>1. /\ Grown(e, Push(e), D) /\ Push(e).count = e.count + 1 /\ Push(e).max >= e.count + 1
      /\ Push(e).blocks = e.blocks
  BY PushGrows
<1> DEFINE p == Push(e)
           f == [p EXCEPT !.blocks = Append(@, n)]
<1>2. p \in Encoders
  BY <1>1 DEF Grown
<1> HIDE DEF p
<1>3. PICK c \in Nat, m \in Nat, l \in Nat, b \in Seq(AnyNode), u \in Seq(Units), r \in SUBSET Faults :
        p = [count |-> c, max |-> m, level |-> l, blocks |-> b, units |-> u, errors |-> r]
  BY <1>2 DEF Encoders
<1> DEFINE more == Append(b, n)
<1>5. more \in Seq(AnyNode) /\ more = b \o <<n>> /\ <<n>> \in Seq(D)
  OBVIOUS
<1>4. f = [count |-> c, max |-> m, level |-> l, blocks |-> more, units |-> u, errors |-> r]
  <2>1. p.blocks = b
    BY <1>3
  <2>2. f = [p EXCEPT !.blocks = more]
    BY <2>1
  <2> HIDE DEF f, more
  <2> QED BY <1>3, <2>2
<1> HIDE DEF more, f
<1>6. f \in Encoders
  BY <1>4, <1>5 DEF Encoders
<1>7. e.blocks = b /\ f.blocks = more /\ f.count = p.count /\ f.max = p.max
  BY <1>1, <1>3, <1>4 DEF p
<1>8. \E x \in Seq(D) : f.blocks = e.blocks \o x
  BY <1>5, <1>7
<1>9. f.level = p.level /\ f.units = p.units /\ f.errors = p.errors
  BY <1>3, <1>4
<1>10. Grown(e, f, D)
  BY <1>1, <1>6, <1>7, <1>8, <1>9 DEF Grown, p
<1> QED BY <1>1, <1>7, <1>10 DEF f, p

LEMMA LeafEncoded ==
  ASSUME NEW d \in Nat, NEW n \in Nodes[d], n.kind \in {"variable", "literal", "block"}, NEW D, D \subseteq AnyNode,
         n.kind = "block" => n \in D, NEW e \in Encoders
  PROVE  Result(d, EncodeLeaf(n, e), e, D)
<1> DEFINE loc == e.count + 1
           gen == "leaf"
           r == Placing(n, loc, gen)
           f == IF n.kind = "block" THEN [Push(e) EXCEPT !.blocks = Append(@, n)] ELSE Push(e)
           x == EncodeLeaf(n, e)
<1>1. x.n = r /\ x.e = f
  BY DEF EncodeLeaf, Placing
<1>2. e.count \in Nat /\ loc \in Nat /\ gen \in Gens
  <2>1. e.count \in Nat
    BY EncoderIs
  <2>2. "leaf" \in Gens
    BY DEF Gens
  <2> QED BY <2>1, <2>2
<1>3. Parsed(n) /\ IsCode(n.sub) /\ loc = e.count + 1 /\ gen = "leaf"
  BY NodeIs
<1> HIDE DEF loc, gen, f, x
<1>4. r \in Nodes[d] /\ r.loc = loc /\ r.gen = gen
  <2>1. CASE d = 0
    <3>1. Typed(n, {}) /\ n.kind \in {"variable", "literal"}
      BY <2>1, NodeIs
    <3>2. Typed(r, {}) /\ r.kind = n.kind /\ r.loc = loc /\ r.gen = gen
      BY <1>2, <3>1, TypedPlace
    <3> HIDE DEF r
    <3>3. r \in Nodes[0]
      BY <3>1, <3>2, LeafIn
    <3> QED BY <2>1, <3>2, <3>3
  <2>2. CASE d # 0
    <3>1. Typed(n, Nodes[d - 1])
      BY <2>2, NodeIs
    <3>2. /\ Typed(r, Nodes[d - 1]) /\ r.kind = n.kind /\ r.name = n.name /\ r.sub = n.sub
          /\ r.loc = loc /\ r.gen = gen
      BY <1>2, <3>1, TypedPlace
    <3> HIDE DEF r
    <3>3. Parsed(r)
      BY <1>3, <3>2, StillParsed
    <3> QED BY <2>2, <3>2, <3>3, NodeIn
  <2> QED BY <2>1, <2>2
<1>5. Grown(e, f, D) /\ f.count = e.count + 1 /\ f.max >= e.count + 1
  <2>1. CASE n.kind = "block"
    <3>1. n \in D /\ n \in AnyNode
      BY <2>1
    <3> QED BY <2>1, <3>1, WaitGrows DEF f
  <2>2. CASE n.kind # "block"
    BY <2>2, PushGrows DEF f
  <2> QED BY <2>1, <2>2
<1> HIDE DEF r
<1>6. f.max \in Nat
  BY <1>5, EncoderIs DEF Grown
<1>7. r.loc \in 0 .. f.max /\ r.gen = "leaf"
  BY <1>2, <1>3, <1>4, <1>5, <1>6
<1>8. Fine(d, r, f.max)
  BY <1>4, <1>6, <1>7, LeafFine
<1>10. Result(d, x, e, D)
  BY <1>1, <1>3, <1>4, <1>5, <1>8 DEF Result
<1> QED BY <1>10 DEF x

LEMMA HolderEncoded ==
  ASSUME NEW d \in Nat, d # 0, NEW n \in Nodes[d], n.kind \in {"assign", "return", "localReturn"}, NEW D,
         NEW e \in Encoders, NEW enc, Result(d - 1, enc[<<n.sub[1], e>>], e, D)
  PROVE  Result(d, EncodeHolder(enc, n, e), e, D)
<1> DEFINE x == enc[<<n.sub[1], e>>]
           g == CASE n.kind = "assign"                -> "assign"
                  [] n.kind = "return" /\ e.level > 1 -> "nonlocal"
                  [] OTHER                            -> "return"
           sub == <<x.n>>
           loc == x.n.loc
           r == Parting(n, sub, loc, g)
           z == EncodeHolder(enc, n, e)
<1>1. z.n = r /\ z.e = x.e
  BY DEF EncodeHolder, Parting
<1>2. g \in {"assign", "nonlocal", "return"}
  OBVIOUS
<1>3. Result(d - 1, x, e, D)
  OBVIOUS
<1>4. /\ x.n \in Nodes[d - 1] /\ loc = e.count + 1 /\ Fine(d - 1, x.n, x.e.max) /\ x.e \in Encoders
      /\ e.count \in Nat /\ x.e.max \in Nat /\ x.e.max >= e.count + 1
  BY <1>3, EncoderIs DEF Result, Grown
<1> HIDE DEF x, g, z, loc
<1>5. Typed(n, Nodes[d - 1]) /\ Parsed(n) /\ IsCode(n.sub) /\ Len(n.sub) = 1
  BY NodeIs DEF Parsed
<1>6. sub \in Seq(Nodes[d - 1]) /\ Len(sub) = 1 /\ sub[1] = x.n /\ loc \in Nat /\ g \in Gens
  <2>1. sub \in Seq(Nodes[d - 1]) /\ Len(sub) = 1 /\ sub[1] = x.n
    <3> DEFINE y == x.n
               S == Nodes[d - 1]
    <3>1. y \in S
      BY <1>4
    <3> HIDE DEF y, S
    <3>2. <<y>> \in Seq(S) /\ Len(<<y>>) = 1 /\ <<y>>[1] = y
      BY ONLY <3>1
    <3> QED BY <3>2 DEF y, S
  <2>2. loc \in Nat
    BY <1>4
  <2>3. g \in Gens
    BY <1>2 DEF Gens
  <2> QED BY <2>1, <2>2, <2>3
<1> HIDE DEF sub
<1>7. n.cascades \in Seq(Message(Nodes[d - 1]))
  BY <1>5 DEF Typed
<1>8. /\ Typed(r, Nodes[d - 1]) /\ r.kind = n.kind /\ r.name = n.name
      /\ r.sub = sub /\ r.loc = loc /\ r.gen = g
  BY <1>5, <1>6, <1>7, TypedParts
<1> HIDE DEF r
<1>9. IsCode(r.sub)
  BY <1>6, <1>8 DEF IsCode
<1>10. r \in Nodes[d]
  <2>1. Parsed(r)
    BY <1>5, <1>6, <1>8, <1>9, StillParsed
  <2> QED BY <1>8, <2>1, NodeIn
<1>11. Formed(r)
  <2>1. r.gen \in {"assign", "nonlocal", "return"} /\ Len(r.sub) = 1
    BY <1>2, <1>6, <1>8
  <2> QED BY <2>1 DEF Formed
<1>12. r.loc \in 0 .. x.e.max /\ Placed(r.sub, d - 1, x.e.max)
  <2>1. loc \in 0 .. x.e.max
    BY <1>4
  <2>2. \A i \in 1 .. Len(r.sub) : r.sub[i] = x.n
    <3>1. Len(r.sub) = 1 /\ r.sub[1] = x.n
      BY <1>6, <1>8
    <3>2. \A i \in 1 .. 1 : i = 1
      OBVIOUS
    <3> QED BY <3>1, <3>2
  <2>3. Placed(r.sub, d - 1, x.e.max)
    BY <1>4, <1>9, <2>1, <2>2 DEF Placed, loc
  <2> QED BY <1>8, <2>1, <2>3
<1>13. Fine(d, r, x.e.max)
  BY <1>4, <1>10, <1>11, <1>12, FormFine
<1>14. Result(d, z, e, D)
  BY <1>1, <1>3, <1>4, <1>8, <1>10, <1>13 DEF Result
<1> QED BY <1>14 DEF z

-----------------------------------------------------------------------------
(* A send that remains one: its parts, and those of the cascades.           *)
\* What encoding arguments comes to: all but `left' of them are popped.
ArgumentsResult(d, all, e, l, left, D) ==
    /\ all.n \in Seq(Nodes[d]) /\ Len(all.n) = l
    /\ Grown(e, all.e, D) /\ all.e.count = e.count + left
    /\ \A i \in 1 .. l : all.n[i].loc = e.count + i /\ Settled(all.n[i], all.e, d)

LEMMA ArgumentsEncoded ==
  ASSUME NEW enc, NEW d, NEW D, D \subseteq AnyNode, NEW ns, Len(ns) \in Nat, NEW left \in 0 .. Len(ns),
         NEW e \in Encoders,
         \A i \in 1 .. Len(ns) : \A f \in Encoders : Result(d, enc[<<ns[i], f>>], f, D)
  PROVE  ArgumentsResult(d, EncodeArguments(enc, ns, e, left), e, Len(ns), left, D)
<1> DEFINE l == Len(ns)
           x == EncodeAll(enc, ns, e, l)
           all == EncodeArguments(enc, ns, e, left)
<1>1. AllResult(d, x, e, l, l, D)
  <2>1. l \in 0 .. l
    OBVIOUS
  <2> QED BY <2>1, AllEncoded
<1>2. all = [x EXCEPT !.e = Pop(@, l - left)]
  BY DEF EncodeArguments
<1>3. x = [n |-> x.n, e |-> x.e]
  <2>1. PICK u : /\ x = u[l] /\ u[0] = [n |-> <<>>, e |-> e]
                 /\ \A i \in 1 .. l : u[i] = AfterNode(enc, ns, l, i, u[i - 1])
    <3>1. Len(ns) \in Nat
      OBVIOUS
    <3> QED BY ONLY <3>1, EncodesFolds
  <2>2. l \in Nat
    OBVIOUS
  <2> HIDE DEF x, l
  <2>3. l = 0 \/ l \in 1 .. l
    BY <2>2
  <2>4. \A i, r : AfterNode(enc, ns, l, i, r) = [n |-> AfterNode(enc, ns, l, i, r).n,
                                                e |-> AfterNode(enc, ns, l, i, r).e]
    BY DEF AfterNode
  <2>5. CASE l = 0
    BY <2>1, <2>5
  <2>6. CASE l \in 1 .. l
    <3>1. x = AfterNode(enc, ns, l, l, u[l - 1])
      BY <2>1, <2>6
    <3> QED BY <2>4, <3>1
  <2> QED BY <2>3, <2>5, <2>6
<1> HIDE DEF x, all
<1>4. all.n = x.n /\ all.e = Pop(x.e, l - left)
  BY <1>2, <1>3
<1>5. /\ x.n \in Seq(Nodes[d]) /\ Len(x.n) = l
      /\ Grown(e, x.e, D) /\ x.e.count = e.count + l
      /\ \A i \in 1 .. l : /\ x.n[i].loc = e.count + (IF i <= l - l THEN 1 ELSE i - (l - l))
                           /\ Settled(x.n[i], x.e, d)
  BY <1>1 DEF AllResult
<1>6. x.e \in Encoders /\ e.count \in Nat
  BY <1>5, EncoderIs DEF Grown
<1>7. l - left \in Nat /\ l - left <= x.e.count /\ x.e.count - (l - left) = e.count + left
  <2>1. l \in Nat /\ left \in 0 .. l /\ x.e.count = e.count + l
    BY <1>5
  <2> HIDE DEF l
  <2> QED BY <1>6, <2>1
<1>8. Grown(x.e, all.e, D) /\ all.e.count = e.count + left
  BY <1>4, <1>6, <1>7, PopGrows
<1>9. Grown(e, all.e, D)
  BY <1>5, <1>8, GrownOn
<1>10. \A i \in 1 .. l : (IF i <= l - l THEN 1 ELSE i - (l - l)) = i
  OBVIOUS
<1>11. \A i \in 1 .. l : all.n[i].loc = e.count + i /\ Settled(all.n[i], all.e, d)
  BY <1>4, <1>5, <1>8, <1>10, SettledStill
<1> QED BY <1>4, <1>5, <1>8, <1>9, <1>11 DEF all, ArgumentsResult

AfterCascade(enc, cs, i, r) ==
    LET x == EncodeArguments(enc, cs[i].sub, r.e, 0)
    IN  [n |-> Append(r.n, Cascaded(cs[i].name, x.n)), e |-> x.e]
Cascades(t, n, enc, cs, s) ==
    t = [i \in 0 .. n |-> IF i = 0 THEN s ELSE AfterCascade(enc, cs, i, t[i - 1])]
LEMMA CascadesMade ==
  ASSUME NEW n \in Nat, NEW enc, NEW cs, NEW s
  PROVE  \E t : Cascades(t, n, enc, cs, s)
<1> DEFINE Shown == {m \in Nat : \E t : Cascades(t, m, enc, cs, s)}
<1>1. 0 \in Shown
  <2> DEFINE t == [i \in 0 .. 0 |-> s]
  <2>1. t = [i \in 0 .. 0 |-> IF i = 0 THEN s ELSE AfterCascade(enc, cs, i, t[i - 1])]
    OBVIOUS
  <2>2. Cascades(t, 0, enc, cs, s)
    BY <2>1 DEF Cascades
  <2> QED BY <2>2
<1>2. ASSUME NEW m \in Nat, m \in Shown PROVE m + 1 \in Shown
  <2>1. PICK g : Cascades(g, m, enc, cs, s)
    BY <1>2
  <2> DEFINE t == [i \in 0 .. m + 1 |-> IF i = m + 1 THEN AfterCascade(enc, cs, m + 1, g[m]) ELSE g[i]]
  <2>2. t = [i \in 0 .. m + 1 |-> t[i]]
    OBVIOUS
  <2>3. t[m + 1] = AfterCascade(enc, cs, m + 1, g[m]) /\ \A i \in 0 .. m : t[i] = g[i]
    OBVIOUS
  <2> HIDE DEF t
  <2>4. ASSUME NEW i \in 0 .. m + 1
        PROVE  t[i] = IF i = 0 THEN s ELSE AfterCascade(enc, cs, i, t[i - 1])
    <3>1. CASE i = m + 1
      <4>1. m \in 0 .. m /\ i - 1 = m /\ i # 0
        BY <3>1
      <4> QED BY <2>3, <3>1, <4>1
    <3>2. CASE i # m + 1
      <4>1. i \in 0 .. m /\ (i # 0 => i - 1 \in 0 .. m)
        BY <3>2
      <4>2. g[i] = IF i = 0 THEN s ELSE AfterCascade(enc, cs, i, g[i - 1])
        BY <2>1, <4>1 DEF Cascades
      <4> QED BY <2>3, <4>1, <4>2
    <3> QED BY <3>1, <3>2
  <2>5. Cascades(t, m + 1, enc, cs, s)
    BY <2>2, <2>4 DEF Cascades
  <2> QED BY <2>5
<1> HIDE DEF Shown
<1>3. n \in Shown
  BY <1>1, <1>2, Upward
<1> QED BY <1>3 DEF Shown

LEMMA CascadesFolds ==
  ASSUME NEW enc, NEW cs, NEW e, Len(cs) \in Nat
  PROVE  \E u : /\ EncodeCascades(enc, cs, e) = u[Len(cs)] /\ u[0] = [n |-> <<>>, e |-> e]
               /\ \A i \in 1 .. Len(cs) : u[i] = AfterCascade(enc, cs, i, u[i - 1])
<1> DEFINE n == Len(cs)
           s == [n |-> <<>>, e |-> e]
<1>1. n \in Nat
  OBVIOUS
<1>2. EncodeCascades(enc, cs, e) = (CHOOSE t : Cascades(t, n, enc, cs, s))[n]
  BY DEF EncodeCascades, AfterCascade, Cascades
<1> HIDE DEF n, s
<1>3. PICK u : Cascades(u, n, enc, cs, s) /\ EncodeCascades(enc, cs, e) = u[n]
  BY <1>1, <1>2, CascadesMade
<1>4. u[0] = s /\ \A i \in 1 .. n : u[i] = AfterCascade(enc, cs, i, u[i - 1])
  <2>1. 0 \in 0 .. n /\ \A i \in 1 .. n : i \in 0 .. n /\ i # 0
    BY <1>1
  <2> QED BY <1>3, <2>1 DEF Cascades
<1> QED BY <1>3, <1>4 DEF n, s

MessageDone(n, f, d) == n.sub \in Seq(Nodes[d]) /\ \A i \in 1 .. Len(n.sub) : Settled(n.sub[i], f, d)

LEMMA CascadesEncoded ==
  ASSUME NEW enc, NEW d, NEW D, D \subseteq AnyNode, NEW cs, Len(cs) \in Nat, NEW e \in Encoders,
         \A i \in 1 .. Len(cs) :
            /\ cs[i].name \in Names /\ Len(cs[i].sub) \in Nat
            /\ \A j \in 1 .. Len(cs[i].sub) : \A f \in Encoders : Result(d, enc[<<cs[i].sub[j], f>>], f, D)
  PROVE  LET more == EncodeCascades(enc, cs, e)
         IN  /\ more.n \in Seq(Message(Nodes[d])) /\ Len(more.n) = Len(cs)
             /\ Grown(e, more.e, D) /\ more.e.count = e.count
             /\ \A i \in 1 .. Len(cs) : MessageDone(more.n[i], more.e, d)
<1> DEFINE l == Len(cs)
           start == [n |-> <<>>, e |-> e]
<1>1. PICK u : /\ EncodeCascades(enc, cs, e) = u[l] /\ u[0] = start
               /\ \A i \in 1 .. l : u[i] = AfterCascade(enc, cs, i, u[i - 1])
  <2>1. Len(cs) \in Nat
    OBVIOUS
  <2> QED BY ONLY <2>1, CascadesFolds
<1> DEFINE S == Message(Nodes[d])
           Fit(r, i) == /\ r.n \in Seq(S) /\ Len(r.n) = i
                        /\ Grown(e, r.e, D) /\ r.e.count = e.count
                        /\ \A h \in 1 .. i : MessageDone(r.n[h], r.e, d)
<1>2. l \in Nat
  OBVIOUS
<1>3. Fit(start, 0)
  <2>1. start.n = <<>> /\ start.e = e /\ Len(<<>>) = 0 /\ <<>> \in Seq(S) /\ 1 .. 0 = {}
    OBVIOUS
  <2> HIDE DEF start
  <2> QED BY <2>1, GrownSame
<1>4. ASSUME NEW i \in 1 .. l, NEW r, Fit(r, i - 1) PROVE Fit(AfterCascade(enc, cs, i, r), i)
  <2> DEFINE ns == cs[i].sub
             x == EncodeArguments(enc, ns, r.e, 0)
             m == Cascaded(cs[i].name, x.n)
             z == AfterCascade(enc, cs, i, r)
  <2>1. i - 1 \in Nat /\ (i - 1) + 1 = i /\ i \in Nat
    BY <1>2
  <2>2. /\ r.n \in Seq(S) /\ Len(r.n) = i - 1 /\ Grown(e, r.e, D) /\ r.e.count = e.count
        /\ \A h \in 1 .. i - 1 : MessageDone(r.n[h], r.e, d)
    BY <1>4
  <2>3. r.e \in Encoders /\ r.e.count \in Nat
    BY <2>2, EncoderIs DEF Grown
  <2>4. /\ Len(ns) \in Nat /\ 0 \in 0 .. Len(ns) /\ cs[i].name \in Names
        /\ \A j \in 1 .. Len(ns) : \A f \in Encoders : Result(d, enc[<<ns[j], f>>], f, D)
    OBVIOUS
  <2>5. z.n = Append(r.n, m) /\ z.e = x.e
    BY DEF AfterCascade
  <2>6. m = [name |-> cs[i].name, sub |-> x.n]
    BY DEF Cascaded
  <2> HIDE DEF ns, S, Fit
  <2>7. /\ x.n \in Seq(Nodes[d]) /\ Len(x.n) = Len(ns) /\ Grown(r.e, x.e, D) /\ x.e.count = r.e.count + 0
        /\ \A j \in 1 .. Len(ns) : Settled(x.n[j], x.e, d)
    <3>1. ArgumentsResult(d, x, r.e, Len(ns), 0, D)
      BY <2>3, <2>4, ArgumentsEncoded
    <3> QED BY <3>1 DEF ArgumentsResult
  <2> HIDE DEF x, m, z
  <2>8. m \in S /\ m.sub = x.n
    BY <2>4, <2>6, <2>7 DEF S, Message
  <2>9. MessageDone(m, x.e, d)
    BY <2>7, <2>8 DEF MessageDone
  <2>10. Grown(e, x.e, D) /\ x.e.count = e.count
    BY <2>2, <2>3, <2>7, GrownOn
  <2>11. /\ z.n \in Seq(S) /\ Len(z.n) = i /\ z.n[i] = m
         /\ \A h \in 1 .. i - 1 : z.n[h] = r.n[h]
    <3> DEFINE s == r.n
    <3>1. s \in Seq(S) /\ Len(s) = i - 1 /\ m \in S /\ i \in Nat
      BY <2>1, <2>2, <2>8
    <3> HIDE DEF s
    <3>2. /\ Append(s, m) \in Seq(S) /\ Len(Append(s, m)) = i /\ Append(s, m)[i] = m
          /\ \A h \in 1 .. i - 1 : Append(s, m)[h] = s[h]
      BY ONLY <3>1, SeqAppends
    <3> QED BY <2>5, <3>2 DEF s
  <2>12. ASSUME NEW h \in 1 .. i PROVE MessageDone(z.n[h], z.e, d)
    <3>1. CASE h = i
      BY <2>5, <2>9, <2>11, <3>1
    <3>2. CASE h # i
      <4>1. h \in 1 .. i - 1
        BY <2>1, <3>2
      <4>2. MessageDone(r.n[h], r.e, d) /\ z.n[h] = r.n[h]
        BY <2>2, <2>11, <4>1
      <4> QED BY <2>5, <2>7, <4>2, SettledStill DEF MessageDone
    <3> QED BY <3>1, <3>2
  <2>13. Fit(z, i)
    BY <2>5, <2>10, <2>11, <2>12 DEF Fit
  <2> QED BY <2>13 DEF z
<1> HIDE DEF Fit, start
<1>5. \A i \in 1 .. l : Fit(u[i - 1], i - 1) => Fit(u[i], i)
  BY <1>1, <1>4
<1> DEFINE Good == {i \in 0 .. l : Fit(u[i], i)}
<1>6. 0 \in Good
  BY <1>1, <1>2, <1>3
<1>7. \A i \in 1 .. l : i - 1 \in Good => i \in Good
  BY <1>2, <1>5
<1> HIDE DEF Good
<1>8. l \in Good
  BY <1>2, <1>6, <1>7, UpTo
<1>9. Fit(u[l], l)
  BY <1>8 DEF Good
<1> QED BY <1>1, <1>9 DEF Fit

LEMMA SentEncoded ==
  ASSUME NEW d \in Nat, d # 0, NEW n \in Nodes[d], n.kind = "send", NEW D, D \subseteq AnyNode,
         NEW e \in Encoders, NEW enc,
         \A p \in Nodes[d - 1] : \A f \in Encoders : Result(d - 1, enc[<<p, f>>], f, D)
  PROVE  Result(d, EncodeSent(enc, n, e), e, D)
<1> DEFINE parts == EncodeArguments(enc, n.sub, e, 1)
           more == EncodeCascades(enc, n.cascades, parts.e)
           loc == parts.n[1].loc
           r == Filling(n, parts.n, more.n, loc, "send")
           x == EncodeSent(enc, n, e)
           S == Nodes[d - 1]
<1>1. x.n = r /\ x.e = more.e
  BY DEF EncodeSent, Filling
<1>2. /\ Typed(n, S) /\ Parsed(n) /\ n.sub \in Seq(S) /\ n.cascades \in Seq(Message(S)) /\ n.sub # <<>>
      /\ IsCode(n.sub)
  BY NodeIs DEF Parsed, Typed
<1>3. Len(n.sub) \in Nat /\ 1 \in 0 .. Len(n.sub) /\ 1 \in 1 .. Len(n.sub)
      /\ \A i \in 1 .. Len(n.sub) : n.sub[i] \in S
  <2> DEFINE s == n.sub
  <2>1. s \in Seq(S) /\ s # <<>>
    BY <1>2
  <2> HIDE DEF s, S
  <2>2. Len(s) \in Nat /\ 1 \in 0 .. Len(s) /\ 1 \in 1 .. Len(s) /\ \A i \in 1 .. Len(s) : s[i] \in S
    BY <2>1
  <2> QED BY <2>2 DEF s
<1>4. \A i \in 1 .. Len(n.sub) : \A f \in Encoders : Result(d - 1, enc[<<n.sub[i], f>>], f, D)
  BY <1>3
<1>5. /\ parts.n \in Seq(S) /\ Len(parts.n) = Len(n.sub) /\ Grown(e, parts.e, D) /\ parts.e.count = e.count + 1
      /\ \A i \in 1 .. Len(n.sub) : parts.n[i].loc = e.count + i /\ Settled(parts.n[i], parts.e, d - 1)
  <2>1. ArgumentsResult(d - 1, parts, e, Len(n.sub), 1, D)
    BY <1>3, <1>4, ArgumentsEncoded
  <2> QED BY <2>1 DEF ArgumentsResult
<1>6. /\ Len(n.cascades) \in Nat
      /\ \A i \in 1 .. Len(n.cascades) :
            /\ n.cascades[i].name \in Names /\ Len(n.cascades[i].sub) \in Nat
            /\ \A j \in 1 .. Len(n.cascades[i].sub) : \A f \in Encoders :
                  Result(d - 1, enc[<<n.cascades[i].sub[j], f>>], f, D)
  <2> DEFINE cs == n.cascades
  <2>1. cs \in Seq(Message(S))
    BY <1>2
  <2> HIDE DEF cs, S
  <2>2. Len(cs) \in Nat /\ \A i \in 1 .. Len(cs) : cs[i] \in Message(S)
    BY <2>1
  <2>3. \A q \in Message(S) : q.name \in Names /\ Len(q.sub) \in Nat /\ \A j \in 1 .. Len(q.sub) : q.sub[j] \in S
    BY DEF Message
  <2> QED BY <2>2, <2>3 DEF cs, S
<1> HIDE DEF parts
<1>7. parts.e \in Encoders /\ e.count \in Nat
  BY <1>5, EncoderIs DEF Grown
<1>8. /\ more.n \in Seq(Message(S)) /\ Len(more.n) = Len(n.cascades)
      /\ Grown(parts.e, more.e, D) /\ more.e.count = parts.e.count
      /\ \A i \in 1 .. Len(n.cascades) : MessageDone(more.n[i], more.e, d - 1)
  BY <1>6, <1>7, CascadesEncoded
<1> HIDE DEF more, x
<1>9. Grown(e, more.e, D) /\ more.e.count = e.count + 1 /\ more.e.max \in Nat
  <2>1. Grown(e, more.e, D)
    BY <1>5, <1>8, GrownOn
  <2> QED BY <1>5, <1>8, <2>1, EncoderIs DEF Grown
<1>10. \A i \in 1 .. Len(n.sub) : Settled(parts.n[i], more.e, d - 1)
  BY <1>5, <1>8, SettledStill
<1>11. loc = e.count + 1 /\ loc \in Nat /\ more.e.max >= e.count + 1 /\ "send" \in Gens
  <2>1. loc = e.count + 1 /\ loc \in 0 .. more.e.max
    BY <1>3, <1>5, <1>10 DEF Settled
  <2>2. "send" \in Gens
    BY DEF Gens, Forms
  <2> QED BY <1>7, <1>9, <2>1, <2>2
<1> HIDE DEF loc
<1>12. /\ Typed(r, S) /\ r.kind = n.kind /\ r.name = n.name /\ r.sub = parts.n /\ r.cascades = more.n
       /\ r.loc = loc /\ r.gen = "send"
  <2> DEFINE ps == parts.n
             cs == more.n
             gen == "send"
  <2>1. ps \in Seq(S) /\ cs \in Seq(Message(S)) /\ loc \in Nat /\ gen \in Gens /\ Typed(n, S)
    BY <1>2, <1>5, <1>8, <1>11
  <2> HIDE DEF ps, cs, gen, S
  <2>2. LET q == Filling(n, ps, cs, loc, gen)
        IN  /\ Typed(q, S) /\ q.kind = n.kind /\ q.name = n.name /\ q.value = n.value
            /\ q.sub = ps /\ q.cascades = cs /\ q.loc = loc /\ q.gen = gen
    BY <2>1, TypedSame
  <2> QED BY <2>2 DEF ps, cs, gen
<1> HIDE DEF r, S
<1>13. IsCode(r.sub) /\ IsCode(r.cascades) /\ Len(r.sub) = Len(n.sub) /\ r.sub # <<>>
  <2>1. IsCode(r.sub) /\ IsCode(r.cascades) /\ Len(r.sub) = Len(n.sub)
    BY <1>5, <1>8, <1>12 DEF IsCode
  <2>2. Len(r.sub) # 0 /\ Len(<<>>) = 0
    BY <1>3, <2>1
  <2> QED BY <2>1, <2>2
<1>14. r \in Nodes[d]
  <2>1. Parsed(r)
    BY <1>2, <1>12, <1>13, StillParsed
  <2> QED BY <1>12, <2>1, NodeIn DEF S
<1>15. Placed(r.sub, d - 1, more.e.max)
  BY <1>10, <1>12, <1>13 DEF Placed, Settled
<1>16. ASSUME NEW j \in 1 .. Len(r.cascades) PROVE Placed(r.cascades[j].sub, d - 1, more.e.max)
  <2>1. MessageDone(r.cascades[j], more.e, d - 1)
    BY <1>8, <1>12
  <2> QED BY <2>1 DEF MessageDone, Settled, Placed, IsCode
<1>17. Fine(d, r, more.e.max)
  BY <1>9, <1>12, <1>13, <1>14, <1>15, <1>16, SentFine
<1>18. Result(d, x, e, D)
  BY <1>1, <1>9, <1>11, <1>12, <1>14, <1>17 DEF Result
<1> QED BY <1>18 DEF x

-----------------------------------------------------------------------------
(* Blocks compiled in line.                                                 *)
LEMMA VariableIn ==
  ASSUME NEW x \in Names, NEW d \in Nat
  PROVE  Var(x) \in Nodes[d] /\ Var(x).kind = "variable"
<1> DEFINE v == Var(x)
<1>1. v = [kind |-> "variable", name |-> x, value |-> 0, sub |-> <<>>, cascades |-> <<>>, loc |-> 0,
           gen |-> "send"]
  BY DEF Var, Node
<1>2. "variable" \in Kinds /\ "send" \in Gens /\ \A X : <<>> \in Seq(X)
  BY DEF Kinds, Gens, Forms
<1> HIDE DEF v
<1>3. Typed(v, {}) /\ v.kind = "variable"
  BY <1>1, <1>2 DEF Typed
<1>4. v \in Nodes[0]
  BY <1>3, LeafIn
<1>5. 0 \in 0 .. d
  OBVIOUS
<1>6. v \in Nodes[d]
  BY <1>4, <1>5, NodesGrow
<1> QED BY <1>3, <1>6 DEF v

LEMMA StatementsIn ==
  ASSUME NEW d \in Nat, d # 0, NEW b \in Nodes[d]
  PROVE  /\ Statements(b) \in Seq(Nodes[d - 1]) /\ Len(Statements(b)) \in Nat /\ Len(Statements(b)) >= 1
         /\ \A i \in 1 .. Len(Statements(b)) : Statements(b)[i] \in Nodes[d - 1]
<1> DEFINE S == Nodes[d - 1]
           v == Var("nil")
           s == b.sub
           all == Statements(b)
<1>1. s \in Seq(S)
  BY NodeIs DEF Typed
<1>2. v \in S
  <2>1. "nil" \in Names /\ d - 1 \in Nat
    BY MethodsAssumption
  <2> QED BY <2>1, VariableIn
<1>3. all = IF s = <<>> THEN <<v>> ELSE s
  BY DEF Statements
<1> HIDE DEF S, v, s, all
<1>4. all \in Seq(S) /\ all # <<>>
  <2>1. <<v>> \in Seq(S) /\ <<v>> # <<>>
    BY ONLY <1>2
  <2> QED BY <1>1, <1>3, <2>1
<1>5. Len(all) \in Nat /\ Len(all) >= 1 /\ \A i \in 1 .. Len(all) : all[i] \in S
  BY ONLY <1>4
<1> QED BY <1>4, <1>5 DEF S, all

LEMMA OpenEncoded ==
  ASSUME NEW d \in Nat, d # 0, NEW b \in Nodes[d], b.kind = "block", NEW D, D \subseteq AnyNode,
         NEW e \in Encoders, NEW enc,
         \A p \in Nodes[d - 1] : \A f \in Encoders : Result(d - 1, enc[<<p, f>>], f, D)
  PROVE  Result(d, EncodeOpen(enc, b, e), e, D)
<1> DEFINE stmts == Statements(b)
           all == EncodeAll(enc, stmts, e, 1)
           l == Len(stmts)
           loc == Last(all.n).loc
           r == Parting(b, all.n, loc, "open")
           x == EncodeOpen(enc, b, e)
           S == Nodes[d - 1]
<1>1. x.n = r /\ x.e = all.e
  BY DEF EncodeOpen, Parting
<1>2. l \in Nat /\ l >= 1 /\ \A i \in 1 .. l : stmts[i] \in S
  BY StatementsIn
<1>3. \A i \in 1 .. l : \A f \in Encoders : Result(d - 1, enc[<<stmts[i], f>>], f, D)
  BY <1>2
<1> HIDE DEF stmts
<1>4. AllResult(d - 1, all, e, l, 1, D)
  <2>1. 1 \in 0 .. l
    BY <1>2
  <2> QED BY <1>2, <1>3, <2>1, AllEncoded
<1> HIDE DEF all, x
<1>5. /\ all.n \in Seq(S) /\ Len(all.n) = l /\ Grown(e, all.e, D) /\ all.e.count = e.count + 1
      /\ \A i \in 1 .. l : Settled(all.n[i], all.e, d - 1)
  BY <1>4 DEF AllResult
<1>6. e.count \in Nat /\ all.e.max \in Nat
  BY <1>5, EncoderIs DEF Grown
<1>7. loc = e.count + 1 /\ loc \in 0 .. all.e.max
  <2>1. l \in 1 .. l /\ l - (l - 1) = 1 /\ ~(l <= l - 1)
    BY <1>2
  <2>2. loc = all.n[l].loc
    BY <1>5 DEF Last
  <2>3. all.n[l].loc = e.count + 1
    BY <1>4, <2>1 DEF AllResult
  <2> QED BY <1>5, <2>1, <2>2, <2>3 DEF Settled
<1> HIDE DEF loc, l
<1>8. Typed(b, S) /\ b.cascades \in Seq(Message(S))
  BY NodeIs DEF Typed
<1>9. Typed(r, S) /\ r.kind = "block" /\ r.sub = all.n /\ r.loc = loc /\ r.gen = "open"
  <2> DEFINE ps == all.n
             gen == "open"
  <2>1. ps \in Seq(S) /\ loc \in Nat /\ gen \in Gens /\ Typed(b, S) /\ b.cascades \in Seq(Message(S))
    BY <1>5, <1>7, <1>8 DEF Gens
  <2> HIDE DEF ps, gen, S, r
  <2> DEFINE q == Parting(b, ps, loc, gen)
  <2>2. /\ Typed(q, S) /\ q.kind = b.kind /\ q.name = b.name
        /\ q.sub = ps /\ q.loc = loc /\ q.gen = gen
    BY <2>1, TypedParts
  <2> QED BY <1>5, <2>2 DEF ps, gen, r
<1> HIDE DEF r, S
<1>10. r \in Nodes[d]
  <2>1. Parsed(r)
    BY <1>9 DEF Parsed
  <2> QED BY <1>9, <2>1, NodeIn DEF S
<1>11. Formed(r)
  BY <1>9 DEF Formed
<1>12. Placed(r.sub, d - 1, all.e.max)
  BY <1>5, <1>9 DEF Placed, Settled, IsCode
<1>13. Fine(d, r, all.e.max)
  BY <1>6, <1>7, <1>9, <1>10, <1>11, <1>12, FormFine
<1>14. all.e.max >= e.count + 1
  BY <1>6, <1>7
<1>15. Result(d, x, e, D)
  BY <1>1, <1>5, <1>7, <1>9, <1>10, <1>13, <1>14 DEF Result
<1> QED BY <1>15 DEF x

-----------------------------------------------------------------------------
(* The parts of a send that is opened out, one step after another.          *)
Opening(t, n, enc, form, s) ==
    t = [i \in 0 .. n |-> IF i = 0 THEN s ELSE EncodeStep(enc, form, Order(form)[i], t[i - 1])]
LEMMA OpeningMade ==
  ASSUME NEW n \in Nat, NEW enc, NEW form, NEW s
  PROVE  \E t : Opening(t, n, enc, form, s)
<1> DEFINE Shown == {m \in Nat : \E t : Opening(t, m, enc, form, s)}
<1>1. 0 \in Shown
  <2> DEFINE t == [i \in 0 .. 0 |-> s]
  <2>1. t = [i \in 0 .. 0 |-> IF i = 0 THEN s ELSE EncodeStep(enc, form, Order(form)[i], t[i - 1])]
    OBVIOUS
  <2>2. Opening(t, 0, enc, form, s)
    BY <2>1 DEF Opening
  <2> QED BY <2>2
<1>2. ASSUME NEW m \in Nat, m \in Shown PROVE m + 1 \in Shown
  <2>1. PICK g : Opening(g, m, enc, form, s)
    BY <1>2
  <2> DEFINE t == [i \in 0 .. m + 1 |-> IF i = m + 1 THEN EncodeStep(enc, form, Order(form)[m + 1], g[m]) ELSE g[i]]
  <2>2. t = [i \in 0 .. m + 1 |-> t[i]]
    OBVIOUS
  <2>3. t[m + 1] = EncodeStep(enc, form, Order(form)[m + 1], g[m]) /\ \A i \in 0 .. m : t[i] = g[i]
    OBVIOUS
  <2> HIDE DEF t
  <2>4. ASSUME NEW i \in 0 .. m + 1
        PROVE  t[i] = IF i = 0 THEN s ELSE EncodeStep(enc, form, Order(form)[i], t[i - 1])
    <3>1. CASE i = m + 1
      <4>1. m \in 0 .. m /\ i - 1 = m /\ i # 0
        BY <3>1
      <4> QED BY <2>3, <3>1, <4>1
    <3>2. CASE i # m + 1
      <4>1. i \in 0 .. m /\ (i # 0 => i - 1 \in 0 .. m)
        BY <3>2
      <4>2. g[i] = IF i = 0 THEN s ELSE EncodeStep(enc, form, Order(form)[i], g[i - 1])
        BY <2>1, <4>1 DEF Opening
      <4> QED BY <2>3, <4>1, <4>2
    <3> QED BY <3>1, <3>2
  <2>5. Opening(t, m + 1, enc, form, s)
    BY <2>2, <2>4 DEF Opening
  <2> QED BY <2>5
<1> HIDE DEF Shown
<1>3. n \in Shown
  BY <1>1, <1>2, Upward
<1> QED BY <1>3 DEF Shown

LEMMA OpeningFolds ==
  ASSUME NEW enc, NEW form, NEW w, NEW e, Len(Order(form)) \in Nat
  PROVE  \E u : /\ EncodeParts(enc, w, e, form) = u[Len(Order(form))] /\ u[0] = [n |-> w, e |-> e]
               /\ \A i \in 1 .. Len(Order(form)) : u[i] = EncodeStep(enc, form, Order(form)[i], u[i - 1])
<1> DEFINE n == Len(Order(form))
           s == [n |-> w, e |-> e]
<1>1. n \in Nat
  OBVIOUS
<1>2. EncodeParts(enc, w, e, form) = (CHOOSE t : Opening(t, n, enc, form, s))[n]
  BY DEF EncodeParts, Opening
<1> HIDE DEF n, s
<1>3. PICK u : Opening(u, n, enc, form, s) /\ EncodeParts(enc, w, e, form) = u[n]
  BY <1>1, <1>2, OpeningMade
<1>4. u[0] = s /\ \A i \in 1 .. n : u[i] = EncodeStep(enc, form, Order(form)[i], u[i - 1])
  <2>1. 0 \in 0 .. n /\ \A i \in 1 .. n : i \in 0 .. n /\ i # 0
    BY <1>1
  <2> QED BY <1>3, <2>1 DEF Opening
<1> QED BY <1>3, <1>4 DEF n, s

\* enc encodes the nodes of d levels as it should.
Handles(enc, d, D) == \A p \in Nodes[d] : \A f \in Encoders : Result(d, enc[<<p, f>>], f, D)

\* c variables are in use besides; the parts whose number in a, b, c is not 0
\* are encoded and their values are that many variables up.
Up(a, b, c, i) == IF i = 1 THEN a ELSE IF i = 2 THEN b ELSE c
Stage(r, n, e, d, D, u, a, b, c) ==
    /\ Typed(r.n, Nodes[d]) /\ r.n.kind = n.kind /\ r.n.name = n.name /\ Len(r.n.sub) = Len(n.sub)
    /\ r = [n |-> r.n, e |-> r.e] /\ Grown(e, r.e, D) /\ r.e.count = e.count + u
    /\ \A i \in 1 .. Len(n.sub) :
          /\ Up(a, b, c, i) = 0 => r.n.sub[i] = n.sub[i]
          /\ Up(a, b, c, i) # 0 => r.n.sub[i].loc = e.count + Up(a, b, c, i) /\ Settled(r.n.sub[i], r.e, d)

LEMMA StageOn ==
  ASSUME NEW r, NEW n, NEW e, NEW d, NEW D, D \subseteq AnyNode, NEW u, NEW a, NEW b, NEW c,
         Stage(r, n, e, d, D, u, a, b, c), NEW f, Grown(r.e, f, D), NEW v, f.count = e.count + v
  PROVE  Stage([n |-> r.n, e |-> f], n, e, d, D, v, a, b, c)
<1> DEFINE z == [n |-> r.n, e |-> f]
<1>1. z.n = r.n /\ z.e = f /\ z = [n |-> z.n, e |-> z.e]
  OBVIOUS
<1> HIDE DEF z
<1>2. Grown(e, r.e, D)
  BY DEF Stage
<1>3. Grown(e, z.e, D)
  BY <1>1, <1>2, GrownOn
<1>4. \A x : Settled(x, r.e, d) => Settled(x, z.e, d)
  BY <1>1, SettledStill
<1>5. Stage(z, n, e, d, D, v, a, b, c)
  BY <1>1, <1>3, <1>4 DEF Stage
<1> QED BY <1>5 DEF z

LEMMA StageEncoder ==
  ASSUME NEW r, NEW n, NEW e, NEW d, NEW D, NEW u, NEW a, NEW b, NEW c, Stage(r, n, e, d, D, u, a, b, c)
  PROVE  r.e \in Encoders /\ e \in Encoders /\ e.count \in Nat /\ r.e.count = e.count + u
<1>1. r.e \in Encoders /\ e \in Encoders /\ r.e.count = e.count + u
  BY DEF Stage, Grown
<1> QED BY <1>1, EncoderIs

LEMMA StagePush ==
  ASSUME NEW r, NEW n, NEW e, NEW d, NEW D, D \subseteq AnyNode, NEW u \in Nat, NEW a, NEW b, NEW c,
         Stage(r, n, e, d, D, u, a, b, c), NEW enc, NEW form, NEW v, v = u + 1
  PROVE  Stage(EncodeStep(enc, form, PUSH, r), n, e, d, D, v, a, b, c)
<1>1. r.e \in Encoders /\ e.count \in Nat /\ r.e.count = e.count + u
  BY StageEncoder
<1> DEFINE f == Push(r.e)
<1>2. EncodeStep(enc, form, PUSH, r) = [n |-> r.n, e |-> f]
  <2>1. EncodeStep(enc, form, PUSH, r) = [r EXCEPT !.e = f]
    BY DEF EncodeStep, PUSH, POP
  <2> HIDE DEF f
  <2>2. r = [n |-> r.n, e |-> r.e]
    BY DEF Stage
  <2>3. \A x, y, w : [[n |-> x, e |-> y] EXCEPT !.e = w] = [n |-> x, e |-> w]
    OBVIOUS
  <2> QED BY <2>1, <2>2, <2>3
<1>3. Grown(r.e, f, D) /\ f.count = r.e.count + 1
  BY <1>1, PushGrows
<1> HIDE DEF f
<1>4. f.count = e.count + v
  BY <1>1, <1>3
<1>5. Stage([n |-> r.n, e |-> f], n, e, d, D, v, a, b, c)
  BY <1>3, <1>4, StageOn
<1> QED BY <1>2, <1>5

LEMMA StagePop ==
  ASSUME NEW r, NEW n, NEW e, NEW d, NEW D, D \subseteq AnyNode, NEW u \in Nat, u >= 1, NEW a, NEW b, NEW c,
         Stage(r, n, e, d, D, u, a, b, c), NEW enc, NEW form, NEW v, v = u - 1
  PROVE  Stage(EncodeStep(enc, form, POP, r), n, e, d, D, v, a, b, c)
<1>1. r.e \in Encoders /\ e.count \in Nat /\ r.e.count = e.count + u
  BY StageEncoder
<1> DEFINE f == Pop(r.e, 1)
<1>2. EncodeStep(enc, form, POP, r) = [n |-> r.n, e |-> f]
  <2>1. EncodeStep(enc, form, POP, r) = [r EXCEPT !.e = f]
    BY DEF EncodeStep, PUSH, POP
  <2> HIDE DEF f
  <2>2. r = [n |-> r.n, e |-> r.e]
    BY DEF Stage
  <2>3. \A x, y, w : [[n |-> x, e |-> y] EXCEPT !.e = w] = [n |-> x, e |-> w]
    OBVIOUS
  <2> QED BY <2>1, <2>2, <2>3
<1>3. Grown(r.e, f, D) /\ f.count = r.e.count - 1
  <2>1. 1 \in Nat /\ 1 <= r.e.count
    BY <1>1
  <2> QED BY <1>1, <2>1, PopGrows
<1> HIDE DEF f
<1>4. f.count = e.count + v
  BY <1>1, <1>3
<1>5. Stage([n |-> r.n, e |-> f], n, e, d, D, v, a, b, c)
  BY <1>3, <1>4, StageOn
<1> QED BY <1>2, <1>5

LEMMA StagePart ==
  ASSUME NEW r, NEW d \in Nat, NEW n, Typed(n, Nodes[d]), NEW e, NEW D, D \subseteq AnyNode, NEW u \in Nat,
         NEW a, NEW b, NEW c, Stage(r, n, e, d, D, u, a, b, c), NEW enc, NEW form,
         NEW i \in 1 .. Len(n.sub), Up(a, b, c, i) = 0, i \in InLine(form) => n.sub[i].kind = "block",
         Handles(enc, d, D), d # 0 => Handles(enc, d - 1, D), NEW aa, NEW bb, NEW cc,
         NEW v, v = u + 1, \A j \in 1 .. Len(n.sub) : Up(aa, bb, cc, j) = IF j = i THEN v ELSE Up(a, b, c, j)
  PROVE  Stage(EncodeStep(enc, form, i, r), n, e, d, D, v, aa, bb, cc)
<1> DEFINE part == n.sub[i]
           x == IF i \in InLine(form) THEN EncodeOpen(enc, part, r.e) ELSE enc[<<part, r.e>>]
           y == x.n
           S == Nodes[d]
           w == Changing(r.n, i, y)
           z == [n |-> w, e |-> x.e]
<1>1. r.e \in Encoders /\ e.count \in Nat /\ r.e.count = e.count + u
  BY StageEncoder
<1>2. Len(n.sub) \in Nat /\ part \in S /\ i \in Nat /\ i # 0 /\ i # -1
  <2> DEFINE s == n.sub
  <2>1. s \in Seq(S)
    BY DEF Typed
  <2> HIDE DEF s, S
  <2>2. Len(s) \in Nat /\ \A j \in 1 .. Len(s) : s[j] \in S
    BY <2>1
  <2>3. i \in 1 .. Len(s)
    BY DEF s
  <2>4. s[i] \in S /\ i \in Nat /\ i # 0 /\ i # -1
    BY <2>2, <2>3
  <2> QED BY <2>2, <2>4 DEF s
<1>3. r.n.sub[i] = part /\ Typed(r.n, S) /\ Len(r.n.sub) = Len(n.sub)
  BY DEF Stage
<1>4. EncodeStep(enc, form, i, r) = z
  BY <1>2, <1>3 DEF EncodeStep, EncodePart, PUSH, POP, Changing
<1>5. Result(d, x, r.e, D)
  <2>1. CASE i \in InLine(form)
    <3>1. part.kind = "block"
      BY <2>1
    <3>2. d # 0
      BY <1>2, <3>1, Lowest
    <3>3. \A p \in Nodes[d - 1] : \A f \in Encoders : Result(d - 1, enc[<<p, f>>], f, D)
      BY <3>2 DEF Handles
    <3>4. part \in Nodes[d]
      BY <1>2
    <3> HIDE DEF part
    <3>5. Result(d, EncodeOpen(enc, part, r.e), r.e, D)
      BY <1>1, <3>1, <3>2, <3>3, <3>4, OpenEncoded
    <3> QED BY <2>1, <3>5
  <2>2. CASE i \notin InLine(form)
    BY <1>1, <1>2, <2>2 DEF Handles
  <2> QED BY <2>1, <2>2
<1> HIDE DEF x, part
<1>6. /\ y \in S /\ y.loc = e.count + v /\ Grown(r.e, x.e, D) /\ x.e.count = e.count + v
      /\ x.e.max \in Nat /\ x.e.max >= e.count + v /\ Fine(d, y, x.e.max)
  <2>1. y \in S /\ y.loc = r.e.count + 1 /\ Grown(r.e, x.e, D) /\ x.e.count = r.e.count + 1
        /\ x.e.max >= r.e.count + 1 /\ Fine(d, y, x.e.max)
    BY <1>5 DEF Result
  <2>2. x.e.max \in Nat
    BY <2>1, EncoderIs DEF Grown
  <2> HIDE DEF y, S
  <2> QED BY <1>1, <2>1, <2>2
<1>7. Settled(y, x.e, d)
  <2>1. y.loc \in 0 .. x.e.max
    BY <1>1, <1>6
  <2> QED BY <1>6, <2>1 DEF Settled
<1>8. /\ Typed(w, S) /\ w.kind = r.n.kind /\ w.name = r.n.name /\ Len(w.sub) = Len(n.sub)
      /\ \A j \in 1 .. Len(n.sub) : w.sub[j] = IF j = i THEN y ELSE r.n.sub[j]
  <2> DEFINE q == r.n
  <2>1. Typed(q, S) /\ i \in 1 .. Len(q.sub) /\ y \in S
    BY <1>3, <1>6
  <2> HIDE DEF q, S, y, z, w
  <2> DEFINE p == Changing(q, i, y)
  <2>2. /\ Typed(p, S) /\ p.kind = q.kind /\ p.name = q.name
        /\ Len(p.sub) = Len(q.sub)
        /\ \A j \in 1 .. Len(q.sub) : p.sub[j] = IF j = i THEN y ELSE q.sub[j]
    BY ONLY <2>1, TypedPart
  <2> QED BY <1>3, <2>2 DEF q, w
<1>9. z.n = w /\ z.e = x.e /\ z = [n |-> z.n, e |-> z.e]
  OBVIOUS
<1> HIDE DEF w, z, y, S
<1>10. /\ Grown(e, r.e, D) /\ r.n.kind = n.kind /\ r.n.name = n.name
       /\ \A j \in 1 .. Len(n.sub) :
            /\ Up(a, b, c, j) = 0 => r.n.sub[j] = n.sub[j]
            /\ Up(a, b, c, j) # 0 => r.n.sub[j].loc = e.count + Up(a, b, c, j) /\ Settled(r.n.sub[j], r.e, d)
  BY DEF Stage
<1>11. Grown(e, z.e, D)
  BY <1>6, <1>9, <1>10, GrownOn
<1>12. \A p : Settled(p, r.e, d) => Settled(p, z.e, d)
  BY <1>6, <1>9, SettledStill
<1>13. ASSUME NEW j \in 1 .. Len(n.sub)
       PROVE  /\ Up(aa, bb, cc, j) = 0 => z.n.sub[j] = n.sub[j]
              /\ Up(aa, bb, cc, j) # 0 =>
                    z.n.sub[j].loc = e.count + Up(aa, bb, cc, j) /\ Settled(z.n.sub[j], z.e, d)
  <2>1. CASE j = i
    <3>1. z.n.sub[j] = y /\ Up(aa, bb, cc, j) = v /\ v # 0
      BY <1>8, <1>9, <2>1
    <3> QED BY <1>6, <1>7, <1>9, <3>1
  <2>2. CASE j # i
    <3>1. z.n.sub[j] = r.n.sub[j] /\ Up(aa, bb, cc, j) = Up(a, b, c, j)
      BY <1>8, <1>9, <2>2
    <3> QED BY <1>10, <1>12, <3>1
  <2> QED BY <2>1, <2>2
<1>14. Stage(z, n, e, d, D, v, aa, bb, cc)
  BY <1>6, <1>8, <1>9, <1>10, <1>11, <1>13 DEF Stage, S
<1> QED BY <1>4, <1>14

LEMMA OrderIs ==
  /\ Order("if") = <<PUSH, 1, POP, POP, 2>> /\ Order("ifElse") = <<1, POP, 2, POP, 3>>
  /\ \A form \in {"value", "loop"} : Order(form) = <<1>>
  /\ \A form \in {"and", "loopBody"} : Order(form) = <<1, POP, 2>>
  /\ \A form \in {"identity", "tagged"} : Order(form) = <<1, 2, POP>>
BY DEF Order, PartsInOrder

Ready(enc, n, e, d, D, form) ==
    /\ d \in Nat /\ Typed(n, Nodes[d]) /\ D \subseteq AnyNode /\ e \in Encoders
    /\ Len(n.sub) = Arity(form) /\ \A i \in 1 .. Len(n.sub) : i \in InLine(form) => n.sub[i].kind = "block"
    /\ Handles(enc, d, D) /\ (d # 0 => Handles(enc, d - 1, D))

LEMMA StageFirst ==
  ASSUME NEW enc, NEW n, NEW e, NEW d, NEW D, NEW form, Ready(enc, n, e, d, D, form)
  PROVE  Stage([n |-> n, e |-> e], n, e, d, D, 0, 0, 0, 0)
<1> DEFINE r == [n |-> n, e |-> e]
<1>1. r.n = n /\ r.e = e /\ r = [n |-> r.n, e |-> r.e]
  OBVIOUS
<1> HIDE DEF r
<1>2. e.count = e.count + 0
  <2>1. e.count \in Nat
    BY EncoderIs DEF Ready
  <2> QED BY <2>1
<1>3. Grown(e, e, D)
  BY GrownSame DEF Ready
<1>4. \A i : Up(0, 0, 0, i) = 0
  BY DEF Up
<1>5. Stage(r, n, e, d, D, 0, 0, 0, 0)
  BY <1>1, <1>2, <1>3, <1>4 DEF Stage, Ready
<1> QED BY <1>5 DEF r

\* One step: a variable pushed, one popped, or a part encoded.
LEMMA StagePushed ==
  ASSUME NEW enc, NEW n, NEW e, NEW d, NEW D, NEW form, Ready(enc, n, e, d, D, form),
         NEW r, NEW u \in Nat, NEW a, NEW b, NEW c, Stage(r, n, e, d, D, u, a, b, c), NEW v, v = u + 1
  PROVE  Stage(EncodeStep(enc, form, PUSH, r), n, e, d, D, v, a, b, c)
BY StagePush DEF Ready

LEMMA StagePopped ==
  ASSUME NEW enc, NEW n, NEW e, NEW d, NEW D, NEW form, Ready(enc, n, e, d, D, form),
         NEW r, NEW u \in Nat, NEW a, NEW b, NEW c, Stage(r, n, e, d, D, u, a, b, c), NEW v \in Nat, u = v + 1
  PROVE  Stage(EncodeStep(enc, form, POP, r), n, e, d, D, v, a, b, c)
<1>1. u >= 1 /\ v = u - 1
  OBVIOUS
<1> QED BY <1>1, StagePop DEF Ready

LEMMA ThreeAtMost == (\A l \in 1 .. 3 : 1 \in 1 .. l) /\ (\A l \in 2 .. 3 : 2 \in 1 .. l)
OBVIOUS

LEMMA StageOne ==
  ASSUME NEW enc, NEW n, NEW e, NEW d, NEW D, NEW form, Ready(enc, n, e, d, D, form), Len(n.sub) \in 1 .. 3,
         NEW r, NEW u \in Nat, NEW b, NEW c, Stage(r, n, e, d, D, u, 0, b, c), NEW v, v = u + 1
  PROVE  Stage(EncodeStep(enc, form, 1, r), n, e, d, D, v, v, b, c)
<1>1. \A j \in 1 .. Len(n.sub) : Up(v, b, c, j) = IF j = 1 THEN v ELSE Up(0, b, c, j)
  BY DEF Up
<1>2. 1 \in 1 .. Len(n.sub)
  BY ThreeAtMost
<1>3. Up(0, b, c, 1) = 0
  BY DEF Up
<1>4. d \in Nat /\ Typed(n, Nodes[d]) /\ D \subseteq AnyNode /\ Handles(enc, d, D) /\ (d # 0 => Handles(enc, d - 1, D))
  BY DEF Ready
<1>5. 1 \in InLine(form) => n.sub[1].kind = "block"
  BY <1>2 DEF Ready
<1> QED BY <1>1, <1>2, <1>3, <1>4, <1>5, StagePart

LEMMA StageTwo ==
  ASSUME NEW enc, NEW n, NEW e, NEW d, NEW D, NEW form, Ready(enc, n, e, d, D, form), Len(n.sub) \in 2 .. 3,
         NEW r, NEW u \in Nat, NEW a, NEW c, Stage(r, n, e, d, D, u, a, 0, c), NEW v, v = u + 1
  PROVE  Stage(EncodeStep(enc, form, 2, r), n, e, d, D, v, a, v, c)
<1>1. \A j \in 1 .. Len(n.sub) : Up(a, v, c, j) = IF j = 2 THEN v ELSE Up(a, 0, c, j)
  BY DEF Up
<1>2. 2 \in 1 .. Len(n.sub)
  BY ThreeAtMost
<1>3. Up(a, 0, c, 2) = 0
  BY DEF Up
<1>4. d \in Nat /\ Typed(n, Nodes[d]) /\ D \subseteq AnyNode /\ Handles(enc, d, D) /\ (d # 0 => Handles(enc, d - 1, D))
  BY DEF Ready
<1>5. 2 \in InLine(form) => n.sub[2].kind = "block"
  BY <1>2 DEF Ready
<1> QED BY <1>1, <1>2, <1>3, <1>4, <1>5, StagePart

LEMMA StageThree ==
  ASSUME NEW enc, NEW n, NEW e, NEW d, NEW D, NEW form, Ready(enc, n, e, d, D, form), Len(n.sub) = 3,
         NEW r, NEW u \in Nat, NEW a, NEW b, Stage(r, n, e, d, D, u, a, b, 0), NEW v, v = u + 1
  PROVE  Stage(EncodeStep(enc, form, 3, r), n, e, d, D, v, a, b, v)
<1>1. \A j \in 1 .. Len(n.sub) : Up(a, b, v, j) = IF j = 3 THEN v ELSE Up(a, b, 0, j)
  BY DEF Up
<1>2. 3 \in 1 .. Len(n.sub)
  OBVIOUS
<1>3. Up(a, b, 0, 3) = 0
  BY DEF Up
<1>4. d \in Nat /\ Typed(n, Nodes[d]) /\ D \subseteq AnyNode /\ Handles(enc, d, D) /\ (d # 0 => Handles(enc, d - 1, D))
  BY DEF Ready
<1>5. 3 \in InLine(form) => n.sub[3].kind = "block"
  BY <1>2 DEF Ready
<1> QED BY <1>1, <1>2, <1>3, <1>4, <1>5, StagePart

\* When all is encoded, one variable is in use, and some part is in it: the
\* first or, of an if, the second.
PartsDone(r, n, e, d, D, form) ==
    \E a, b, c \in Nat :
        /\ Stage(r, n, e, d, D, 1, a, b, c)
        /\ \A i \in 1 .. Len(n.sub) : Up(a, b, c, i) # 0
        /\ (IF form = "if" THEN b ELSE a) = 1
        /\ form \in {"and", "ifElse", "loopBody"} => b = 1
        /\ form = "ifElse" => c = 1

LEMMA PartsEncoded ==
  ASSUME NEW enc, NEW n, NEW e, NEW d, NEW D, NEW form \in Forms, form # "send", Ready(enc, n, e, d, D, form)
  PROVE  PartsDone(EncodeParts(enc, n, e, form), n, e, d, D, form)
<1> DEFINE order == Order(form)
           all == EncodeParts(enc, n, e, form)
           start == [n |-> n, e |-> e]
<1>1. Len(order) \in {1, 3, 5}
  BY OrderIs DEF Forms
<1>2. PICK u : /\ all = u[Len(order)] /\ u[0] = start
               /\ \A i \in 1 .. Len(order) : u[i] = EncodeStep(enc, form, order[i], u[i - 1])
  <2>1. Len(Order(form)) \in Nat
    BY <1>1
  <2> QED BY ONLY <2>1, OpeningFolds
<1>3. Stage(u[0], n, e, d, D, 0, 0, 0, 0)
  BY <1>2, StageFirst
<1>4. Len(n.sub) = Arity(form)
  BY DEF Ready
<1> HIDE DEF start, all
<1> SUFFICES PartsDone(all, n, e, d, D, form)
  BY DEF all
<1>5. CASE form \in {"value", "loop"}
  <2>1. order = <<1>> /\ Len(n.sub) = 1
    BY <1>4, <1>5, OrderIs DEF Arity
  <2>2. all = u[1] /\ u[1] = EncodeStep(enc, form, 1, u[0])
    BY <1>2, <2>1
  <2>3. Stage(u[1], n, e, d, D, 1, 1, 0, 0)
    BY <1>3, <2>1, <2>2, StageOne
  <2>4. \A i \in 1 .. Len(n.sub) : Up(1, 0, 0, i) # 0
    BY <2>1 DEF Up
  <2> QED BY <1>5, <2>2, <2>3, <2>4 DEF PartsDone
<1>6. CASE form \in {"and", "loopBody"}
  <2>1. order = <<1, POP, 2>> /\ Len(n.sub) = 2
    BY <1>4, <1>6, OrderIs DEF Arity
  <2>2. /\ all = u[3] /\ u[1] = EncodeStep(enc, form, 1, u[0]) /\ u[2] = EncodeStep(enc, form, POP, u[1])
        /\ u[3] = EncodeStep(enc, form, 2, u[2])
    BY <1>2, <2>1
  <2>3. Stage(u[1], n, e, d, D, 1, 1, 0, 0)
    BY <1>3, <2>1, <2>2, StageOne
  <2>4. Stage(u[2], n, e, d, D, 0, 1, 0, 0)
    BY <2>2, <2>3, StagePopped
  <2>5. Stage(u[3], n, e, d, D, 1, 1, 1, 0)
    BY <2>1, <2>2, <2>4, StageTwo
  <2>6. \A i \in 1 .. Len(n.sub) : Up(1, 1, 0, i) # 0
    BY <2>1 DEF Up
  <2> QED BY <1>6, <2>2, <2>5, <2>6 DEF PartsDone
<1>7. CASE form \in {"identity", "tagged"}
  <2>1. order = <<1, 2, POP>> /\ Len(n.sub) = 2
    BY <1>4, <1>7, OrderIs DEF Arity
  <2>2. /\ all = u[3] /\ u[1] = EncodeStep(enc, form, 1, u[0]) /\ u[2] = EncodeStep(enc, form, 2, u[1])
        /\ u[3] = EncodeStep(enc, form, POP, u[2])
    BY <1>2, <2>1
  <2>3. Stage(u[1], n, e, d, D, 1, 1, 0, 0)
    BY <1>3, <2>1, <2>2, StageOne
  <2>4. Stage(u[2], n, e, d, D, 2, 1, 2, 0)
    BY <2>1, <2>2, <2>3, StageTwo
  <2>5. Stage(u[3], n, e, d, D, 1, 1, 2, 0)
    BY <2>2, <2>4, StagePopped
  <2>6. \A i \in 1 .. Len(n.sub) : Up(1, 2, 0, i) # 0
    BY <2>1 DEF Up
  <2> QED BY <1>7, <2>2, <2>5, <2>6 DEF PartsDone
<1>8. CASE form = "if"
  <2>1. order = <<PUSH, 1, POP, POP, 2>> /\ Len(n.sub) = 2
    BY <1>4, <1>8, OrderIs DEF Arity
  <2>2. /\ all = u[5] /\ u[1] = EncodeStep(enc, form, PUSH, u[0]) /\ u[2] = EncodeStep(enc, form, 1, u[1])
        /\ u[3] = EncodeStep(enc, form, POP, u[2]) /\ u[4] = EncodeStep(enc, form, POP, u[3])
        /\ u[5] = EncodeStep(enc, form, 2, u[4])
    BY <1>2, <2>1
  <2>3. Stage(u[1], n, e, d, D, 1, 0, 0, 0)
    BY <1>3, <2>2, StagePushed
  <2>4. Stage(u[2], n, e, d, D, 2, 2, 0, 0)
    BY <2>1, <2>2, <2>3, StageOne
  <2>5. Stage(u[3], n, e, d, D, 1, 2, 0, 0)
    BY <2>2, <2>4, StagePopped
  <2>6. Stage(u[4], n, e, d, D, 0, 2, 0, 0)
    BY <2>2, <2>5, StagePopped
  <2>7. Stage(u[5], n, e, d, D, 1, 2, 1, 0)
    BY <2>1, <2>2, <2>6, StageTwo
  <2>8. \A i \in 1 .. Len(n.sub) : Up(2, 1, 0, i) # 0
    BY <2>1 DEF Up
  <2> QED BY <1>8, <2>2, <2>7, <2>8 DEF PartsDone
<1>9. CASE form = "ifElse"
  <2>1. order = <<1, POP, 2, POP, 3>> /\ Len(n.sub) = 3
    BY <1>4, <1>9, OrderIs DEF Arity
  <2>2. /\ all = u[5] /\ u[1] = EncodeStep(enc, form, 1, u[0]) /\ u[2] = EncodeStep(enc, form, POP, u[1])
        /\ u[3] = EncodeStep(enc, form, 2, u[2]) /\ u[4] = EncodeStep(enc, form, POP, u[3])
        /\ u[5] = EncodeStep(enc, form, 3, u[4])
    BY <1>2, <2>1
  <2>3. Stage(u[1], n, e, d, D, 1, 1, 0, 0)
    BY <1>3, <2>1, <2>2, StageOne
  <2>4. Stage(u[2], n, e, d, D, 0, 1, 0, 0)
    BY <2>2, <2>3, StagePopped
  <2>5. Stage(u[3], n, e, d, D, 1, 1, 1, 0)
    BY <2>1, <2>2, <2>4, StageTwo
  <2>6. Stage(u[4], n, e, d, D, 0, 1, 1, 0)
    BY <2>2, <2>5, StagePopped
  <2>7. Stage(u[5], n, e, d, D, 1, 1, 1, 1)
    BY <2>1, <2>2, <2>6, StageThree
  <2>8. \A i \in 1 .. Len(n.sub) : Up(1, 1, 1, i) # 0
    BY <2>1 DEF Up
  <2> QED BY <1>9, <2>2, <2>7, <2>8 DEF PartsDone
<1> QED BY <1>5, <1>6, <1>7, <1>8, <1>9 DEF Forms

LEMMA TailAt ==
  ASSUME NEW s, IsCode(s), NEW i \in 2 .. Len(s)
  PROVE  i - 1 \in DOMAIN Tail(s) /\ Tail(s)[i - 1] = s[i]
<1>1. PICK X : s \in Seq(X)
  BY DEF IsCode
<1> QED BY <1>1

LEMMA FormIs ==
  ASSUME NEW n, Parsed(n), n.kind = "send", IsCode(n.sub), FormOf(n) # "send"
  PROVE  /\ FormOf(n) \in Forms /\ n.cascades = <<>> /\ Len(n.sub) = Arity(FormOf(n))
         /\ \A i \in 1 .. Len(n.sub) : i \in InLine(FormOf(n)) => n.sub[i].kind = "block"
<1> DEFINE form == FormOf(n)
           name == n.name
<1>1. /\ form = Opens(name) /\ n.cascades = <<>>
      /\ form \in {"if", "and", "ifElse"} => AllOpen(Tail(n.sub))
      /\ form \in {"value", "loop", "loopBody"} => AllOpen(n.sub)
  BY DEF FormOf
<1>2. Opens(name) \in Forms
  BY DEF Opens, Forms
<1>3. Len(n.sub) = Arity(form)
  BY <1>1 DEF Parsed
<1> HIDE DEF form, name
<1>4. ASSUME NEW i \in 1 .. Len(n.sub), i \in InLine(form) PROVE n.sub[i].kind = "block"
  <2>1. CASE form \in {"if", "and", "ifElse"}
    <3>1. i \in {2, 3} /\ i \in 2 .. Len(n.sub)
      <4>1. i \in {2, 3}
        BY <1>4, <2>1 DEF InLine
      <4>2. \A l : i \in 1 .. l => i \in 2 .. l
        BY <4>1
      <4> QED BY <4>1, <4>2
    <3>2. i - 1 \in DOMAIN Tail(n.sub) /\ Tail(n.sub)[i - 1] = n.sub[i]
      BY <3>1, TailAt
    <3>3. IsOpenCodable(n.sub[i])
      BY <1>1, <2>1, <3>2 DEF AllOpen
    <3> QED BY <3>3 DEF IsOpenCodable
  <2>2. CASE form \in {"value", "loop", "loopBody"}
    <3>1. i \in DOMAIN n.sub
      <4>1. PICK X : n.sub \in Seq(X)
        BY DEF IsCode
      <4> QED BY <4>1
    <3>2. IsOpenCodable(n.sub[i])
      BY <1>1, <2>2, <3>1 DEF AllOpen
    <3> QED BY <3>2 DEF IsOpenCodable
  <2> QED BY <1>4, <2>1, <2>2 DEF InLine
<1> QED BY <1>1, <1>2, <1>3, <1>4 DEF form

\* The forms have the shapes their code is made for.
LEMMA FormShape ==
  ASSUME NEW n, NEW form \in Forms, form # "send", n.gen = form, Len(n.sub) = Arity(form)
  PROVE  Formed(n)
BY DEF Formed, Forms, Arity

LEMMA NoErrors ==
  ASSUME NEW e \in Encoders, NEW form, NEW ice, ice = {}
  PROVE  [e EXCEPT !.errors = @ \cup {form : i \in ice}] = e
<1>1. {form : i \in ice} = {}
  OBVIOUS
<1>2. PICK c, m, l, b, u, r :
        e = [count |-> c, max |-> m, level |-> l, blocks |-> b, units |-> u, errors |-> r]
  BY EncoderIs
<1> DEFINE all == e.errors \cup {form : i \in ice}
<1>3. all = r
  BY <1>1, <1>2
<1> HIDE DEF all
<1>4. [e EXCEPT !.errors = all] = e
  BY <1>2, <1>3
<1> QED BY <1>4 DEF all

LEMMA OpenedEncoded ==
  ASSUME NEW d \in Nat, d # 0, NEW n \in Nodes[d], n.kind = "send", FormOf(n) # "send", NEW D, D \subseteq AnyNode,
         NEW e \in Encoders, NEW enc, Handles(enc, d - 1, D), d - 1 # 0 => Handles(enc, d - 2, D)
  PROVE  Result(d, EncodeOpened(enc, n, e, FormOf(n)), e, D)
<1> DEFINE form == FormOf(n)
           x == EncodeOpened(enc, n, e, form)
           parts == EncodeParts(enc, n, e, form)
           loc == IF form = "if" THEN e.count + 1
                  ELSE parts.n.sub[IF form = "loopBody" THEN 2 ELSE 1].loc
           ice == {i \in InLine(form) \cap 2 .. Len(n.sub) : parts.n.sub[i].loc # loc}
           r == Placing(parts.n, loc, form)
           S == Nodes[d - 1]
<1>1. x.n = r /\ x.e = [parts.e EXCEPT !.errors = @ \cup {form : i \in ice}]
  BY DEF EncodeOpened, Placing
<1>2. Typed(n, S) /\ Parsed(n) /\ IsCode(n.sub)
  BY NodeIs
<1>3. /\ form \in Forms /\ n.cascades = <<>> /\ Len(n.sub) = Arity(form) /\ form # "send"
      /\ \A i \in 1 .. Len(n.sub) : i \in InLine(form) => n.sub[i].kind = "block"
  BY <1>2, FormIs
<1> HIDE DEF form
<1>4. Ready(enc, n, e, d - 1, D, form)
  <2>1. d - 1 \in Nat /\ (d - 1) - 1 = d - 2
    OBVIOUS
  <2> QED BY <1>2, <1>3, <2>1 DEF Ready
<1>5. PartsDone(parts, n, e, d - 1, D, form)
  BY <1>3, <1>4, PartsEncoded
<1> HIDE DEF parts
<1>6. PICK a \in Nat, b \in Nat, c \in Nat :
        /\ Stage(parts, n, e, d - 1, D, 1, a, b, c)
        /\ \A i \in 1 .. Len(n.sub) : Up(a, b, c, i) # 0
        /\ (IF form = "if" THEN b ELSE a) = 1
        /\ form \in {"and", "ifElse", "loopBody"} => b = 1
        /\ form = "ifElse" => c = 1
  BY <1>5 DEF PartsDone
<1>7. /\ Typed(parts.n, S) /\ parts.n.kind = n.kind /\ parts.n.name = n.name /\ Len(parts.n.sub) = Len(n.sub)
      /\ Grown(e, parts.e, D) /\ parts.e.count = e.count + 1
      /\ \A i \in 1 .. Len(n.sub) : parts.n.sub[i].loc = e.count + Up(a, b, c, i)
                                    /\ Settled(parts.n.sub[i], parts.e, d - 1)
  BY <1>6 DEF Stage
<1>8. parts.e \in Encoders /\ e.count \in Nat /\ parts.e.max \in Nat
  BY <1>7, EncoderIs DEF Grown
<1>9. Up(a, b, c, 1) = a /\ Up(a, b, c, 2) = b /\ Up(a, b, c, 3) = c
  BY DEF Up
<1>10. /\ form \in {"value", "loop"} => Len(n.sub) = 1
       /\ form \in {"if", "and", "loopBody", "identity", "tagged"} => Len(n.sub) = 2
       /\ form = "ifElse" => Len(n.sub) = 3
  BY <1>3 DEF Arity
<1>11. loc = e.count + 1 /\ \E i \in 1 .. Len(n.sub) : parts.n.sub[i].loc = loc
  <2>1. CASE form = "if"
    <3>1. 2 \in 1 .. Len(n.sub) /\ b = 1
      <4>1. Len(n.sub) = 2 /\ b = 1
        BY <1>6, <1>10, <2>1
      <4> QED BY <4>1
    <3>2. parts.n.sub[2].loc = e.count + 1
      BY <1>7, <1>9, <3>1
    <3> QED BY <2>1, <3>1, <3>2
  <2>2. CASE form = "loopBody"
    <3>1. 2 \in 1 .. Len(n.sub) /\ b = 1
      <4>1. Len(n.sub) = 2 /\ b = 1
        BY <1>6, <1>10, <2>2
      <4> QED BY <4>1
    <3>2. parts.n.sub[2].loc = e.count + 1
      BY <1>7, <1>9, <3>1
    <3> QED BY <2>2, <3>1, <3>2
  <2>3. CASE form \notin {"if", "loopBody"}
    <3>1. 1 \in 1 .. Len(n.sub) /\ a = 1
      BY <1>3, <1>6, <1>10, <2>3 DEF Forms
    <3>2. parts.n.sub[1].loc = e.count + 1
      BY <1>7, <1>9, <3>1
    <3> QED BY <2>3, <3>1, <3>2
  <2> QED BY <2>1, <2>2, <2>3
<1>12. ice = {}
  <2> SUFFICES ASSUME NEW i \in InLine(form), i \in 2 .. Len(n.sub) PROVE parts.n.sub[i].loc = loc
    OBVIOUS
  <2>1. i \in 1 .. Len(n.sub) /\ i >= 2
    <3>1. Len(n.sub) \in {1, 2, 3}
      BY <1>3, <1>10 DEF Forms
    <3>2. \A l \in {1, 2, 3} : i \in 2 .. l => i \in 1 .. l /\ i >= 2
      OBVIOUS
    <3> QED BY <3>1, <3>2
  <2>2. CASE i = 2
    <3>1. b = 1
      <4>1. form \notin {"value", "loop"}
        <5>1. ~(2 \in 1 .. 1)
          OBVIOUS
        <5> QED BY <1>10, <2>1, <2>2, <5>1
      <4>2. form \notin {"identity", "tagged"}
        BY DEF InLine
      <4> QED BY <1>3, <1>6, <4>1, <4>2 DEF Forms
    <3> QED BY <1>7, <1>9, <1>11, <2>1, <2>2, <3>1
  <2>3. CASE i # 2
    <3>1. i = 3 /\ form = "ifElse"
      <4>1. \A l \in {1, 2} : ~(i \in 1 .. l)
        BY <2>1, <2>3
      <4>2. form = "ifElse"
        BY <1>3, <1>10, <2>1, <4>1 DEF Forms
      <4>3. i \in 1 .. 3
        BY <1>10, <2>1, <4>2
      <4> QED BY <2>1, <2>3, <4>2, <4>3
    <3> QED BY <1>6, <1>7, <1>9, <1>11, <2>1, <3>1
  <2> QED BY <2>2, <2>3
<1> HIDE DEF x, loc, ice
<1>13. x.e = parts.e
  <2> DEFINE f == parts.e
  <2>1. x.e = [f EXCEPT !.errors = @ \cup {form : i \in ice}] /\ f \in Encoders
    BY <1>1, <1>8
  <2> HIDE DEF f
  <2>2. [f EXCEPT !.errors = @ \cup {form : i \in ice}] = f
    BY <1>12, <2>1, NoErrors
  <2> QED BY <2>1, <2>2 DEF f
<1>14. loc \in Nat /\ loc \in 0 .. parts.e.max /\ parts.e.max >= e.count + 1
  <2>1. loc \in 0 .. parts.e.max
    BY <1>7, <1>11 DEF Settled
  <2> QED BY <1>8, <1>11, <2>1
<1>15. /\ Typed(r, S) /\ r.kind = "send" /\ r.name = n.name /\ r.sub = parts.n.sub
       /\ r.loc = loc /\ r.gen = form
  <2> DEFINE q == parts.n
  <2>1. Typed(q, S) /\ loc \in Nat /\ form \in Gens
    BY <1>3, <1>7, <1>14 DEF Gens
  <2> HIDE DEF q, S
  <2>2. /\ Typed(r, S) /\ r.kind = q.kind /\ r.name = q.name
        /\ r.sub = q.sub /\ r.loc = loc /\ r.gen = form
    BY <2>1, TypedPlace DEF q
  <2> QED BY <1>7, <2>2 DEF q
<1> HIDE DEF r
<1>16. IsCode(r.sub) /\ Len(r.sub) = Len(n.sub)
  BY <1>7, <1>15 DEF Typed, IsCode
<1>17. r \in Nodes[d]
  <2>1. Parsed(r)
    BY <1>2, <1>15, <1>16, StillParsed
  <2> QED BY <1>15, <2>1, NodeIn
<1>18. Formed(r)
  BY <1>3, <1>15, <1>16, FormShape
<1>19. Placed(r.sub, d - 1, parts.e.max)
  BY <1>7, <1>15, <1>16 DEF Placed, Settled
<1>20. Fine(d, r, parts.e.max)
  BY <1>8, <1>14, <1>15, <1>17, <1>18, <1>19, FormFine
<1>21. Result(d, x, e, D)
  BY <1>1, <1>7, <1>11, <1>13, <1>14, <1>15, <1>17, <1>20 DEF Result
<1> QED BY <1>21 DEF x, form

-----------------------------------------------------------------------------
(* Every node is encoded as it should be.  The blocks that wait because of  *)
(* one that is no block itself are of fewer levels than it has.             *)
Awaiting(d) == {b \in Nodes[d] : b.kind = "block"}
Under(d)   == IF d = 0 THEN {} ELSE Awaiting(d - 1)
Held(n, d) == IF n.kind = "block" THEN Awaiting(d) ELSE Under(d)

LEMMA LevelsNat == Levels \in Nat /\ Levels # 0
BY MethodsAssumption

LEMMA AwaitingGrows ==
  ASSUME NEW d \in Nat
  PROVE  /\ Under(d) \subseteq Awaiting(d) /\ \A n : Held(n, d) \subseteq Awaiting(d)
         /\ d <= Levels => Awaiting(d) \subseteq AnyNode
<1>1. Under(d) \subseteq Awaiting(d)
  <2>1. CASE d # 0
    <3>1. d - 1 \in 0 .. d
      BY <2>1
    <3>2. Nodes[d - 1] \subseteq Nodes[d]
      BY <3>1, NodesGrow
    <3> QED BY <2>1, <3>2 DEF Under, Awaiting
  <2>2. CASE d = 0
    BY <2>2 DEF Under
  <2> QED BY <2>1, <2>2
<1>2. d <= Levels => Awaiting(d) \subseteq AnyNode
  <2>1. Levels \in Nat /\ (d <= Levels => d \in 0 .. Levels)
    BY LevelsNat
  <2>2. d <= Levels => Nodes[d] \subseteq Nodes[Levels]
    BY <2>1, NodesGrow
  <2> QED BY <2>2 DEF Awaiting, AnyNode
<1> QED BY <1>1, <1>2 DEF Held

LEMMA ResultMore ==
  ASSUME NEW d, NEW x, NEW e, NEW D, NEW E, Result(d, x, e, D), D \subseteq E
  PROVE  Result(d, x, e, E)
<1>1. Grown(e, x.e, E)
  BY GrownMore DEF Result
<1> QED BY <1>1 DEF Result

LEMMA NodeEncodingIs ==
  ASSUME NEW j \in Nat, NEW n \in Nodes[j], NEW e \in Encoders
  PROVE  NodeEncoding[j][<<n, e>>] = EncodeNode(IF j = 0 THEN <<>> ELSE NodeEncoding[j - 1], n, e)
<1> DEFINE below == NodeEncoding[j - 1]
<1>1. NodeEncoding[j] = EncodedAt(j, below)
  BY EncodedIs
<1> HIDE DEF below
<1> QED BY <1>1 DEF EncodedAt, below

LEMMA EncodeNodeIs ==
  ASSUME NEW enc, NEW n, NEW e
  PROVE  /\ n.kind \in {"variable", "literal", "block"} => EncodeNode(enc, n, e) = EncodeLeaf(n, e)
         /\ n.kind \in {"assign", "return", "localReturn"} => EncodeNode(enc, n, e) = EncodeHolder(enc, n, e)
         /\ n.kind = "send" => EncodeNode(enc, n, e) = IF FormOf(n) = "send" THEN EncodeSent(enc, n, e)
                                                       ELSE EncodeOpened(enc, n, e, FormOf(n))
BY DEF EncodeNode

Sound(j) ==
    \A d \in 0 .. j : \A n \in Nodes[d] : \A e \in Encoders :
        Result(d, NodeEncoding[j][<<n, e>>], e, Held(n, d))

LEMMA SoundHandles ==
  ASSUME NEW j \in Nat, Sound(j), NEW d \in 0 .. j, NEW D, Awaiting(d) \subseteq D
  PROVE  Handles(NodeEncoding[j], d, D)
<1> DEFINE enc == NodeEncoding[j]
<1>1. \A n \in Nodes[d] : \A e \in Encoders : Result(d, enc[<<n, e>>], e, Held(n, d))
  BY DEF Sound
<1>2. \A n : Held(n, d) \subseteq D
  BY AwaitingGrows
<1> HIDE DEF enc
<1>3. ASSUME NEW n \in Nodes[d], NEW e \in Encoders PROVE Result(d, enc[<<n, e>>], e, D)
  <2> DEFINE x == enc[<<n, e>>]
             H == Held(n, d)
  <2>1. Result(d, x, e, H) /\ H \subseteq D
    BY <1>1, <1>2
  <2> HIDE DEF x, H
  <2>2. Result(d, x, e, D)
    BY <2>1, ResultMore
  <2> QED BY <2>2 DEF x
<1>4. Handles(enc, d, D)
  BY <1>3 DEF Handles
<1> QED BY <1>4 DEF enc

LEMMA LeafSound ==
  ASSUME NEW d \in Nat, d <= Levels, NEW n \in Nodes[d], n.kind \in {"variable", "literal", "block"},
         NEW e \in Encoders
  PROVE  Result(d, EncodeLeaf(n, e), e, Held(n, d))
<1>1. Held(n, d) \subseteq AnyNode
  BY AwaitingGrows
<1>2. n.kind = "block" => n \in Held(n, d)
  BY DEF Held, Awaiting
<1> DEFINE H == Held(n, d)
<1> HIDE DEF H
<1>3. H \subseteq AnyNode /\ (n.kind = "block" => n \in H)
  BY <1>1, <1>2 DEF H
<1>4. Result(d, EncodeLeaf(n, e), e, H)
  BY <1>3, LeafEncoded
<1> QED BY <1>4 DEF H

LEMMA NodesEncoded == \A j \in Nat : j <= Levels => Sound(j)
<1> DEFINE Shown == {j \in Nat : j <= Levels => Sound(j)}
<1>1. 0 \in Shown
  <2>1. ASSUME NEW d \in 0 .. 0, NEW n \in Nodes[d], NEW e \in Encoders
        PROVE  Result(d, NodeEncoding[0][<<n, e>>], e, Held(n, d))
    <3>1. d = 0
      OBVIOUS
    <3>2. n \in Nodes[0] /\ n.kind \in {"variable", "literal", "block"} /\ d <= Levels
      BY <3>1, Lowest, LevelsNat
    <3>3. NodeEncoding[0][<<n, e>>] = EncodeLeaf(n, e)
      BY <3>2, NodeEncodingIs, EncodeNodeIs
    <3> QED BY <3>1, <3>2, <3>3, LeafSound
  <2>2. Sound(0)
    BY <2>1 DEF Sound
  <2> QED BY <2>2
<1>2. ASSUME NEW j \in Nat, j \in Shown PROVE j + 1 \in Shown
  <2> DEFINE i == j + 1
             enc == NodeEncoding[j]
  <2>1. i \in Nat /\ i # 0 /\ i - 1 = j
    OBVIOUS
  <2>2. SUFFICES ASSUME i <= Levels PROVE Sound(i)
    BY <2>1
  <2>3. Sound(j) /\ j <= Levels
    BY <1>2, <2>1, <2>2, LevelsNat
  <2>4. ASSUME NEW d \in 0 .. i, NEW n \in Nodes[d], NEW e \in Encoders
        PROVE  Result(d, NodeEncoding[i][<<n, e>>], e, Held(n, d))
    <3>1. d \in Nat /\ d <= Levels
      BY <2>1, <2>2, LevelsNat
    <3>2. n \in Nodes[i]
      BY <2>1, NodesGrow
    <3>3. NodeEncoding[i][<<n, e>>] = EncodeNode(enc, n, e)
      BY <2>1, <3>2, NodeEncodingIs
    <3> HIDE DEF enc, i
    <3>4. CASE n.kind \in {"variable", "literal", "block"}
      BY <3>1, <3>3, <3>4, EncodeNodeIs, LeafSound
    <3>5. CASE n.kind \notin {"variable", "literal", "block"}
      <4> DEFINE D == Awaiting(d - 1)
      <4>1. d # 0 /\ Held(n, d) = D
        BY <3>5, Lowest DEF Held, Under
      <4>2. d - 1 \in 0 .. j /\ d - 1 \in Nat /\ d - 1 <= Levels /\ (d - 1 # 0 => d - 2 \in 0 .. j /\ d - 2 \in Nat)
        BY <3>1, <4>1, LevelsNat DEF i
      <4>3. D \subseteq AnyNode
        BY <4>2, AwaitingGrows
      <4>4. Handles(enc, d - 1, D)
        BY <2>3, <4>2, SoundHandles DEF enc
      <4>5. d - 1 # 0 => Handles(enc, d - 2, D)
        <5>1. d - 1 # 0 => Awaiting(d - 2) \subseteq D
          <6>1. (d - 1) - 1 = d - 2
            BY <4>2
          <6> QED BY <4>2, <6>1, AwaitingGrows DEF Under
        <5> QED BY <2>3, <4>2, <5>1, SoundHandles DEF enc
      <4> HIDE DEF D
      <4>6. Result(d, EncodeNode(enc, n, e), e, D)
        <5>1. CASE n.kind \in {"assign", "return", "localReturn"}
          <6> DEFINE p == n.sub[1]
          <6>1. p \in Nodes[d - 1]
            <7>1. Typed(n, Nodes[d - 1]) /\ Len(n.sub) = 1
              BY <3>1, <4>1, <5>1, NodeIs DEF Parsed
            <7> DEFINE s == n.sub
                       S == Nodes[d - 1]
            <7>2. s \in Seq(S) /\ Len(s) = 1
              BY <7>1 DEF Typed
            <7> HIDE DEF s, S
            <7>3. s[1] \in S
              BY ONLY <7>2
            <7> QED BY <7>3 DEF s, S
          <6> HIDE DEF p
          <6>2. Result(d - 1, enc[<<p, e>>], e, D)
            BY <4>4, <6>1 DEF Handles
          <6>3. Result(d, EncodeHolder(enc, n, e), e, D)
            BY <3>1, <4>1, <4>3, <5>1, <6>2, HolderEncoded DEF p
          <6> QED BY <5>1, <6>3, EncodeNodeIs
        <5>2. CASE n.kind = "send" /\ FormOf(n) = "send"
          <6>1. \A p \in Nodes[d - 1] : \A f \in Encoders : Result(d - 1, enc[<<p, f>>], f, D)
            BY <4>4 DEF Handles
          <6>2. Result(d, EncodeSent(enc, n, e), e, D)
            BY <3>1, <4>1, <4>3, <5>2, <6>1, SentEncoded
          <6> QED BY <5>2, <6>2, EncodeNodeIs
        <5>3. CASE n.kind = "send" /\ FormOf(n) # "send"
          <6>1. Result(d, EncodeOpened(enc, n, e, FormOf(n)), e, D)
            BY <3>1, <4>1, <4>3, <4>4, <4>5, <5>3, OpenedEncoded
          <6> QED BY <5>3, <6>1, EncodeNodeIs
        <5>4. n.kind \in Kinds
          BY <3>1, <4>1, NodeIs DEF Typed
        <5> QED BY <3>5, <5>1, <5>2, <5>3, <5>4 DEF Kinds
      <4> QED BY <3>3, <4>1, <4>6 DEF D
    <3> QED BY <3>4, <3>5
  <2>5. Sound(i)
    BY <2>4 DEF Sound
  <2> QED BY <2>5
<1> HIDE DEF Shown
<1>3. \A j \in Nat : j \in Shown
  BY <1>1, <1>2, Upward
<1> QED BY <1>3 DEF Shown

-----------------------------------------------------------------------------
(* Units: the statements of a method or a block, then the blocks in them.   *)
Translates(t, n, within, e, s) ==
    t = [i \in 0 .. n |-> IF i = 0 THEN s ELSE within[<<e.blocks[i], t[i - 1]>>]]
LEMMA TranslatesMade ==
  ASSUME NEW n \in Nat, NEW within, NEW e, NEW s
  PROVE  \E t : Translates(t, n, within, e, s)
<1> DEFINE Shown == {m \in Nat : \E t : Translates(t, m, within, e, s)}
<1>1. 0 \in Shown
  <2> DEFINE t == [i \in 0 .. 0 |-> s]
  <2>1. t = [i \in 0 .. 0 |-> IF i = 0 THEN s ELSE within[<<e.blocks[i], t[i - 1]>>]]
    OBVIOUS
  <2>2. Translates(t, 0, within, e, s)
    BY <2>1 DEF Translates
  <2> QED BY <2>2
<1>2. ASSUME NEW m \in Nat, m \in Shown PROVE m + 1 \in Shown
  <2>1. PICK g : Translates(g, m, within, e, s)
    BY <1>2
  <2> DEFINE t == [i \in 0 .. m + 1 |-> IF i = m + 1 THEN within[<<e.blocks[m + 1], g[m]>>] ELSE g[i]]
  <2>2. t = [i \in 0 .. m + 1 |-> t[i]]
    OBVIOUS
  <2>3. t[m + 1] = within[<<e.blocks[m + 1], g[m]>>] /\ \A i \in 0 .. m : t[i] = g[i]
    OBVIOUS
  <2> HIDE DEF t
  <2>4. ASSUME NEW i \in 0 .. m + 1
        PROVE  t[i] = IF i = 0 THEN s ELSE within[<<e.blocks[i], t[i - 1]>>]
    <3>1. CASE i = m + 1
      <4>1. m \in 0 .. m /\ i - 1 = m /\ i # 0
        BY <3>1
      <4> QED BY <2>3, <3>1, <4>1
    <3>2. CASE i # m + 1
      <4>1. i \in 0 .. m /\ (i # 0 => i - 1 \in 0 .. m)
        BY <3>2
      <4>2. g[i] = IF i = 0 THEN s ELSE within[<<e.blocks[i], g[i - 1]>>]
        BY <2>1, <4>1 DEF Translates
      <4> QED BY <2>3, <4>1, <4>2
    <3> QED BY <3>1, <3>2
  <2>5. Translates(t, m + 1, within, e, s)
    BY <2>2, <2>4 DEF Translates
  <2> QED BY <2>5
<1> HIDE DEF Shown
<1>3. n \in Shown
  BY <1>1, <1>2, Upward
<1> QED BY <1>3 DEF Shown

LEMMA TranslatesFolds ==
  ASSUME NEW within, NEW e, Len(e.blocks) \in Nat
  PROVE  \E u : /\ EncodeBlocks(within, e) = u[Len(e.blocks)] /\ u[0] = e
               /\ \A i \in 1 .. Len(e.blocks) : u[i] = within[<<e.blocks[i], u[i - 1]>>]
<1> DEFINE n == Len(e.blocks)
           s == e
<1>1. n \in Nat
  OBVIOUS
<1>2. EncodeBlocks(within, e) = (CHOOSE t : Translates(t, n, within, e, s))[n]
  BY DEF EncodeBlocks, Translates
<1> HIDE DEF n, s
<1>3. PICK u : Translates(u, n, within, e, s) /\ EncodeBlocks(within, e) = u[n]
  BY <1>1, <1>2, TranslatesMade
<1>4. u[0] = s /\ \A i \in 1 .. n : u[i] = within[<<e.blocks[i], u[i - 1]>>]
  <2>1. 0 \in 0 .. n /\ \A i \in 1 .. n : i \in 0 .. n /\ i # 0
    BY <1>1
  <2> QED BY <1>3, <2>1 DEF Translates
<1> QED BY <1>3, <1>4 DEF n, s

\* Units that the C compiler accepts; translating a block adds such units and
\* leaves the rest of the encoder as it was.
Accepted(us) == \A i \in 1 .. Len(us) : Placed(us[i].code, Levels, us[i].stack)
Kept(e, f) ==
    /\ f \in Encoders /\ f.count = e.count /\ f.max = e.max /\ f.level = e.level /\ f.blocks = e.blocks
    /\ f.errors = e.errors /\ (Accepted(e.units) => Accepted(f.units))
Translating(within, D) == \A b \in D : \A f \in Encoders : Kept(f, within[<<b, f>>])

LEMMA BlocksTranslated ==
  ASSUME NEW within, NEW D, Translating(within, D), NEW e \in Encoders, e.blocks \in Seq(D)
  PROVE  Kept(e, EncodeBlocks(within, e))
<1> DEFINE l == Len(e.blocks)
           bs == e.blocks
<1>1. l \in Nat /\ \A i \in 1 .. l : bs[i] \in D
  <2>1. bs \in Seq(D)
    OBVIOUS
  <2> HIDE DEF bs
  <2>2. Len(bs) \in Nat /\ \A i \in 1 .. Len(bs) : bs[i] \in D
    BY ONLY <2>1
  <2> QED BY <2>2 DEF bs
<1>2. PICK u : /\ EncodeBlocks(within, e) = u[l] /\ u[0] = e
               /\ \A i \in 1 .. l : u[i] = within[<<e.blocks[i], u[i - 1]>>]
  <2>1. Len(e.blocks) \in Nat
    BY <1>1
  <2> QED BY ONLY <2>1, TranslatesFolds
<1> HIDE DEF l
<1> DEFINE Safely == {i \in 0 .. l : Kept(e, u[i])}
<1>3. 0 \in Safely
  BY <1>1, <1>2 DEF Kept
<1>4. \A i \in 1 .. l : i - 1 \in Safely => i \in Safely
  <2> SUFFICES ASSUME NEW i \in 1 .. l, Kept(e, u[i - 1]) PROVE Kept(e, u[i])
    BY <1>1
  <2> DEFINE f == u[i - 1]
             b == bs[i]
  <2>1. u[i] = within[<<b, f>>] /\ b \in D /\ Kept(e, f)
    BY <1>1, <1>2
  <2> HIDE DEF f, b
  <2>2. Kept(f, within[<<b, f>>])
    BY <2>1 DEF Translating, Kept
  <2> QED BY <2>1, <2>2 DEF Kept
<1> HIDE DEF Safely
<1>5. l \in Safely
  BY <1>1, <1>3, <1>4, UpTo
<1> QED BY <1>2, <1>5 DEF Safely

LEMMA Begun ==
  ASSUME NEW e \in Encoders
  PROVE  LET f == BeginBlock(e)
         IN  /\ f \in Encoders /\ f.count = 0 /\ f.max = 0 /\ f.level = e.level + 1 /\ f.blocks = <<>>
             /\ f.units = e.units /\ f.errors = e.errors
<1>1. PICK c \in Nat, m \in Nat, l \in Nat, b \in Seq(AnyNode), u \in Seq(Units), r \in SUBSET Faults :
        e = [count |-> c, max |-> m, level |-> l, blocks |-> b, units |-> u, errors |-> r]
  BY DEF Encoders
<1> DEFINE f == BeginBlock(e)
           k == l + 1
           none == <<>>
<1>2. f = [count |-> 0, max |-> 0, level |-> k, blocks |-> none, units |-> u, errors |-> r]
  <2>1. e.level + 1 = k
    BY <1>1
  <2>2. f = [e EXCEPT !.count = 0, !.max = 0, !.level = k, !.blocks = none]
    BY <2>1 DEF BeginBlock
  <2> HIDE DEF f, k, none
  <2> QED BY <1>1, <2>2
<1>3. k \in Nat /\ none \in Seq(AnyNode)
  OBVIOUS
<1> HIDE DEF f, k, none
<1>4. f \in Encoders
  BY <1>2, <1>3 DEF Encoders
<1>5. f.count = 0 /\ f.max = 0 /\ f.level = k /\ f.blocks = none /\ f.units = u /\ f.errors = r
  BY <1>2
<1>6. e.units = u /\ e.errors = r /\ e.level + 1 = k
  BY <1>1 DEF k
<1> QED BY <1>4, <1>5, <1>6 DEF f, none

LEMMA Ended ==
  ASSUME NEW e \in Encoders, NEW inner \in Encoders, inner.errors = e.errors, NEW code \in Seq(AnyNode),
         NEW source \in Seq(AnyNode), Placed(code, Levels, inner.max), Accepted(e.units) => Accepted(inner.units)
  PROVE  Kept(e, Emitted(code, source, inner, e))
<1>1. PICK c \in Nat, m \in Nat, l \in Nat, b \in Seq(AnyNode), u \in Seq(Units), r \in SUBSET Faults :
        e = [count |-> c, max |-> m, level |-> l, blocks |-> b, units |-> u, errors |-> r]
  BY DEF Encoders
<1>2. PICK c1 \in Nat, m1 \in Nat, l1 \in Nat, b1 \in Seq(AnyNode), u1 \in Seq(Units), r1 \in SUBSET Faults :
        inner = [count |-> c1, max |-> m1, level |-> l1, blocks |-> b1, units |-> u1, errors |-> r1]
  BY DEF Encoders
<1>3. inner.max = m1 /\ inner.level = l1 /\ inner.units = u1 /\ inner.errors = r /\ r1 = r
  BY <1>1, <1>2
<1> DEFINE unit == [code |-> code, stack |-> inner.max, level |-> inner.level, source |-> source]
           more == Append(u1, unit)
           f == Emitted(code, source, inner, e)
<1>4. unit \in Units /\ unit.code = code /\ unit.stack = inner.max
  BY <1>3 DEF Units
<1>5. f = [count |-> c, max |-> m, level |-> l, blocks |-> b, units |-> more, errors |-> r]
  <2> DEFINE g == EndBlock(inner, e)
  <2>1. g = [count |-> c, max |-> m, level |-> l, blocks |-> b, units |-> u1, errors |-> r]
    <3>1. e.count = c /\ e.max = m /\ e.level = l /\ e.blocks = b
      BY <1>1
    <3>2. g = [inner EXCEPT !.count = c, !.max = m, !.level = l, !.blocks = b]
      BY <3>1 DEF EndBlock
    <3> HIDE DEF g
    <3> QED BY <1>2, <1>3, <3>2
  <2>2. f = [g EXCEPT !.units = more]
    BY <2>1 DEF Emitted
  <2> HIDE DEF g, f, more
  <2> QED BY <2>1, <2>2
<1> HIDE DEF unit
<1>6. /\ more \in Seq(Units) /\ Len(u1) \in Nat /\ Len(more) = Len(u1) + 1 /\ more[Len(u1) + 1] = unit
      /\ \A i \in 1 .. Len(u1) : more[i] = u1[i]
  BY <1>4
<1> HIDE DEF more, f
<1>7. f \in Encoders
  BY <1>5, <1>6 DEF Encoders
<1>8. ASSUME Accepted(u1) PROVE Accepted(more)
  <2> SUFFICES ASSUME NEW i \in 1 .. Len(more) PROVE Placed(more[i].code, Levels, more[i].stack)
    BY DEF Accepted
  <2>1. CASE i = Len(u1) + 1
    BY <1>4, <1>6, <2>1
  <2>2. CASE i # Len(u1) + 1
    <3>1. i \in 1 .. Len(u1)
      BY <1>6, <2>2
    <3> QED BY <1>6, <1>8, <3>1 DEF Accepted
  <2> QED BY <2>1, <2>2
<1>9. Kept(e, f)
  <2>1. e.count = c /\ e.max = m /\ e.level = l /\ e.blocks = b /\ e.errors = r
    BY <1>1
  <2>2. f.count = c /\ f.max = m /\ f.level = l /\ f.blocks = b /\ f.errors = r /\ f.units = more
    BY <1>5
  <2> QED BY <1>3, <1>7, <1>8, <2>1, <2>2 DEF Kept
<1> QED BY <1>9 DEF f

LEMMA UnitEncoded ==
  ASSUME NEW D, D \subseteq AnyNode, NEW within, Translating(within, D), NEW body, Len(body) \in Nat,
         NEW source \in Seq(AnyNode), NEW e \in Encoders,
         \A i \in 1 .. Len(body) : \A f \in Encoders :
            Result(Levels, NodeEncoding[Levels][<<body[i], f>>], f, D)
  PROVE  Kept(e, EncodeUnit(within, body, source, e))
<1> DEFINE enc == NodeEncoding[Levels]
           begin == BeginBlock(e)
           own == EncodeAll(enc, body, begin, 0)
           inner == EncodeBlocks(within, own.e)
<1>1. EncodeUnit(within, body, source, e) = Emitted(own.n, source, inner, e)
  BY DEF EncodeUnit
<1>2. \A i \in 1 .. Len(body) : \A f \in Encoders : Result(Levels, enc[<<body[i], f>>], f, D)
  OBVIOUS
<1>3. begin \in Encoders /\ begin.blocks = <<>> /\ begin.units = e.units /\ begin.errors = e.errors
  BY Begun
<1> HIDE DEF enc, begin
<1>4. AllResult(Levels, own, begin, Len(body), 0, D)
  <2>1. 0 \in 0 .. Len(body)
    OBVIOUS
  <2> QED BY <1>2, <1>3, <2>1, AllEncoded
<1> HIDE DEF own
<1>5. /\ own.n \in Seq(AnyNode) /\ Len(own.n) = Len(body) /\ own.e \in Encoders
      /\ own.e.units = e.units /\ own.e.errors = e.errors
      /\ \A i \in 1 .. Len(body) : Settled(own.n[i], own.e, Levels)
  BY <1>3, <1>4 DEF AllResult, Grown, AnyNode
<1>6. own.e.blocks \in Seq(D)
  <2>1. PICK more \in Seq(D) : own.e.blocks = begin.blocks \o more
    BY <1>4 DEF AllResult, Grown
  <2>2. <<>> \o more = more
    OBVIOUS
  <2> QED BY <1>3, <2>1, <2>2
<1>7. Kept(own.e, inner)
  BY <1>5, <1>6, BlocksTranslated
<1> HIDE DEF inner
<1>8. inner \in Encoders /\ inner.errors = e.errors /\ inner.max = own.e.max /\ (Accepted(e.units) => Accepted(inner.units))
  BY <1>5, <1>7 DEF Kept
<1>9. Placed(own.n, Levels, inner.max)
  <2>1. IsCode(own.n)
    BY <1>5 DEF IsCode
  <2> QED BY <1>5, <1>8, <2>1 DEF Placed, Settled
<1>10. Kept(e, Emitted(own.n, source, inner, e))
  BY <1>5, <1>8, <1>9, Ended
<1> QED BY <1>1, <1>10

LEMMA HolderIn ==
  ASSUME NEW d \in Nat, NEW v \in Nodes[d], NEW how \in {"return", "localReturn"}
  PROVE  Node(how, "^", <<v>>) \in Nodes[d + 1] /\ Node(how, "^", <<v>>).kind = how
<1> DEFINE n == Node(how, "^", <<v>>)
           S == Nodes[d]
           sub == <<v>>
           up == "^"
           i == d + 1
<1>1. n = [kind |-> how, name |-> up, value |-> 0, sub |-> sub, cascades |-> <<>>, loc |-> 0, gen |-> "send"]
  BY DEF Node
<1>2. how \in Kinds /\ up \in Names /\ "send" \in Gens /\ v \in S /\ how \notin {"variable", "literal", "send"}
      /\ how \in {"assign", "return", "localReturn"}
  BY MethodsAssumption DEF Kinds, Gens, Forms
<1>3. i \in Nat /\ i # 0 /\ i - 1 = d
  OBVIOUS
<1> HIDE DEF n, S, up, i
<1>4. sub \in Seq(S) /\ Len(sub) = 1
  BY ONLY <1>2
<1>5. \A X : <<>> \in Seq(X)
  OBVIOUS
<1> HIDE DEF sub
<1>6. Typed(n, S) /\ n.kind = how /\ n.sub = sub
  BY <1>1, <1>2, <1>4, <1>5 DEF Typed
<1>7. Parsed(n)
  BY <1>2, <1>4, <1>6 DEF Parsed
<1>8. n \in Nodes[i]
  BY <1>3, <1>6, <1>7, NodeIn DEF S
<1> QED BY <1>6, <1>8 DEF n, i, sub, up

LEMMA StatementSound ==
  ASSUME NEW d \in 0 .. Levels, NEW n \in Nodes[d], NEW f \in Encoders
  PROVE  Result(Levels, NodeEncoding[Levels][<<n, f>>], f, Held(n, d))
<1> DEFINE x == NodeEncoding[Levels][<<n, f>>]
<1>1. Sound(Levels) /\ Levels \in Nat /\ Levels \in 0 .. Levels
  BY NodesEncoded, LevelsNat
<1>2. n \in Nodes[Levels]
  BY <1>1, NodesGrow
<1>3. Result(Levels, x, f, Held(n, Levels)) /\ Result(d, x, f, Held(n, d))
  BY <1>1, <1>2 DEF Sound
<1> HIDE DEF x
<1>4. Result(Levels, x, f, Held(n, d))
  BY <1>3 DEF Result
<1> QED BY <1>4 DEF x

LEMMA BlockEncodingIs ==
  ASSUME NEW j \in Nat, NEW b \in Awaiting(j), NEW e \in Encoders
  PROVE  BlockEncoding[j][<<b, e>>] =
            EncodeUnit(IF j = 0 THEN <<>> ELSE BlockEncoding[j - 1], BlockBody(b), b.sub, e)
<1> DEFINE below == BlockEncoding[j - 1]
<1>1. BlockEncoding[j] = BlocksAt(j, below)
  BY BlocksIs
<1> HIDE DEF below
<1> QED BY <1>1 DEF BlocksAt, below, Awaiting

\* A block's statements: those of the parse node, the last in a return.
LEMMA BodyIn ==
  ASSUME NEW d \in Nat, NEW b \in Nodes[d + 1]
  PROVE  /\ Len(BlockBody(b)) \in Nat
         /\ \A i \in 1 .. Len(BlockBody(b)) :
               \/ BlockBody(b)[i] \in Nodes[d]
               \/ BlockBody(b)[i] \in Nodes[d + 1] /\ BlockBody(b)[i].kind = "localReturn"
<1> DEFINE s == Statements(b)
           S == Nodes[d]
           T == Nodes[d + 1]
           body == BlockBody(b)
<1>1. s \in Seq(S) /\ Len(s) \in Nat /\ \A i \in 1 .. Len(s) : s[i] \in S
  <2>1. d + 1 \in Nat /\ d + 1 # 0 /\ (d + 1) - 1 = d
    OBVIOUS
  <2> QED BY <2>1, StatementsIn
<1>2. \A v \in S : LocalReturn(v) \in T /\ LocalReturn(v).kind = "localReturn"
  BY HolderIn DEF LocalReturn
<1>3. body = IF Last(s).kind = "return" THEN s
             ELSE [i \in DOMAIN s |-> IF i = Len(s) THEN LocalReturn(s[i]) ELSE s[i]]
  BY DEF BlockBody
<1> HIDE DEF s, S, T, body
<1> SUFFICES /\ Len(body) \in Nat
             /\ \A i \in 1 .. Len(body) : body[i] \in S \/ (body[i] \in T /\ body[i].kind = "localReturn")
  BY DEF body, S, T
<1>4. CASE Last(s).kind = "return"
  BY <1>1, <1>3, <1>4
<1>5. CASE Last(s).kind # "return"
  <2>1. body = [i \in 1 .. Len(s) |-> IF i = Len(s) THEN LocalReturn(s[i]) ELSE s[i]]
    BY <1>1, <1>3, <1>5
  <2>2. Len(body) = Len(s) /\ \A i \in 1 .. Len(s) : body[i] = IF i = Len(s) THEN LocalReturn(s[i]) ELSE s[i]
    BY <1>1, <2>1
  <2> QED BY <1>1, <1>2, <2>2
<1> QED BY <1>4, <1>5

LEMMA BlocksSound == \A d \in Nat : d <= Levels => Translating(BlockEncoding[d], Awaiting(d))
<1> DEFINE Shown == {d \in Nat : d <= Levels => Translating(BlockEncoding[d], Awaiting(d))}
<1>1. 0 \in Shown
  <2>1. Awaiting(0) = {}
    BY Lowest DEF Awaiting
  <2> QED BY <2>1 DEF Translating
<1>2. ASSUME NEW d \in Nat, d \in Shown PROVE d + 1 \in Shown
  <2> DEFINE i == d + 1
             within == BlockEncoding[d]
             D == Awaiting(d)
  <2>1. i \in Nat /\ i # 0 /\ i - 1 = d
    OBVIOUS
  <2>2. SUFFICES ASSUME i <= Levels PROVE Translating(BlockEncoding[i], Awaiting(i))
    BY <2>1
  <2>3. d <= Levels /\ d \in 0 .. Levels /\ i \in 0 .. Levels
    BY <2>1, <2>2, LevelsNat
  <2>4. Translating(within, D) /\ D \subseteq AnyNode
    BY <1>2, <2>3, AwaitingGrows
  <2>5. ASSUME NEW b \in Awaiting(i), NEW e \in Encoders PROVE Kept(e, BlockEncoding[i][<<b, e>>])
    <3> DEFINE body == BlockBody(b)
               source == b.sub
    <3>1. BlockEncoding[i][<<b, e>>] = EncodeUnit(within, body, source, e)
      BY <2>1, BlockEncodingIs
    <3>2. b \in Nodes[i]
      BY DEF Awaiting
    <3>3. source \in Seq(AnyNode)
      <4>1. source \in Seq(Nodes[d])
        BY <2>1, <3>2, NodeIs DEF Typed
      <4>2. Nodes[d] \subseteq AnyNode
        BY <2>3, LevelsNat, NodesGrow DEF AnyNode
      <4> HIDE DEF source
      <4> QED BY <4>1, <4>2, SeqGrows
    <3>4. /\ Len(body) \in Nat
          /\ \A k \in 1 .. Len(body) :
                body[k] \in Nodes[d] \/ (body[k] \in Nodes[i] /\ body[k].kind = "localReturn")
      BY <3>2, BodyIn
    <3> HIDE DEF body, source, within, i, D
    <3>5. ASSUME NEW k \in 1 .. Len(body), NEW f \in Encoders
          PROVE  Result(Levels, NodeEncoding[Levels][<<body[k], f>>], f, D)
      <4> DEFINE n == body[k]
                 x == NodeEncoding[Levels][<<n, f>>]
      <4>1. \E H : H \subseteq D /\ Result(Levels, x, f, H)
        <5>1. CASE n \in Nodes[d]
          <6>1. Result(Levels, x, f, Held(n, d))
            BY <2>3, <5>1, StatementSound
          <6>2. Held(n, d) \subseteq D
            BY AwaitingGrows DEF D
          <6> HIDE DEF x, n
          <6> QED BY <6>1, <6>2
        <5>2. CASE n \in Nodes[i] /\ n.kind = "localReturn"
          <6>1. Result(Levels, x, f, Held(n, i))
            BY <2>3, <5>2, StatementSound
          <6>2. Held(n, i) \subseteq D
            BY <2>1, <5>2 DEF Held, Under, D
          <6> HIDE DEF x, n
          <6> QED BY <6>1, <6>2
        <5> QED BY <3>4, <5>1, <5>2
      <4> HIDE DEF x, n
      <4>2. Result(Levels, x, f, D)
        BY <4>1, ResultMore
      <4> QED BY <4>2 DEF x, n
    <3>6. Kept(e, EncodeUnit(within, body, source, e))
      BY <2>4, <3>3, <3>4, <3>5, UnitEncoded
    <3> QED BY <3>1, <3>6
  <2> QED BY <2>5 DEF Translating
<1> HIDE DEF Shown
<1>3. \A d \in Nat : d \in Shown
  BY <1>1, <1>2, Upward
<1> QED BY <1>3 DEF Shown

\* The method: its statements, and ^self if need be.
LEMMA MethodBodyIn ==
  ASSUME NEW s \in Seq(AnyNode)
  PROVE  Len(MethodBody(s)) \in Nat /\ \A i \in 1 .. Len(MethodBody(s)) : MethodBody(s)[i] \in AnyNode
<1> DEFINE S == AnyNode
           v == Return(Var("self"))
<1>1. v \in S
  <2>1. "self" \in Names /\ 0 \in Nat /\ 0 + 1 = 1 /\ 1 \in 0 .. Levels
    BY MethodsAssumption
  <2>2. Var("self") \in Nodes[0]
    BY <2>1, VariableIn
  <2>3. v \in Nodes[1]
    BY <2>1, <2>2, HolderIn DEF Return
  <2> HIDE DEF v
  <2> QED BY <2>1, <2>3, LevelsNat, NodesGrow DEF AnyNode
<1>2. MethodBody(s) = s \/ MethodBody(s) = Append(s, v)
  BY DEF MethodBody
<1> HIDE DEF v, S
<1>3. s \in Seq(S)
  BY DEF S
<1>4. Append(s, v) \in Seq(S)
  BY ONLY <1>1, <1>3
<1> DEFINE body == MethodBody(s)
<1>5. body \in Seq(S)
  BY <1>2, <1>3, <1>4
<1> HIDE DEF body
<1>6. Len(body) \in Nat /\ \A i \in 1 .. Len(body) : body[i] \in S
  BY ONLY <1>5
<1> QED BY <1>6 DEF body, S

LEMMA MethodEncoded ==
  ASSUME NEW s \in Seq(AnyNode)
  PROVE  LET e == EncodeUnit(BlockEncoding[Levels], MethodBody(s), s, NewEncoder)
         IN  e.units \in Seq(Units) /\ e.errors = {} /\ Accepted(e.units)
<1> DEFINE D == Awaiting(Levels)
           within == BlockEncoding[Levels]
           body == MethodBody(s)
           new == NewEncoder
           e == EncodeUnit(within, body, s, new)
<1>1. Translating(within, D) /\ D \subseteq AnyNode
  BY LevelsNat, BlocksSound, AwaitingGrows
<1>2. Len(body) \in Nat /\ \A i \in 1 .. Len(body) : body[i] \in AnyNode
  BY MethodBodyIn
<1>3. new \in Encoders /\ new.units = <<>> /\ new.errors = {}
  <2>1. \A X : <<>> \in Seq(X)
    OBVIOUS
  <2>2. new = [count |-> 0, max |-> 0, level |-> 0, blocks |-> <<>>, units |-> <<>>, errors |-> {}]
    BY DEF NewEncoder
  <2> HIDE DEF new
  <2> QED BY <2>1, <2>2, EncoderIs
<1> HIDE DEF body, within, D, new
<1>4. ASSUME NEW i \in 1 .. Len(body), NEW f \in Encoders
      PROVE  Result(Levels, NodeEncoding[Levels][<<body[i], f>>], f, D)
  <2> DEFINE n == body[i]
             x == NodeEncoding[Levels][<<n, f>>]
             H == Held(n, Levels)
  <2>1. Levels \in 0 .. Levels /\ n \in Nodes[Levels]
    BY <1>2, LevelsNat DEF AnyNode
  <2>2. Result(Levels, x, f, H)
    BY <2>1, StatementSound
  <2>3. H \subseteq D
    BY LevelsNat, AwaitingGrows DEF D
  <2> HIDE DEF n, x, H
  <2>4. Result(Levels, x, f, D)
    BY <2>2, <2>3, ResultMore
  <2> QED BY <2>4 DEF n, x
<1>5. Kept(new, e)
  BY <1>1, <1>2, <1>3, <1>4, UnitEncoded
<1> HIDE DEF e
<1>6. Accepted(<<>>)
  BY DEF Accepted
<1>7. e.units \in Seq(Units) /\ e.errors = {} /\ Accepted(e.units)
  BY <1>3, <1>5, <1>6, EncoderIs DEF Kept
<1> QED BY <1>7 DEF e, within, body, new

-----------------------------------------------------------------------------
(* The code of the units of a method.                                       *)
AfterUnit(us, i, r) ==
    LET g == GenAll(NodeCode[Levels], us[i].code, r.k)
    IN  [k |-> g.k, u |-> Append(r.u, [us[i] EXCEPT !.code = g.c])]
Emits(t, n, us, s) ==
    t = [i \in 0 .. n |-> IF i = 0 THEN s ELSE AfterUnit(us, i, t[i - 1])]
LEMMA EmitsMade ==
  ASSUME NEW n \in Nat, NEW us, NEW s
  PROVE  \E t : Emits(t, n, us, s)
<1> DEFINE Shown == {m \in Nat : \E t : Emits(t, m, us, s)}
<1>1. 0 \in Shown
  <2> DEFINE t == [i \in 0 .. 0 |-> s]
  <2>1. t = [i \in 0 .. 0 |-> IF i = 0 THEN s ELSE AfterUnit(us, i, t[i - 1])]
    OBVIOUS
  <2>2. Emits(t, 0, us, s)
    BY <2>1 DEF Emits
  <2> QED BY <2>2
<1>2. ASSUME NEW m \in Nat, m \in Shown PROVE m + 1 \in Shown
  <2>1. PICK g : Emits(g, m, us, s)
    BY <1>2
  <2> DEFINE t == [i \in 0 .. m + 1 |-> IF i = m + 1 THEN AfterUnit(us, m + 1, g[m]) ELSE g[i]]
  <2>2. t = [i \in 0 .. m + 1 |-> t[i]]
    OBVIOUS
  <2>3. t[m + 1] = AfterUnit(us, m + 1, g[m]) /\ \A i \in 0 .. m : t[i] = g[i]
    OBVIOUS
  <2> HIDE DEF t
  <2>4. ASSUME NEW i \in 0 .. m + 1
        PROVE  t[i] = IF i = 0 THEN s ELSE AfterUnit(us, i, t[i - 1])
    <3>1. CASE i = m + 1
      <4>1. m \in 0 .. m /\ i - 1 = m /\ i # 0
        BY <3>1
      <4> QED BY <2>3, <3>1, <4>1
    <3>2. CASE i # m + 1
      <4>1. i \in 0 .. m /\ (i # 0 => i - 1 \in 0 .. m)
        BY <3>2
      <4>2. g[i] = IF i = 0 THEN s ELSE AfterUnit(us, i, g[i - 1])
        BY <2>1, <4>1 DEF Emits
      <4> QED BY <2>3, <4>1, <4>2
    <3> QED BY <3>1, <3>2
  <2>5. Emits(t, m + 1, us, s)
    BY <2>2, <2>4 DEF Emits
  <2> QED BY <2>5
<1> HIDE DEF Shown
<1>3. n \in Shown
  BY <1>1, <1>2, Upward
<1> QED BY <1>3 DEF Shown

\* A unit whose code refers to its own labels and variables only.
Linked(unit) == unit.stack \in Nat /\ \E L : Piece(unit.code, L, L, unit.stack)

LEMMA UnitLinked ==
  ASSUME NEW unit \in Units, Placed(unit.code, Levels, unit.stack), NEW k \in Nat
  PROVE  LET g == GenAll(NodeCode[Levels], unit.code, k)
         IN  Linked([unit EXCEPT !.code = g.c]) /\ g.k \in Nat
<1> DEFINE gen == NodeCode[Levels]
           ns == unit.code
           m == unit.stack
           g == GenAll(gen, ns, k)
           c == g.c
           z == [unit EXCEPT !.code = c]
<1>1. m \in Nat /\ IsCode(ns) /\ \A i \in 1 .. Len(ns) : Fine(Levels, ns[i], m)
  BY DEF Placed, Units
<1>2. \A i \in 1 .. Len(ns) : \A h \in Nat : Tidy(gen[<<ns[i], h>>], h, m)
  BY <1>1 DEF Fine
<1>3. Len(ns) \in Nat
  BY <1>1 DEF IsCode
<1> HIDE DEF gen, m, ns
<1>4. Tidy(g, k, m)
  BY <1>1, <1>2, <1>3, GenAllIs
<1> HIDE DEF g
<1>5. g.k \in Nat /\ \E L : Piece(c, L, L, m)
  BY <1>4 DEF Tidy
<1> HIDE DEF c
<1>6. z.code = c /\ z.stack = m
  BY DEF Units, m
<1> HIDE DEF z
<1>7. Linked(z)
  BY <1>1, <1>5, <1>6 DEF Linked
<1> QED BY <1>5, <1>7 DEF z, c, g, gen, ns

LEMMA AllLinked ==
  ASSUME NEW us \in Seq(Units), Accepted(us), NEW u, u[0] = [k |-> 0, u |-> <<>>],
         \A i \in 1 .. Len(us) : u[i] = AfterUnit(us, i, u[i - 1])
  PROVE  \A i \in DOMAIN u[Len(us)].u : Linked(u[Len(us)].u[i])
<1> DEFINE l == Len(us)
           Fit(r) == r.k \in Nat /\ IsCode(r.u) /\ \A i \in 1 .. Len(r.u) : Linked(r.u[i])
<1>1. l \in Nat /\ \A i \in 1 .. l : us[i] \in Units
  OBVIOUS
<1>2. Fit(u[0])
  <2> DEFINE r == u[0]
             none == <<>>
  <2>1. r = [k |-> 0, u |-> none]
    OBVIOUS
  <2>2. Len(none) = 0 /\ none \in Seq({}) /\ 1 .. 0 = {}
    OBVIOUS
  <2> HIDE DEF r, none
  <2>3. r.k = 0 /\ r.u = none
    BY <2>1
  <2>4. IsCode(r.u)
    BY <2>2, <2>3 DEF IsCode
  <2> QED BY <2>2, <2>3, <2>4 DEF r
<1>3. ASSUME NEW i \in 1 .. l, NEW r, Fit(r) PROVE Fit(AfterUnit(us, i, r))
  <2> DEFINE unit == us[i]
             g == GenAll(NodeCode[Levels], unit.code, r.k)
             x == [unit EXCEPT !.code = g.c]
             a == r.u
             more == Append(a, x)
             z == AfterUnit(us, i, r)
  <2>1. unit \in Units /\ Placed(unit.code, Levels, unit.stack) /\ r.k \in Nat /\ IsCode(a)
        /\ \A h \in 1 .. Len(a) : Linked(a[h])
    BY <1>1, <1>3 DEF Accepted
  <2>2. z = [k |-> g.k, u |-> more]
    BY DEF AfterUnit
  <2> HIDE DEF unit, z, a
  <2>3. Linked(x) /\ g.k \in Nat
    BY <2>1, UnitLinked
  <2> HIDE DEF g, x
  <2>4. /\ IsCode(more) /\ Len(a) \in Nat /\ Len(more) = Len(a) + 1 /\ more[Len(a) + 1] = x
        /\ \A h \in 1 .. Len(a) : more[h] = a[h]
    BY <2>1, CodeAppends
  <2> HIDE DEF more
  <2>5. z.k = g.k /\ z.u = more
    BY <2>2
  <2>6. ASSUME NEW h \in 1 .. Len(more) PROVE Linked(more[h])
    <3>1. CASE h = Len(a) + 1
      BY <2>3, <2>4, <3>1
    <3>2. CASE h # Len(a) + 1
      <4>1. h \in 1 .. Len(a)
        BY <2>4, <3>2
      <4> QED BY <2>1, <2>4, <4>1
    <3> QED BY <3>1, <3>2
  <2>7. Fit(z)
    BY <2>3, <2>4, <2>5, <2>6
  <2> QED BY <2>7 DEF z
<1> HIDE DEF Fit
<1> DEFINE Shown == {i \in 0 .. l : Fit(u[i])}
<1>4. \A i \in 1 .. l : i - 1 \in Shown => i \in Shown
  BY <1>1, <1>3
<1>5. 0 \in Shown
  BY <1>1, <1>2
<1> HIDE DEF Shown
<1>6. l \in Shown
  BY <1>1, <1>4, <1>5, UpTo
<1>7. Fit(u[l])
  BY <1>6 DEF Shown
<1> DEFINE s == u[l].u
<1>8. IsCode(s) /\ \A i \in 1 .. Len(s) : Linked(s[i])
  BY <1>7 DEF Fit
<1> HIDE DEF s
<1>9. DOMAIN s = 1 .. Len(s)
  BY <1>8 DEF IsCode
<1>10. \A i \in DOMAIN s : Linked(s[i])
  BY <1>8, <1>9
<1> QED BY <1>10 DEF s

-----------------------------------------------------------------------------
\* What holds of a method, before and after it is translated.
CodeSound ==
    /\ method \in Methods /\ fault = {}
    /\ \A i \in DOMAIN units : Linked(units[i])

LEMMA CompileSound ==
  ASSUME method \in Methods, Compile
  PROVE  CodeSound'
<1> DEFINE e == EncodeUnit(BlockEncoding[Levels], MethodBody(method), method, NewEncoder)
           us == e.units
           l == Len(us)
           s == [k |-> 0, u |-> <<>>]
<1>1. method \in Seq(AnyNode)
  BY MethodsAssumption
<1>2. us \in Seq(Units) /\ e.errors = {} /\ Accepted(us)
  BY <1>1, MethodEncoded
<1>3. units' = (CHOOSE t : Emits(t, l, us, s))[l].u /\ fault' = e.errors /\ method' = method
  <2>1. PICK f \in {e} : /\ units' = (CHOOSE t : Emits(t, Len(f.units), f.units, s))[Len(f.units)].u
                         /\ fault' = f.errors /\ method' = method
    BY DEF Compile, Emits, AfterUnit
  <2> QED BY <2>1
<1> HIDE DEF e, s
<1>4. l \in Nat
  BY <1>2
<1> HIDE DEF us, l
<1>5. PICK u : Emits(u, l, us, s) /\ units' = u[l].u
  BY <1>3, <1>4, EmitsMade
<1>6. u[0] = s /\ \A i \in 1 .. l : u[i] = AfterUnit(us, i, u[i - 1])
  <2>1. 0 \in 0 .. l /\ \A i \in 1 .. l : i \in 0 .. l /\ i # 0
    BY <1>4
  <2> QED BY <1>5, <2>1 DEF Emits
<1>7. \A i \in DOMAIN units' : Linked(units'[i])
  <2>1. u[0] = [k |-> 0, u |-> <<>>] /\ \A i \in 1 .. Len(us) : u[i] = AfterUnit(us, i, u[i - 1])
    BY <1>6 DEF s, l
  <2>2. \A i \in DOMAIN u[Len(us)].u : Linked(u[Len(us)].u[i])
    BY <1>2, <2>1, AllLinked
  <2> QED BY <1>5, <2>2 DEF l
<1>8. fault' = {} /\ method' \in Methods
  BY <1>2, <1>3
<1> QED BY <1>7, <1>8 DEF CodeSound, Linked

LEMMA SoundCompiles == CodeSound => CompilesAsC
<1> SUFFICES ASSUME CodeSound, NEW i \in DOMAIN units
             PROVE  LET c == units[i].code
                        labels == {k \in DOMAIN c : c[k].op = "label"}
                    IN  \A k \in DOMAIN c :
                          /\ ({c[k].loc} \cup {c[k].locs[j] : j \in DOMAIN c[k].locs}) \ {0}
                                \subseteq 1 .. units[i].stack
                          /\ c[k].op \in {"label", "jump"} =>
                                 \E l \in labels : {m \in labels : c[m].arg = c[k].arg} = {l}
  BY DEF CompilesAsC
<1> DEFINE c == units[i].code
           s == units[i].stack
           labels == {k \in DOMAIN c : c[k].op = "label"}
<1>1. s \in Nat /\ \E L : Piece(c, L, L, s)
  BY DEF CodeSound, Linked
<1> HIDE DEF c, s
<1> SUFFICES ASSUME NEW k \in DOMAIN c
             PROVE  /\ ({c[k].loc} \cup {c[k].locs[j] : j \in DOMAIN c[k].locs}) \ {0} \subseteq 1 .. s
                    /\ c[k].op \in {"label", "jump"} =>
                           \E l \in labels : {m \in labels : c[m].arg = c[k].arg} = {l}
  BY DEF c, s
<1>2. PICK L : Piece(c, L, L, s)
  BY <1>1
<1>3. DOMAIN c = 1 .. Len(c)
  BY <1>2 DEF Piece, IsCode
<1>4. Within(c[k], s) /\ (c[k].op \in {"label", "jump"} => c[k].arg \in L)
  BY <1>2, <1>3 DEF Piece
<1>5. ({c[k].loc} \cup {c[k].locs[j] : j \in DOMAIN c[k].locs}) \ {0} \subseteq 1 .. s
  <2>1. \A x \in 0 .. s : x # 0 => x \in 1 .. s
    BY <1>1
  <2> QED BY <1>4, <2>1 DEF Within
<1>6. ASSUME c[k].op \in {"label", "jump"}
      PROVE  \E l \in labels : {m \in labels : c[m].arg = c[k].arg} = {l}
  <2>1. PICK l \in 1 .. Len(c) : LabelAt(c, l, c[k].arg) /\ \A h \in 1 .. Len(c) : LabelAt(c, h, c[k].arg) => h = l
    BY <1>2, <1>4, <1>6 DEF Piece
  <2>2. l \in labels /\ c[l].arg = c[k].arg
    BY <1>3, <2>1 DEF LabelAt
  <2>3. \A m \in labels : c[m].arg = c[k].arg => m = l
    BY <1>3, <2>1 DEF LabelAt
  <2> QED BY <2>2, <2>3
<1> QED BY <1>5, <1>6

\* What is executed has been translated as it is.
LEMMA ExecutionKeeps ==
  ASSUME CodeNext, ~Compile
  PROVE  UNCHANGED <<method, units, fault>>
BY DEF CodeNext, Enter, Label, Load, Read, Write, Sends, Jump, Compare, TaggedAdd, Returns, Execute

(***************************************************************************)
(* However deep a method's sends, blocks and cascades are inside one        *)
(* another: every body made of it is linked, its labels defined once and    *)
(* its variables declared, and no assertion of the compiler failed.         *)
(***************************************************************************)
THEOREM MethodsSound == CodeSpec => []CodeSound
<1>1. CodeInit => CodeSound
  BY DEF CodeInit, CodeSound
<1>2. CodeSound /\ [CodeNext]_codeVars => CodeSound'
  <2> SUFFICES ASSUME CodeSound, [CodeNext]_codeVars PROVE CodeSound'
    OBVIOUS
  <2>1. CASE Compile
    BY <2>1, CompileSound DEF CodeSound
  <2>2. CASE CodeNext /\ ~Compile
    BY <2>2, ExecutionKeeps DEF CodeSound, Linked
  <2>3. CASE UNCHANGED codeVars
    BY <2>3 DEF CodeSound, Linked, codeVars
  <2> QED BY <2>1, <2>2, <2>3
<1> QED BY <1>1, <1>2, PTL DEF CodeSpec

(***************************************************************************)
(* The C compiler accepts the body of every method and block: the numbers   *)
(* Encoder>>beginBlock saves and endBlock restores declare every _n that    *)
(* CCodeGenerator writes, and pushLabel never gives a label twice.          *)
(***************************************************************************)
THEOREM MethodsCompile == CodeSpec => []CompilesAsC
BY MethodsSound, SoundCompiles, PTL

(***************************************************************************)
(* No 'internal compiler error' of SendNode is raised and Encoder>>pop:     *)
(* never goes below zero: a part that is compiled in line has its value     *)
(* where the send that it is a part of has its own.                         *)
(***************************************************************************)
THEOREM MethodsTranslate == CodeSpec => []NoInternalError
<1>1. CodeSound => NoInternalError
  BY DEF CodeSound, NoInternalError
<1> QED BY <1>1, MethodsSound, PTL

=============================================================================
