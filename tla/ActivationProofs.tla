-------------------------- MODULE ActivationProofs --------------------------
(***************************************************************************)
(* Proofs about Activation.  The four invariants are proved together: that *)
(* a non-local return leaves the records below its home alone follows from *)
(* cookies being ordered, and that the record it writes a line into exists *)
(* follows from the record of the running activation being in the stack.   *)
(***************************************************************************)
EXTENDS Activation, SequenceTheorems, TLAPS

IInv == TypeOK /\ HomesLive /\ RecordsIntact /\ StaleRecordsConfined

(***************************************************************************)
(* The array after room was made for one more record: longer than the      *)
(* records in use, which are where they were.                              *)
(***************************************************************************)
LEMMA RoomForOneMore ==
  ASSUME NEW p \in Seq(Record \cup {Junk}), position \in 0..Len(p)
  PROVE  /\ RoomFor(p) \in Seq(Record \cup {Junk})
         /\ Len(RoomFor(p)) \in Nat
         /\ position < Len(RoomFor(p))
         /\ \A i \in 1..position : RoomFor(p)[i] = p[i]
<1>0. Len(p) \in Nat /\ FirstSize \in Nat \ {0}
  BY ActivationAssumption
<1>1. CASE position >= Len(p)
  <2> DEFINE size == IF p = <<>> THEN FirstSize ELSE 2 * Len(p)
             g == [i \in 1..size |-> IF i <= Len(p) THEN p[i] ELSE Junk]
  <2>1. size \in Nat /\ size > Len(p)
    <3>1. CASE p = <<>>
      BY <1>0, <3>1
    <3>2. CASE p # <<>>
      <4>1. Len(p) > 0
        BY <1>0, <3>2, EmptySeq
      <4> QED BY <1>0, <3>2, <4>1
    <3> QED BY <3>1, <3>2
  <2>2. \A i \in 1..size : (IF i <= Len(p) THEN p[i] ELSE Junk) \in Record \cup {Junk}
    BY <1>0, <2>1
  <2>3. g \in Seq(Record \cup {Junk}) /\ Len(g) = size
    <3> HIDE DEF size
    <3> QED BY <2>1, <2>2, IsASeq
  <2>4. \A i \in 1..position : g[i] = p[i]
    <3> HIDE DEF size
    <3> QED BY <1>0, <2>1
  <2>5. RoomFor(p) = g
    BY <1>1 DEF RoomFor, Grown
  <2> QED
    <3> HIDE DEF size, g
    <3> QED BY <1>0, <1>1, <2>1, <2>3, <2>4, <2>5
<1>2. CASE ~(position >= Len(p))
  BY <1>0, <1>2 DEF RoomFor
<1> QED BY <1>1, <1>2

(***************************************************************************)
(* Rewriting the topmost line changes no other record and no info.         *)
(***************************************************************************)
LEMMA LineKeepsInfos ==
  ASSUME TypeOK, NEW n \in Line
  PROVE  /\ Lined(positions, n) \in Seq(Record \cup {Junk})
         /\ position \in 0..Len(Lined(positions, n))
         /\ \A i \in 1..position :
              /\ Lined(positions, n)[i] \in Record
              /\ Lined(positions, n)[i].info = positions[i].info
              /\ Lined(positions, n)[i].line =
                   IF i = position THEN n ELSE positions[i].line
<1> DEFINE p == Lined(positions, n)
<1>0. Len(positions) \in Nat /\ DOMAIN positions = 1..Len(positions)
  BY DEF TypeOK
<1>1. \A i \in 1..position : positions[i] \in Record
  BY <1>0 DEF TypeOK
<1>2. \A i \in 1..Len(positions) :
        (IF i = position THEN Noted(positions[i].info, n) ELSE positions[i])
          \in Record \cup {Junk}
  BY <1>0, <1>1 DEF TypeOK, Noted, Record
<1>3. p \in Seq(Record \cup {Junk}) /\ Len(p) = Len(positions)
  BY <1>0, <1>2, IsASeq DEF Lined
<1>4. \A i \in 1..position : p[i] = IF i = position THEN Noted(positions[i].info, n) ELSE positions[i]
  BY <1>0 DEF Lined, TypeOK
<1>5. \A i \in 1..position :
        /\ p[i] \in Record
        /\ p[i].info = positions[i].info
        /\ p[i].line = IF i = position THEN n ELSE positions[i].line
  <2> SUFFICES ASSUME NEW i \in 1..position
               PROVE  /\ p[i] \in Record
                      /\ p[i].info = positions[i].info
                      /\ p[i].line = IF i = position THEN n ELSE positions[i].line
    OBVIOUS
  <2>1. positions[i] \in Record /\ positions[i].info \in Unit
    BY <1>1 DEF Record
  <2>2. p[i] = IF i = position THEN Noted(positions[i].info, n) ELSE positions[i]
    BY <1>4
  <2> HIDE DEF p
  <2> QED BY <2>1, <2>2 DEF Noted, Record
<1>6. position \in 0..Len(p)
  BY <1>3 DEF TypeOK
<1> QED BY <1>3, <1>5, <1>6

(***************************************************************************)
(* The running activation: its record exists.                              *)
(***************************************************************************)
LEMMA RunningTop ==
  ASSUME TypeOK, Running
  PROVE  /\ Len(frames) \in Nat \ {0}
         /\ Top \in Frame
         /\ Below(frames) \in Seq(Frame)
         /\ Len(Below(frames)) = Len(frames) - 1
         /\ \A i \in 1..(Len(frames) - 1) : Below(frames)[i] = frames[i]
<1>1. Len(frames) \in Nat \ {0}
  BY EmptySeq DEF TypeOK, Running
<1>2. Top \in Frame
  BY <1>1 DEF Top, TypeOK
<1>3. Below(frames) \in Seq(Frame) /\ Len(Below(frames)) = Len(frames) - 1
      /\ \A i \in 1..(Len(frames) - 1) : Below(frames)[i] = frames[i]
  <2>1. frames \in Seq(Frame) /\ Len(frames) - 1 \in Nat /\ Len(frames) - 1 <= Len(frames)
    BY <1>1 DEF TypeOK
  <2> DEFINE m == Len(frames) - 1
  <2> HIDE DEF m
  <2>2. m \in Nat /\ m <= Len(frames) /\ 1..m \subseteq 1..Len(frames)
    BY <1>1, <2>1 DEF m
  <2>3. SubSeq(frames, 1, m) \in Seq(Frame) /\ Len(SubSeq(frames, 1, m)) = m
        /\ \A i \in 1..m : SubSeq(frames, 1, m)[i] = frames[i]
    BY <2>1, <2>2
  <2> QED BY <2>3 DEF Below, m
<1> QED BY <1>1, <1>2, <1>3

LEMMA Frames ==
  ASSUME NEW u \in Unit, NEW h \in Nat, NEW c \in Nat, NEW n \in Line, NEW e \in BOOLEAN
  PROVE  /\ Activated(u, h, c, n, e) \in Frame
         /\ Activated(u, h, c, n, e).unit = u
         /\ Activated(u, h, c, n, e).home = h
         /\ Activated(u, h, c, n, e).cookie = c
         /\ Activated(u, h, c, n, e).line = n
         /\ Activated(u, h, c, n, e).escapedTo = e
BY DEF Activated, Frame

(***************************************************************************)
(* What a send does to the stacks, in terms of their elements.             *)
(***************************************************************************)
LEMMA EnterEffect ==
  ASSUME TypeOK, Running, NEW u \in Unit, NEW h \in Nat, NEW n \in Line, Enter(u, h, n)
  PROVE  /\ frames' \in Seq(Frame) /\ Len(frames') = Len(frames) + 1
         /\ \A i \in 1..Len(frames) :
              /\ frames'[i].unit = frames[i].unit
              /\ frames'[i].home = frames[i].home
              /\ frames'[i].cookie = frames[i].cookie
              /\ frames'[i].line = IF i = Len(frames) THEN n ELSE frames[i].line
              /\ frames'[i].escapedTo = frames[i].escapedTo
         /\ frames'[Len(frames) + 1].unit = u
         /\ frames'[Len(frames) + 1].home = h
         /\ frames'[Len(frames) + 1].cookie = position
         /\ frames'[Len(frames) + 1].line = Start[u]
         /\ position' = position + 1
         /\ positions' \in Seq(Record \cup {Junk})
         /\ position' \in 0..Len(positions')
         /\ \A i \in 1..position' : positions'[i] # Junk
         /\ \A i \in 1..position :
              /\ positions'[i].info = positions[i].info
              /\ positions'[i].line = IF i = position THEN n ELSE positions[i].line
         /\ positions'[position + 1].info = u
         /\ positions'[position + 1].line = Start[u]
<1> DEFINE line == Lined(positions, n)
           room == RoomFor(line)
           t == At(Top, n)
           a == Activated(u, h, position, Start[u], FALSE)
<1>0. position \in Nat /\ Start[u] \in Line /\ Junk \notin Record
  BY ActivationAssumption DEF TypeOK, Record
<1>1. /\ line \in Seq(Record \cup {Junk})
      /\ position \in 0..Len(line)
      /\ \A i \in 1..position :
           /\ line[i] \in Record
           /\ line[i].info = positions[i].info
           /\ line[i].line = IF i = position THEN n ELSE positions[i].line
  BY LineKeepsInfos
<1>2. /\ room \in Seq(Record \cup {Junk})
      /\ Len(room) \in Nat
      /\ position < Len(room)
      /\ \A i \in 1..position : room[i] = line[i]
  <2> HIDE DEF line
  <2> QED BY <1>1, RoomForOneMore
<1>3. /\ positions' = [i \in DOMAIN room |->
                        IF i = position + 1 THEN Noted(u, Start[u]) ELSE room[i]]
      /\ position' = position + 1
      /\ frames' = Append(Append(Below(frames), t), a)
  BY DEF Enter
<1>4. Noted(u, Start[u]) \in Record /\ Noted(u, Start[u]).info = u
      /\ Noted(u, Start[u]).line = Start[u]
  BY <1>0 DEF Noted, Record
<1> HIDE DEF line, room
<1>5. DOMAIN room = 1..Len(room)
  BY <1>2
<1>6. /\ positions' \in Seq(Record \cup {Junk})
      /\ Len(positions') = Len(room)
      /\ \A i \in 1..Len(room) :
           positions'[i] = IF i = position + 1 THEN Noted(u, Start[u]) ELSE room[i]
  <2> DEFINE r == Noted(u, Start[u])
  <2> HIDE DEF r
  <2>1. r \in Record
    BY <1>4 DEF r
  <2>2. \A i \in 1..Len(room) : (IF i = position + 1 THEN r ELSE room[i]) \in Record \cup {Junk}
    BY <1>2, <2>1
  <2>3. positions' = [i \in 1..Len(room) |-> IF i = position + 1 THEN r ELSE room[i]]
    BY <1>3, <1>5 DEF r
  <2>4. positions' \in Seq(Record \cup {Junk}) /\ Len(positions') = Len(room)
    BY <1>2, <2>2, <2>3, IsASeq
  <2> QED BY <2>3, <2>4 DEF r
<1>7. position + 1 \in 1..Len(room) /\ (\A i \in 1..position : i \in 1..Len(room) /\ i # position + 1)
  BY <1>0, <1>2
<1>8. \A i \in 1..position : positions'[i] = line[i]
  BY <1>2, <1>6, <1>7
<1>9. positions'[position + 1] = Noted(u, Start[u])
  BY <1>6, <1>7
<1>10. \A i \in 1..position' : positions'[i] # Junk
  <2>1. \A i \in 1..position : positions'[i] # Junk
    BY <1>0, <1>1, <1>8
  <2>2. positions'[position + 1] # Junk
    BY <1>0, <1>4, <1>9
  <2>3. \A i \in 1..(position + 1) : i \in 1..position \/ i = position + 1
    BY <1>0
  <2> QED BY <1>3, <2>1, <2>2, <2>3
<1>11. position' \in 0..Len(positions')
  BY <1>0, <1>2, <1>3, <1>6
<1>12. /\ Len(frames) \in Nat \ {0}
       /\ Top \in Frame
       /\ Below(frames) \in Seq(Frame)
       /\ Len(Below(frames)) = Len(frames) - 1
       /\ \A i \in 1..(Len(frames) - 1) : Below(frames)[i] = frames[i]
  BY RunningTop
<1>13. /\ t \in Frame
       /\ t.unit = Top.unit /\ t.home = Top.home /\ t.cookie = Top.cookie
       /\ t.line = n /\ t.escapedTo = Top.escapedTo
  <2>1. /\ Top.unit \in Unit /\ Top.home \in Nat /\ Top.cookie \in Nat
        /\ Top.escapedTo \in BOOLEAN
    BY <1>12 DEF Frame
  <2> QED BY <2>1, Frames DEF At
<1>14. /\ a \in Frame
       /\ a.unit = u /\ a.home = h /\ a.cookie = position /\ a.line = Start[u]
  BY <1>0 DEF Activated, Frame
<1> HIDE DEF t, a
<1>15. /\ frames' \in Seq(Frame) /\ Len(frames') = Len(frames) + 1
       /\ \A i \in 1..(Len(frames) - 1) : frames'[i] = frames[i]
       /\ frames'[Len(frames)] = t
       /\ frames'[Len(frames) + 1] = a
  BY <1>3, <1>12, <1>13, <1>14
<1>16. \A i \in 1..Len(frames) :
              /\ frames'[i].unit = frames[i].unit
              /\ frames'[i].home = frames[i].home
              /\ frames'[i].cookie = frames[i].cookie
              /\ frames'[i].line = IF i = Len(frames) THEN n ELSE frames[i].line
              /\ frames'[i].escapedTo = frames[i].escapedTo
  <2> SUFFICES ASSUME NEW i \in 1..Len(frames)
               PROVE  /\ frames'[i].unit = frames[i].unit
                      /\ frames'[i].home = frames[i].home
                      /\ frames'[i].cookie = frames[i].cookie
                      /\ frames'[i].line = IF i = Len(frames) THEN n ELSE frames[i].line
                      /\ frames'[i].escapedTo = frames[i].escapedTo
    OBVIOUS
  <2>1. CASE i = Len(frames)
    BY <2>1, <1>13, <1>15 DEF Top
  <2>2. CASE i # Len(frames)
    <3>1. i \in 1..(Len(frames) - 1)
      BY <1>12, <2>2
    <3> QED BY <3>1, <2>2, <1>15
  <2> QED BY <2>1, <2>2
<1>17. \A i \in 1..position :
         /\ positions'[i].info = positions[i].info
         /\ positions'[i].line = IF i = position THEN n ELSE positions[i].line
  BY <1>1, <1>8
<1> QED BY <1>3, <1>4, <1>6, <1>9, <1>10, <1>11, <1>14, <1>15, <1>16, <1>17

(***************************************************************************)
(* A send, to a method or to a closure, preserves the invariant.           *)
(***************************************************************************)
LEMMA EnterInductive ==
  ASSUME IInv, Running, NEW u \in Unit, NEW h \in Nat, NEW n \in Line,
         Enter(u, h, n), UNCHANGED <<closures, halted>>,
         u \in Method => h = Len(frames) + 1,
         u \notin Method => LiveHome(h, Len(frames))
  PROVE  IInv'
<1> DEFINE L == Len(frames)
<1>1. TypeOK /\ HomesLive /\ RecordsIntact /\ StaleRecordsConfined
  BY DEF IInv
<1>2. L \in Nat \ {0} /\ position \in Nat /\ ~halted
  BY <1>1, RunningTop DEF TypeOK, Running
<1>3. /\ frames' \in Seq(Frame) /\ Len(frames') = L + 1
      /\ \A i \in 1..L :
              /\ frames'[i].unit = frames[i].unit
              /\ frames'[i].home = frames[i].home
              /\ frames'[i].cookie = frames[i].cookie
              /\ frames'[i].line = IF i = L THEN n ELSE frames[i].line
              /\ frames'[i].escapedTo = frames[i].escapedTo
      /\ frames'[L + 1].unit = u
      /\ frames'[L + 1].home = h
      /\ frames'[L + 1].cookie = position
      /\ frames'[L + 1].line = Start[u]
      /\ position' = position + 1
      /\ positions' \in Seq(Record \cup {Junk})
      /\ position' \in 0..Len(positions')
      /\ \A i \in 1..position' : positions'[i] # Junk
      /\ \A i \in 1..position :
              /\ positions'[i].info = positions[i].info
              /\ positions'[i].line = IF i = position THEN n ELSE positions[i].line
      /\ positions'[position + 1].info = u
      /\ positions'[position + 1].line = Start[u]
  BY <1>1, EnterEffect
<1>4. TypeOK'
  BY <1>1, <1>3 DEF TypeOK
<1>5. \A i \in 1..L : frames[i].cookie \in Nat
  <2>1. \A i \in 1..L : frames[i] \in Frame
    BY <1>1 DEF TypeOK
  <2> QED BY <2>1 DEF Frame
<1>6. \A i \in 1..L :
        /\ frames[i].cookie < position
        /\ \A j \in (i + 1)..L : frames[i].cookie < frames[j].cookie
        /\ positions[frames[i].cookie + 1].info = frames[i].unit
  BY <1>1, <1>2 DEF RecordsIntact
<1> HIDE DEF L
<1>7. \A i \in 1..(L + 1) : i \in 1..L \/ i = L + 1
  BY <1>2
<1>8. \A i \in 1..L : /\ frames[i].cookie + 1 \in 1..position
                      /\ frames[i].cookie < position + 1
                      /\ i # L + 1
  BY <1>2, <1>5, <1>6
<1>9. HomesLive'
  <2>1. \A i \in 1..(L + 1) : LiveHome(frames[i].home, i)' /\ (frames'[i].unit \in Method => frames'[i].home = i)
    <3> SUFFICES ASSUME NEW i \in 1..(L + 1)
                 PROVE  /\ frames'[i].home = 0 \/ (frames'[i].home \in 1..i /\ frames'[frames'[i].home].unit \in Method)
                        /\ frames'[i].unit \in Method => frames'[i].home = i
      BY DEF LiveHome
    <3>1. CASE i \in 1..L
      <4>1. /\ frames[i].home = 0 \/ (frames[i].home \in 1..i /\ frames[frames[i].home].unit \in Method)
            /\ frames[i].unit \in Method => frames[i].home = i
        BY <1>1, <3>1 DEF HomesLive, LiveHome, L
      <4>2. frames[i].home \in 1..i => frames[i].home \in 1..L
        BY <1>2, <3>1
      <4> QED BY <1>3, <3>1, <4>1, <4>2
    <3>2. CASE i = L + 1 /\ u \in Method
      <4>1. h = L + 1 /\ L + 1 \in 1..(L + 1)
        BY <1>2, <3>2 DEF L
      <4> QED BY <1>3, <3>2, <4>1
    <3>3. CASE i = L + 1 /\ u \notin Method
      <4>1. h = 0 \/ (h \in 1..L /\ frames[h].unit \in Method)
        BY <3>3 DEF LiveHome, L
      <4>2. h \in 1..L => h \in 1..(L + 1)
        BY <1>2
      <4> QED BY <1>3, <3>3, <4>1, <4>2
    <3> QED BY <1>7, <3>1, <3>2, <3>3
  <2>2. \A c \in closures : c.home = 0 \/ (c.home \in 1..(L + 1) /\ frames'[c.home].unit \in Method)
    <3> SUFFICES ASSUME NEW c \in closures
                 PROVE  c.home = 0 \/ (c.home \in 1..(L + 1) /\ frames'[c.home].unit \in Method)
      OBVIOUS
    <3>1. c.home = 0 \/ (c.home \in 1..L /\ frames[c.home].unit \in Method)
      BY <1>1 DEF HomesLive, LiveHome, L
    <3>2. c.home \in 1..L => c.home \in 1..(L + 1)
      BY <1>2
    <3> QED BY <1>3, <3>1, <3>2
  <2> QED BY <1>3, <2>1, <2>2 DEF HomesLive, LiveHome
<1>10. RecordsIntact'
  <2> SUFFICES ASSUME NEW i \in 1..(L + 1)
               PROVE  /\ frames'[i].cookie < position + 1
                      /\ \A j \in (i + 1)..(L + 1) : frames'[i].cookie < frames'[j].cookie
                      /\ positions'[frames'[i].cookie + 1].info = frames'[i].unit
    BY <1>3 DEF RecordsIntact
  <2>1. CASE i \in 1..L
    <3>1. frames'[i].cookie = frames[i].cookie /\ frames'[i].unit = frames[i].unit
      BY <1>3, <2>1
    <3>2. ASSUME NEW j \in (i + 1)..(L + 1) PROVE frames'[i].cookie < frames'[j].cookie
      <4>1. CASE j = L + 1
        BY <1>3, <1>6, <2>1, <3>1, <4>1
      <4>2. CASE j # L + 1
        <5>1. j \in (i + 1)..L /\ j \in 1..L
          BY <1>2, <2>1, <4>2
        <5> QED BY <1>3, <1>6, <2>1, <3>1, <5>1
      <4> QED BY <4>1, <4>2
    <3>3. positions'[frames[i].cookie + 1].info = positions[frames[i].cookie + 1].info
      BY <1>3, <1>8, <2>1
    <3> QED BY <1>6, <1>8, <2>1, <3>1, <3>2, <3>3
  <2>2. CASE i = L + 1
    <3>1. \A j \in (i + 1)..(L + 1) : FALSE
      BY <1>2, <2>2
    <3>2. position < position + 1
      BY <1>2
    <3> QED BY <1>3, <2>2, <3>1, <3>2
  <2> QED BY <1>7, <2>1, <2>2
<1>11. StaleRecordsConfined'
  <2> SUFFICES ASSUME NEW i \in 1..(L + 1), ~frames'[i].escapedTo
               PROVE  /\ Following(i)' = frames'[i].cookie + 1
                      /\ positions'[frames'[i].cookie + 1].line = frames'[i].line
    BY <1>3 DEF StaleRecordsConfined
  <2>1. CASE i = L + 1
    <3>1. Following(i)' = position + 1
      BY <1>3, <2>1 DEF Following
    <3> QED BY <1>3, <2>1, <3>1
  <2>2. CASE i \in 1..L
    <3>1. /\ frames'[i].cookie = frames[i].cookie
          /\ frames'[i].escapedTo = frames[i].escapedTo
          /\ frames'[i].line = IF i = L THEN n ELSE frames[i].line
      BY <1>3, <2>2
    <3>2. /\ Following(i) = frames[i].cookie + 1
          /\ positions[frames[i].cookie + 1].line = frames[i].line
      BY <1>1, <1>2, <2>2, <3>1 DEF StaleRecordsConfined, L
    <3>3. positions'[frames[i].cookie + 1].line =
            IF frames[i].cookie + 1 = position THEN n ELSE positions[frames[i].cookie + 1].line
      BY <1>3, <1>8, <2>2
    <3>4. Following(i)' = frames'[i + 1].cookie
      BY <1>2, <1>3, <1>8, <2>2 DEF Following
    <3>5. CASE i = L
      <4>1. Following(i) = position
        BY <3>5 DEF Following, L
      <4> QED BY <1>3, <3>1, <3>2, <3>3, <3>4, <3>5, <4>1
    <3>6. CASE i # L
      <4>1. i + 1 \in 1..L /\ Following(i) = frames[i + 1].cookie
        BY <1>2, <2>2, <3>6 DEF Following, L
      <4>2. frames[i + 1].cookie < position
        BY <1>6, <4>1
      <4>3. frames[i].cookie + 1 # position
        BY <1>2, <1>5, <2>2, <3>2, <4>1, <4>2
      <4> QED BY <1>3, <3>1, <3>2, <3>3, <3>4, <3>6, <4>1, <4>3
    <3> QED BY <3>5, <3>6
  <2> QED BY <1>7, <2>1, <2>2
<1> QED BY <1>4, <1>9, <1>10, <1>11 DEF IInv

(***************************************************************************)
(* Leaving: the activations from place k + 1 up go, all but their records  *)
(* up to the leaving one's cookie with them.  Either the one that left was *)
(* the innermost by one, or a non-local return answers to the new top.     *)
(***************************************************************************)
LEMMA LeaveInductive ==
  ASSUME IInv, Running, NEW k \in Nat, k < Len(frames), Leave,
         frames' \in Seq(Frame), Len(frames') = k,
         \A i \in 1..k : /\ frames'[i].unit = frames[i].unit
                         /\ frames'[i].home = frames[i].home
                         /\ frames'[i].cookie = frames[i].cookie
                         /\ frames'[i].line = frames[i].line
                         /\ i < k => frames'[i].escapedTo = frames[i].escapedTo,
         k + 1 = Len(frames) =>
           \A i \in 1..k : frames'[i].escapedTo = frames[i].escapedTo,
         \A i \in 1..k : k + 1 < Len(frames) /\ i = k => frames'[i].escapedTo,
         closures' = Orphaned(k + 1), UNCHANGED <<positions, halted>>
  PROVE  IInv'
<1> DEFINE L == Len(frames)
<1>1. TypeOK /\ HomesLive /\ RecordsIntact /\ StaleRecordsConfined
  BY DEF IInv
<1>2. L \in Nat \ {0} /\ position \in Nat /\ ~halted /\ Top \in Frame
  BY <1>1, RunningTop DEF TypeOK, Running
<1>3. \A i \in 1..L : frames[i].cookie \in Nat
  <2>1. \A i \in 1..L : frames[i] \in Frame
    BY <1>1 DEF TypeOK
  <2> QED BY <2>1 DEF Frame
<1>4. \A i \in 1..L :
        /\ frames[i].cookie < position
        /\ \A j \in (i + 1)..L : frames[i].cookie < frames[j].cookie
        /\ positions[frames[i].cookie + 1].info = frames[i].unit
  BY <1>1, <1>2 DEF RecordsIntact
<1>5. position' = frames[L].cookie /\ position' \in Nat /\ position' < position
  BY <1>2, <1>3, <1>4 DEF Leave, Top
<1>6. k < L /\ \A i \in 1..k : i \in 1..L /\ L \in (i + 1)..L /\ i # L
  BY <1>2
<1>7. \A i \in 1..k : frames[i].cookie < position'
  BY <1>4, <1>5, <1>6
<1>8. TypeOK'
  <2>1. closures' \subseteq Closure
    <3> SUFFICES ASSUME NEW c \in closures
                 PROVE  Held(c.block, IF c.home >= k + 1 THEN 0 ELSE c.home) \in Closure
      BY DEF Orphaned
    <3>1. c.block \in Block /\ c.home \in Nat
      BY <1>1 DEF TypeOK, Closure
    <3> QED BY <3>1 DEF Held, Closure
  <2>2. position' \in 0..Len(positions)
    <3>1. position \in 0..Len(positions) /\ Len(positions) \in Nat
      BY <1>1 DEF TypeOK
    <3> QED BY <1>5, <3>1
  <2>3. \A i \in 1..position' : positions[i] # Junk
    <3>1. \A i \in 1..position' : i \in 1..position
      BY <1>2, <1>5
    <3> QED BY <1>1, <3>1 DEF TypeOK
  <2> QED BY <1>1, <2>1, <2>2, <2>3 DEF TypeOK
<1>9. HomesLive'
  <2>1. ASSUME NEW i \in 1..k
        PROVE  /\ frames'[i].home = 0 \/ (frames'[i].home \in 1..i /\ frames'[frames'[i].home].unit \in Method)
               /\ frames'[i].unit \in Method => frames'[i].home = i
    <3>1. /\ frames[i].home = 0 \/ (frames[i].home \in 1..i /\ frames[frames[i].home].unit \in Method)
          /\ frames[i].unit \in Method => frames[i].home = i
      BY <1>1, <1>6 DEF HomesLive, LiveHome
    <3>2. frames[i].home \in 1..i => frames[i].home \in 1..k
      BY <1>2
    <3> QED BY <3>1, <3>2
  <2>2. ASSUME NEW c \in closures'
        PROVE  c.home = 0 \/ (c.home \in 1..k /\ frames'[c.home].unit \in Method)
    <3>1. PICK d \in closures : c = Held(d.block, IF d.home >= k + 1 THEN 0 ELSE d.home)
      BY DEF Orphaned
    <3>2. d.home \in Nat /\ (d.home = 0 \/ (d.home \in 1..L /\ frames[d.home].unit \in Method))
      BY <1>1 DEF HomesLive, LiveHome, TypeOK, Closure
    <3>3. c.home = IF d.home >= k + 1 THEN 0 ELSE d.home
      BY <3>1 DEF Held
    <3>4. d.home # 0 /\ ~(d.home >= k + 1) => d.home \in 1..k
      BY <1>2, <3>2
    <3> QED BY <3>2, <3>3, <3>4
  <2> QED BY <2>1, <2>2 DEF HomesLive, LiveHome
<1>10. RecordsIntact'
  <2> SUFFICES ASSUME NEW i \in 1..k
               PROVE  /\ frames'[i].cookie < position'
                      /\ \A j \in (i + 1)..k : frames'[i].cookie < frames'[j].cookie
                      /\ positions[frames'[i].cookie + 1].info = frames'[i].unit
    BY DEF RecordsIntact
  <2>1. \A j \in (i + 1)..k : j \in 1..k /\ j \in (i + 1)..L
    BY <1>2
  <2>2. \A j \in (i + 1)..k : frames'[i].cookie < frames'[j].cookie
    BY <1>4, <1>6, <2>1
  <2> QED BY <1>4, <1>6, <1>7, <2>2
<1>11. StaleRecordsConfined'
  <2> SUFFICES ASSUME NEW i \in 1..k, ~frames'[i].escapedTo
               PROVE  /\ Following(i)' = frames'[i].cookie + 1
                      /\ positions[frames'[i].cookie + 1].line = frames'[i].line
    BY DEF StaleRecordsConfined
  <2>1. ~frames[i].escapedTo /\ i \in 1..L /\ (i = k => k + 1 = L)
    BY <1>2, <1>6
  <2>2. /\ Following(i) = frames[i].cookie + 1
        /\ positions[frames[i].cookie + 1].line = frames[i].line
    BY <1>1, <1>2, <2>1 DEF StaleRecordsConfined
  <2>3. Following(i) = frames[i + 1].cookie
    BY <1>6 DEF Following
  <2>4. CASE i = k
    <3>1. Following(i)' = position' /\ i + 1 = L
      BY <2>1, <2>4 DEF Following
    <3> QED BY <1>5, <2>2, <2>3, <3>1
  <2>5. CASE i # k
    <3>1. i + 1 \in 1..k
      BY <2>5
    <3>2. Following(i)' = frames'[i + 1].cookie /\ frames'[i + 1].cookie = frames[i + 1].cookie
      BY <2>5, <3>1 DEF Following
    <3> QED BY <2>2, <2>3, <3>2
  <2> QED BY <2>4, <2>5
<1> QED BY <1>8, <1>9, <1>10, <1>11 DEF IInv

LEMMA ReturnInductive ==
  ASSUME IInv, Return
  PROVE  IInv'
<1> DEFINE k == Len(frames) - 1
<1>1. TypeOK /\ Running /\ Leave /\ frames' = Below(frames)
      /\ closures' = Orphaned(Len(frames)) /\ UNCHANGED <<positions, halted>>
  BY DEF IInv, Return
<1>2. /\ Len(frames) \in Nat \ {0}
      /\ Below(frames) \in Seq(Frame) /\ Len(Below(frames)) = k
      /\ \A i \in 1..k : Below(frames)[i] = frames[i]
  BY <1>1, RunningTop
<1>3. k \in Nat /\ k < Len(frames) /\ k + 1 = Len(frames)
  BY <1>2
<1> HIDE DEF k
<1> QED BY <1>1, <1>2, <1>3, LeaveInductive

LEMMA NonLocalReturnInductive ==
  ASSUME IInv, NonLocalReturn
  PROVE  IInv'
<1> DEFINE h == Top.home
           k == h - 1
           f(i) == IF i = k THEN EscapedTo(frames[i]) ELSE frames[i]
<1>1. /\ TypeOK /\ HomesLive /\ Running /\ Leave
      /\ Top.unit \in Block /\ h > 0
      /\ frames' = [i \in 1..k |-> f(i)]
      /\ closures' = Orphaned(h)
      /\ UNCHANGED <<positions, halted>>
  BY DEF IInv, NonLocalReturn
<1>2. Len(frames) \in Nat \ {0} /\ Top \in Frame
  BY <1>1, RunningTop
<1>3. \A i \in 1..Len(frames) : frames[i] \in Frame
  BY <1>1 DEF TypeOK
<1>4. h \in Nat /\ h \in 1..Len(frames) /\ frames[h].unit \in Method
  <2>1. h \in Nat /\ h # 0
    BY <1>1, <1>2 DEF Frame
  <2>2. Len(frames) \in 1..Len(frames)
    BY <1>2
  <2> QED BY <1>1, <2>1, <2>2 DEF HomesLive, LiveHome, Top
<1>5. h # Len(frames)
  BY <1>1, <1>4, ActivationAssumption DEF Top
<1>6. k \in Nat /\ k + 1 = h /\ k + 1 < Len(frames) /\ k < Len(frames)
  BY <1>2, <1>4, <1>5
<1>7. \A i \in 1..k : i \in 1..Len(frames)
  BY <1>2, <1>6
<1>8. \A i \in 1..k :
        /\ f(i) \in Frame
        /\ f(i).unit = frames[i].unit /\ f(i).home = frames[i].home
        /\ f(i).cookie = frames[i].cookie /\ f(i).line = frames[i].line
        /\ i < k => f(i).escapedTo = frames[i].escapedTo
        /\ i = k => f(i).escapedTo
  <2> SUFFICES ASSUME NEW i \in 1..k
               PROVE  /\ f(i) \in Frame
                      /\ f(i).unit = frames[i].unit /\ f(i).home = frames[i].home
                      /\ f(i).cookie = frames[i].cookie /\ f(i).line = frames[i].line
                      /\ i < k => f(i).escapedTo = frames[i].escapedTo
                      /\ i = k => f(i).escapedTo
    OBVIOUS
  <2>1. frames[i] \in Frame
    BY <1>3, <1>7
  <2>2. CASE i = k
    <3>1. f(i) = EscapedTo(frames[i]) /\ ~(i < k)
      BY <1>6, <2>2
    <3>2. /\ EscapedTo(frames[i]) \in Frame
          /\ EscapedTo(frames[i]).unit = frames[i].unit
          /\ EscapedTo(frames[i]).home = frames[i].home
          /\ EscapedTo(frames[i]).cookie = frames[i].cookie
          /\ EscapedTo(frames[i]).line = frames[i].line
          /\ EscapedTo(frames[i]).escapedTo
      BY <2>1 DEF EscapedTo, Activated, Frame
    <3> QED BY <3>1, <3>2
  <2>3. CASE i # k
    <3>1. f(i) = frames[i]
      BY <2>3
    <3> QED BY <2>1, <2>3, <3>1
  <2> QED BY <2>2, <2>3
<1> HIDE DEF k, f
<1>9. frames' \in Seq(Frame) /\ Len(frames') = k /\ \A i \in 1..k : frames'[i] = f(i)
  <2>1. [i \in 1..k |-> f(i)] \in Seq(Frame) /\ Len([i \in 1..k |-> f(i)]) = k
    BY <1>6, <1>8, IsASeq
  <2> QED BY <1>1, <2>1
<1>10. closures' = Orphaned(k + 1)
  BY <1>1, <1>6
<1>11. \A i \in 1..k : /\ frames'[i].unit = frames[i].unit
                       /\ frames'[i].home = frames[i].home
                       /\ frames'[i].cookie = frames[i].cookie
                       /\ frames'[i].line = frames[i].line
                       /\ i < k => frames'[i].escapedTo = frames[i].escapedTo
                       /\ i = k => frames'[i].escapedTo
  BY <1>8, <1>9
<1>12. k + 1 # Len(frames)
  BY <1>6
<1> QED BY <1>1, <1>6, <1>9, <1>10, <1>11, <1>12, LeaveInductive

LEMMA DeadReturnInductive ==
  ASSUME IInv, DeadReturn
  PROVE  IInv'
<1>1. /\ TypeOK /\ HomesLive /\ RecordsIntact /\ Running
      /\ halted' = TRUE /\ Leave /\ UNCHANGED <<frames, closures, positions>>
  BY DEF IInv, DeadReturn
<1>2. Len(frames) \in Nat \ {0} /\ Top \in Frame
  BY <1>1, RunningTop
<1>3. Top.cookie \in Nat /\ Top.cookie < position
  <2>1. Len(frames) \in 1..Len(frames) /\ ~halted
    BY <1>1, <1>2 DEF Running
  <2> QED BY <1>1, <1>2, <2>1 DEF RecordsIntact, Top, Frame
<1>4. position' = Top.cookie
  BY <1>1 DEF Leave
<1>5. position \in Nat /\ Len(positions) \in Nat /\ position \in 0..Len(positions)
  BY <1>1 DEF TypeOK
<1>6. position' \in 0..Len(positions') /\ \A i \in 1..position' : i \in 1..position
  BY <1>1, <1>3, <1>4, <1>5
<1>7. TypeOK'
  BY <1>1, <1>6 DEF TypeOK
<1>8. HomesLive'
  BY <1>1 DEF HomesLive, LiveHome
<1> QED BY <1>1, <1>7, <1>8 DEF IInv, RecordsIntact, StaleRecordsConfined

LEMMA Initially == Init => IInv
<1> SUFFICES ASSUME Init PROVE IInv
  OBVIOUS
<1>1. PICK m \in Method :
        /\ frames = << Activated(m, 1, 0, Start[m], FALSE) >>
        /\ positions = [i \in 1..FirstSize |-> IF i = 1 THEN Noted(m, Start[m]) ELSE Junk]
  BY DEF Init
<1>2. closures = {} /\ position = 1 /\ halted = FALSE
  BY DEF Init
<1>3. FirstSize \in Nat \ {0} /\ Start[m] \in Line /\ m \in Unit /\ Junk \notin Record
  BY ActivationAssumption DEF Unit, Record
<1> DEFINE a == Activated(m, 1, 0, Start[m], FALSE)
           r == Noted(m, Start[m])
<1>4. /\ a \in Frame /\ a.unit = m /\ a.home = 1 /\ a.cookie = 0
      /\ a.line = Start[m]
  BY <1>3 DEF Activated, Frame
<1>5. r \in Record /\ r.info = m /\ r.line = Start[m]
  BY <1>3 DEF Noted, Record
<1> HIDE DEF a, r
<1>6. frames = <<a>> /\ Len(frames) = 1 /\ frames[1] = a /\ frames \in Seq(Frame)
  <2>1. frames = <<a>>
    BY <1>1 DEF a
  <2>2. a \in Frame
    BY <1>4
  <2> QED BY <2>1, <2>2
<1>7. positions \in Seq(Record \cup {Junk}) /\ Len(positions) = FirstSize /\ positions[1] = r
  <2>1. positions = [i \in 1..FirstSize |-> IF i = 1 THEN r ELSE Junk]
    BY <1>1 DEF r
  <2>2. \A i \in 1..FirstSize : (IF i = 1 THEN r ELSE Junk) \in Record \cup {Junk}
    BY <1>5
  <2>3. positions \in Seq(Record \cup {Junk}) /\ Len(positions) = FirstSize
    BY <1>3, <2>1, <2>2, IsASeq
  <2> QED BY <1>3, <2>1, <2>3
<1>8. TypeOK
  <2>1. position \in 0..Len(positions) /\ (\A i \in 1..position : positions[i] # Junk)
    BY <1>2, <1>3, <1>5, <1>7
  <2> QED BY <1>2, <1>6, <1>7, <2>1 DEF TypeOK
<1>9. HomesLive
  BY <1>2, <1>4, <1>6 DEF HomesLive, LiveHome
<1>10. RecordsIntact
  BY <1>2, <1>4, <1>5, <1>6, <1>7 DEF RecordsIntact
<1>11. StaleRecordsConfined
  BY <1>2, <1>4, <1>5, <1>6, <1>7 DEF StaleRecordsConfined, Following
<1> QED BY <1>8, <1>9, <1>10, <1>11 DEF IInv

LEMMA Inductive == IInv /\ [Next]_vars => IInv'
<1> SUFFICES ASSUME IInv, [Next]_vars PROVE IInv'
  OBVIOUS
<1>1. TypeOK /\ HomesLive /\ Len(frames) \in Nat
  BY DEF IInv, TypeOK
<1>2. ASSUME NEW m \in Method, NEW n \in Line, Call(m, n) PROVE IInv'
  <2>1. Running /\ Enter(m, Len(frames) + 1, n) /\ UNCHANGED <<closures, halted>>
    BY <1>2 DEF Call
  <2>2. m \in Unit /\ Len(frames) + 1 \in Nat
    BY <1>1 DEF Unit
  <2> DEFINE h == Len(frames) + 1
  <2>3. m \notin Method => LiveHome(h, Len(frames))
    OBVIOUS
  <2> HIDE DEF h
  <2> QED BY <2>1, <2>2, <2>3, EnterInductive DEF h
<1>3. ASSUME NEW c \in closures, NEW n \in Line, Evaluate(c, n) PROVE IInv'
  <2>1. Running /\ Enter(c.block, c.home, n) /\ UNCHANGED <<closures, halted>>
    BY <1>3 DEF Evaluate
  <2>2. c.block \in Block /\ c.home \in Nat
    BY <1>1 DEF TypeOK, Closure
  <2>3. c.block \in Unit /\ c.block \notin Method
    BY <2>2, ActivationAssumption DEF Unit
  <2>4. LiveHome(c.home, Len(frames))
    BY <1>1 DEF HomesLive
  <2> QED BY <2>1, <2>2, <2>3, <2>4, EnterInductive
<1>4. ASSUME NEW b \in Block, Close(b) PROVE IInv'
  <2>1. Running /\ closures' = closures \cup {Held(b, Top.home)}
        /\ UNCHANGED <<frames, positions, position, halted>>
    BY <1>4 DEF Close
  <2>2. Len(frames) \in Nat \ {0} /\ Top \in Frame
    BY <1>1, <2>1, RunningTop
  <2>3. Held(b, Top.home) \in Closure /\ Held(b, Top.home).home = Top.home
    BY <2>2 DEF Held, Closure, Frame
  <2>4. TypeOK'
    BY <1>1, <2>1, <2>3 DEF TypeOK
  <2>5. LiveHome(Top.home, Len(frames))
    <3>1. Len(frames) \in 1..Len(frames)
      BY <2>2
    <3> QED BY <1>1, <3>1 DEF HomesLive, Top
  <2>6. HomesLive'
    BY <1>1, <2>1, <2>3, <2>5 DEF HomesLive, LiveHome
  <2>7. RecordsIntact' /\ StaleRecordsConfined'
    BY <2>1 DEF IInv, RecordsIntact, StaleRecordsConfined, Following
  <2> QED BY <2>4, <2>6, <2>7 DEF IInv
<1>5. CASE UNCHANGED vars
  BY <1>5 DEF vars, IInv, TypeOK, HomesLive, LiveHome, RecordsIntact,
              StaleRecordsConfined, Following
<1> QED
  BY <1>2, <1>3, <1>4, <1>5, ReturnInductive, NonLocalReturnInductive,
     DeadReturnInductive DEF Next

LEMMA Invariance == Spec => []IInv
<1> QED BY Initially, Inductive, PTL DEF Spec

(***************************************************************************)
(* The records in use lie in the array and have all been written, however  *)
(* often it was reallocated and however activations were left              *)
(* (_libid_enter).                                                         *)
(***************************************************************************)
THEOREM Typing == Spec => []TypeOK
<1>1. IInv => TypeOK
  BY DEF IInv
<1> QED BY <1>1, Invariance, PTL

(***************************************************************************)
(* A closure's home is an activation of a method that is still running, or *)
(* it is known to be gone (_libid_nlreturn).                               *)
(***************************************************************************)
THEOREM Homes == Spec => []HomesLive
<1>1. IInv => HomesLive
  BY DEF IInv
<1> QED BY <1>1, Invariance, PTL

(***************************************************************************)
(* A backtrace shows every activation, in order (_libid_backtrace).        *)
(***************************************************************************)
THEOREM Records == Spec => []RecordsIntact
<1>1. IInv => RecordsIntact
  BY DEF IInv
<1> QED BY <1>1, Invariance, PTL

(***************************************************************************)
(* What non-local returns leave in the position stack stays right above an *)
(* activation they answered to, for stacks and arrays of any size          *)
(* (_libid_leave).                                                         *)
(***************************************************************************)
THEOREM StaleRecords == Spec => []StaleRecordsConfined
<1>1. IInv => StaleRecordsConfined
  BY DEF IInv
<1> QED BY <1>1, Invariance, PTL
=============================================================================
