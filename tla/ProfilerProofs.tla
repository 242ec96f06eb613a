--------------------------- MODULE ProfilerProofs ---------------------------
(* The profiler leaves the activations as they are: what is proved of them *)
(* without it holds with it.                                               *)
EXTENDS Profiler, ActivationProofs, FiniteSetTheorems

LEMMA ActivationSteps ==
  ProfilerNext => [Next]_vars
<1> SUFFICES ASSUME ProfilerNext PROVE [Next]_vars
  OBVIOUS
<1>1. ASSUME NEW m \in Method, NEW n \in Line, ProfiledCall(m, n)
      PROVE  [Next]_vars
  <2>1. Call(m, n) \/ UNCHANGED vars
    BY <1>1 DEF ProfiledCall, Entering
  <2> QED BY <2>1 DEF Next
<1>2. ASSUME NEW c \in closures, NEW n \in Line, ProfiledEvaluate(c, n)
      PROVE  [Next]_vars
  <2>1. Evaluate(c, n) \/ UNCHANGED vars
    BY <1>2 DEF ProfiledEvaluate, Entering
  <2> QED BY <2>1 DEF Next
<1>3. ASSUME NEW b \in Block, ProfiledClose(b)
      PROVE  [Next]_vars
  <2>1. Close(b)
    BY <1>3 DEF ProfiledClose
  <2> QED BY <2>1 DEF Next
<1>4. CASE ProfiledReturn
  <2>1. Return \/ UNCHANGED vars
    BY <1>4 DEF ProfiledReturn, Leaving
  <2> QED BY <2>1 DEF Next
<1>5. CASE ProfiledNonLocalReturn
  <2>1. NonLocalReturn \/ UNCHANGED vars
    BY <1>5 DEF ProfiledNonLocalReturn, Leaving
  <2> QED BY <2>1 DEF Next
<1>6. CASE ProfiledDeadReturn
  BY <1>6 DEF ProfiledDeadReturn, Next
<1>7. CASE EnableProfile \/ DisableProfile \/ Tick
  BY <1>7 DEF EnableProfile, DisableProfile, Tick
<1> QED BY <1>1, <1>2, <1>3, <1>4, <1>5, <1>6, <1>7 DEF ProfilerNext

(* The activations of a profiled program are those of a program without    *)
(* the profiler, so ActivationProofs is about them.                        *)
THEOREM Undisturbed == ProfilerSpec => Spec
<1>1. UNCHANGED <<vars, profilerVars>> => [Next]_vars
  BY DEF vars
<1> QED BY <1>1, ActivationSteps, PTL DEF ProfilerSpec, ProfiledInit, Spec

(* The record an activation made on entry, which profileEnter numbers its  *)
(* entry by and finds the caller in, stays in place while it runs.         *)
THEOREM ProfiledRecords == ProfilerSpec => []RecordsIntact
BY Undisturbed, Records

-----------------------------------------------------------------------------
(* What is kept beside the activations while behaviour is defined.         *)
Recorded ==
    /\ stage \in Seq(Stage) /\ Len(stage) = Len(frames)
    /\ entries \in Seq(Entry \cup {Junk})
    /\ profiles \subseteq Unit /\ time \in Nat
    /\ EntriesOwn /\ CallersRight

PInv == IInv /\ (Defined => Recorded)

LEMMA Cookies ==
  ASSUME IInv, Defined
  PROVE  /\ Len(frames) \in Nat /\ DOMAIN frames = 1 .. Len(frames) /\ position \in Nat
         /\ \A i \in 1 .. Len(frames) : frames[i] \in Frame /\ frames[i].cookie \in Nat
                                       /\ frames[i].cookie < position
         /\ \A i \in 1 .. Len(frames), j \in 1 .. Len(frames) :
               frames[i].cookie = frames[j].cookie => i = j
<1>1. frames \in Seq(Frame) /\ position \in 0 .. Len(positions) /\ positions \in Seq(Record \cup {Junk})
  BY DEF IInv, TypeOK
<1>2. Len(frames) \in Nat /\ DOMAIN frames = 1 .. Len(frames) /\ position \in Nat
  BY <1>1
<1>3. \A i \in 1 .. Len(frames) : frames[i] \in Frame /\ frames[i].cookie \in Nat
  <2>1. \A i \in 1 .. Len(frames) : frames[i] \in Frame
    BY <1>1
  <2> QED BY <2>1 DEF Frame
<1>4. \A i \in 1 .. Len(frames) :
        frames[i].cookie < position
        /\ \A j \in (i + 1) .. Len(frames) : frames[i].cookie < frames[j].cookie
  BY DEF IInv, RecordsIntact, Defined
<1>5. ASSUME NEW i \in 1 .. Len(frames), NEW j \in 1 .. Len(frames),
             frames[i].cookie = frames[j].cookie
      PROVE  i = j
  <2>1. ~(i < j)
    <3>1. i < j => j \in (i + 1) .. Len(frames)
      BY <1>2
    <3> QED BY <3>1, <1>3, <1>4, <1>5
  <2>2. ~(j < i)
    <3>1. j < i => i \in (j + 1) .. Len(frames)
      BY <1>2
    <3> QED BY <3>1, <1>3, <1>4, <1>5
  <2> QED BY <2>1, <2>2, <1>2
<1> QED BY <1>2, <1>3, <1>4, <1>5

LEMMA Growth ==
  ASSUME entries \in Seq(Entry \cup {Junk}), position \in Nat
  PROVE  /\ Len(entries) \in Nat
         /\ Room(Len(entries)) \in Nat /\ Room(Len(entries)) >= Len(entries)
         /\ Enlarged \in Seq(Entry \cup {Junk}) /\ Len(Enlarged) = Room(Len(entries))
         /\ \A i \in 1 .. Len(entries) : Enlarged[i] = entries[i]
<1>1. Len(entries) \in Nat
  OBVIOUS
<1>2. Room(Len(entries)) \in Nat /\ Room(Len(entries)) >= Len(entries)
  BY <1>1, ProfilerAssumption DEF Room
<1> DEFINE r == Room(Len(entries))
           f(i) == IF i <= Len(entries) THEN entries[i] ELSE Junk
<1>3. Enlarged = [i \in 1 .. r |-> f(i)]
  BY DEF Enlarged
<1>4. \A i \in 1 .. r : f(i) \in Entry \cup {Junk}
  BY <1>1, <1>2
<1>5. r \in Nat /\ r >= Len(entries)
  BY <1>2
<1> HIDE DEF r, f
<1>6. [i \in 1 .. r |-> f(i)] \in Seq(Entry \cup {Junk}) /\ Len([i \in 1 .. r |-> f(i)]) = r
  BY <1>4, <1>5, IsASeq
<1>7. \A i \in 1 .. Len(entries) : Enlarged[i] = entries[i]
  BY <1>1, <1>3, <1>5 DEF f
<1> QED BY <1>1, <1>2, <1>3, <1>6, <1>7 DEF r

(* An activation that is entered, and its stage.                           *)
LEMMA Entered ==
  ASSUME IInv, Defined, Running, NEW u \in Unit, NEW h \in Nat, NEW n \in Line,
         Enter(u, h, n), NEW k \in Nat, k = Len(frames)
  PROVE  /\ k > 0 /\ Len(frames') = k + 1 /\ frames' \in Seq(Frame)
         /\ \A i \in 1 .. k : frames'[i].unit = frames[i].unit /\ frames'[i].cookie = frames[i].cookie
                             /\ frames'[i].escapedTo = frames[i].escapedTo
         /\ frames'[k + 1].unit = u /\ frames'[k + 1].cookie = position
         /\ \A i \in 1 .. position : positions'[i].info = positions[i].info
         /\ position \in Nat /\ position' = position + 1
         /\ \A i \in 1 .. k : frames[i].cookie \in Nat /\ frames[i].cookie < position
         /\ DOMAIN frames = 1 .. k /\ DOMAIN frames' = 1 .. k + 1
<1>1. TypeOK /\ Len(frames) \in Nat \ {0}
  BY RunningTop DEF IInv
<1>2. /\ frames' \in Seq(Frame) /\ Len(frames') = Len(frames) + 1
      /\ \A i \in 1..Len(frames) : /\ frames'[i].unit = frames[i].unit
                                  /\ frames'[i].cookie = frames[i].cookie
                                  /\ frames'[i].escapedTo = frames[i].escapedTo
      /\ frames'[Len(frames) + 1].unit = u
      /\ frames'[Len(frames) + 1].cookie = position
      /\ \A i \in 1..position : positions'[i].info = positions[i].info
  BY <1>1, EnterEffect
<1>3. position \in Nat /\ position' = position + 1
      /\ \A i \in 1 .. k : frames[i].cookie \in Nat /\ frames[i].cookie < position
      /\ DOMAIN frames = 1 .. k
  BY Cookies DEF Enter
<1>4. DOMAIN frames' = 1 .. k + 1
  BY <1>2
<1> QED BY <1>1, <1>2, <1>3, <1>4

LEMMA StageEntered ==
  ASSUME NEW k \in Nat, stage \in Seq(Stage), Len(stage) = k, NEW b \in BOOLEAN,
         stage' = Append(stage, Staged(b, "none"))
  PROVE  /\ stage' \in Seq(Stage) /\ Len(stage') = k + 1 /\ DOMAIN stage' = 1 .. k + 1
         /\ \A i \in 1 .. k : stage'[i] = stage[i]
         /\ stage'[k + 1].hooked = b /\ stage'[k + 1].session = "none"
<1> DEFINE s == Staged(b, "none")
<1>1. s \in Stage /\ s.hooked = b /\ s.session = "none"
  BY DEF Stage, Staged
<1>2. stage' = Append(stage, s)
  OBVIOUS
<1> HIDE DEF s
<1>3. /\ Append(stage, s) \in Seq(Stage) /\ Len(Append(stage, s)) = k + 1
      /\ \A i \in 1 .. k : Append(stage, s)[i] = stage[i]
      /\ Append(stage, s)[k + 1] = s
  BY <1>1
<1>4. DOMAIN stage' = 1 .. k + 1
  BY <1>2, <1>3
<1> QED BY <1>1, <1>2, <1>3, <1>4

(***************************************************************************)
(* What profileEnter leaves: the entry of the activation is new, and no    *)
(* other is written over, as no two activations have the same cookie.      *)
(***************************************************************************)
NewEntry(u) == [time |-> time, charged |-> Charges(u)]

LEMMA ProfileEntered ==
  ASSUME IInv, Defined, Recorded, Running, NEW u \in Unit, NEW h \in Nat, NEW n \in Line,
         Enter(u, h, n), NEW k \in Nat, k = Len(frames), ProfileEnter(u), cause' = "none"
  PROVE  /\ ({u} \cup Callers) \cap stale = {}
         /\ stage' = Append(stage, Staged(TRUE, "none"))
         /\ profiles' = profiles \cup {u} /\ profiles' \subseteq Unit
         /\ UNCHANGED <<hook, kept, stale, total, time, sessions, deep>>
         /\ active' = [c \in Charge |-> active[c] + (IF c \in Charges(u) THEN 1 ELSE 0)]
         /\ Charges(u) \subseteq Charge /\ <<u>> \in Charges(u)
         /\ Charges(u) \subseteq {<<u>>} \cup {<<c, u>> : c \in Callers}
         /\ NewEntry(u) # Junk /\ NewEntry(u).charged = Charges(u) /\ NewEntry(u).time = time
         /\ entries' \in Seq(Entry \cup {Junk})
         /\ Len(entries) \in Nat /\ Len(entries') \in Nat /\ Len(entries') >= Len(entries)
         /\ position < Len(entries') /\ DOMAIN entries' = 1 .. Len(entries')
         /\ \A i \in 1 .. Len(entries) : i # position + 1 => entries'[i] = entries[i]
         /\ \A i \in 1 .. Len(entries') : i > Len(entries) /\ i # position + 1 => entries'[i] = Junk
         /\ EntryOf(k + 1)' = NewEntry(u)
         /\ \A i \in 1 .. k : stage[i].hooked =>
              frames[i].cookie < Len(entries') /\ EntryOf(i)' = EntryOf(i)
<1>1. /\ k > 0 /\ frames'[k + 1].cookie = position /\ position \in Nat
      /\ \A i \in 1 .. k : frames[i].cookie \in Nat /\ frames[i].cookie < position
                          /\ frames'[i].cookie = frames[i].cookie
  BY Entered
<1>2. entries \in Seq(Entry \cup {Junk}) /\ profiles \subseteq Unit /\ time \in Nat
  BY DEF Recorded
<1>3. cause = "none"
  BY DEF Defined
<1>4. /\ ({u} \cup Callers) \cap stale = {} /\ ~(position >= Room(Len(entries)))
      /\ stage' = Append(stage, Staged(TRUE, "none"))
      /\ profiles' = profiles \cup {u}
      /\ UNCHANGED <<hook, kept, stale, total, time, sessions, deep>>
      /\ active' = [c \in Charge |-> active[c] + (IF c \in Charges(u) THEN 1 ELSE 0)]
      /\ entries' = [Enlarged EXCEPT ![position + 1] = NewEntry(u)]
  <2>1. ({u} \cup Callers) \cap stale = {} /\ ~(position >= Room(Len(entries)))
    BY <1>3 DEF ProfileEnter, Stops
  <2> QED BY <2>1 DEF ProfileEnter, NewEntry
<1>5. /\ Charges(u) \subseteq Charge /\ <<u>> \in Charges(u)
      /\ Charges(u) \subseteq {<<u>>} \cup {<<c, u>> : c \in Callers}
  BY <1>2 DEF Charges, Charge
<1>6. NewEntry(u) \in Entry /\ NewEntry(u).charged = Charges(u) /\ NewEntry(u).time = time
  BY <1>2, <1>5 DEF Entry, NewEntry
<1>7. PICK l \in Nat : l = Len(entries)
  BY <1>2
<1>8. /\ Room(l) \in Nat /\ Room(l) >= l /\ Enlarged \in Seq(Entry \cup {Junk})
      /\ Len(Enlarged) = Room(l) /\ DOMAIN Enlarged = 1 .. Room(l)
      /\ \A i \in 1 .. l : Enlarged[i] = entries[i]
      /\ \A i \in 1 .. Room(l) : i > l => Enlarged[i] = Junk
  <2>1. /\ Room(l) \in Nat /\ Room(l) >= l /\ Enlarged \in Seq(Entry \cup {Junk})
        /\ Len(Enlarged) = Room(l)
        /\ \A i \in 1 .. l : Enlarged[i] = entries[i]
    BY <1>1, <1>2, <1>7, Growth
  <2>2. DOMAIN Enlarged = 1 .. Room(l)
    BY <2>1
  <2>3. \A i \in 1 .. Room(l) : i > l => Enlarged[i] = Junk
    BY <1>7, <2>1 DEF Enlarged
  <2> QED BY <2>1, <2>2, <2>3
<1>9. PICK r \in Nat : r = Room(l)
  BY <1>8
<1>10. position < r /\ position + 1 \in 1 .. r
  BY <1>1, <1>4, <1>7, <1>9
<1>11. /\ entries' \in Seq(Entry \cup {Junk}) /\ DOMAIN entries' = 1 .. r /\ Len(entries') = r
       /\ entries'[position + 1] = NewEntry(u)
       /\ \A i \in 1 .. r : i # position + 1 => entries'[i] = Enlarged[i]
  BY <1>4, <1>6, <1>8, <1>9, <1>10
<1>12. 1 .. l \subseteq 1 .. r /\ r >= l
  BY <1>8, <1>9
<1>13. /\ \A i \in 1 .. l : i # position + 1 => entries'[i] = entries[i]
       /\ \A i \in 1 .. r : i > l /\ i # position + 1 => entries'[i] = Junk
  BY <1>8, <1>9, <1>11, <1>12
<1>14. EntryOf(k + 1)' = NewEntry(u)
  BY <1>1, <1>11 DEF EntryOf
<1>15. ASSUME NEW i \in 1 .. k, stage[i].hooked
       PROVE  frames[i].cookie < Len(entries') /\ EntryOf(i)' = EntryOf(i)
  <2>1. i \in Hooked
    <3>1. DOMAIN frames = 1 .. k
      BY Entered
    <3> QED BY <1>15, <3>1 DEF Hooked
  <2>2. frames[i].cookie < l /\ frames[i].cookie \in Nat /\ frames[i].cookie < position
    BY <1>1, <1>7, <2>1 DEF Recorded, EntriesOwn
  <2>3. frames[i].cookie + 1 \in 1 .. l /\ frames[i].cookie + 1 # position + 1
    BY <1>1, <2>2
  <2>4. entries'[frames[i].cookie + 1] = entries[frames[i].cookie + 1]
    BY <1>13, <2>3
  <2>5. frames[i].cookie < Len(entries') /\ frames'[i].cookie = frames[i].cookie
    BY <1>1, <1>11, <1>12, <2>2
  <2> QED BY <2>4, <2>5 DEF EntryOf
<1>16. NewEntry(u) # Junk
  BY <1>6, EntryAssumption
<1>17. profiles' \subseteq Unit
  BY <1>2, <1>4
<1> QED BY <1>4, <1>5, <1>6, <1>7, <1>10, <1>11, <1>12, <1>13, <1>14, <1>15, <1>16, <1>17

(* The entries stay right: if nothing was left above the record of the     *)
(* caller, that is what methodAt(1) finds.                                 *)
LEMMA EnterRecorded ==
  ASSUME IInv, Defined, Recorded, Running, NEW u \in Unit, NEW h \in Nat, NEW n \in Line,
         Enter(u, h, n), PlainEnter \/ (ProfileEnter(u) /\ cause' = "none")
  PROVE  Recorded'
<1>0. PICK k \in Nat : k = Len(frames)
  BY RunningTop DEF IInv
<1>1. /\ k = Len(frames) /\ Len(frames') = k + 1 /\ frames' \in Seq(Frame) /\ k > 0
      /\ \A i \in 1 .. k : frames'[i].unit = frames[i].unit /\ frames'[i].cookie = frames[i].cookie
                          /\ frames'[i].escapedTo = frames[i].escapedTo
      /\ frames'[k + 1].unit = u /\ frames'[k + 1].cookie = position
      /\ \A i \in 1 .. position : positions'[i].info = positions[i].info
  BY <1>0, Entered
<1>2. /\ position \in Nat /\ \A i \in 1 .. k : frames[i].cookie \in Nat /\ frames[i].cookie < position
      /\ DOMAIN frames = 1 .. k /\ DOMAIN frames' = 1 .. k + 1
  BY <1>0, Entered
<1>3. /\ stage \in Seq(Stage) /\ Len(stage) = k /\ entries \in Seq(Entry \cup {Junk})
      /\ profiles \subseteq Unit /\ time \in Nat
  BY <1>1 DEF Recorded
<1>4. \A i \in 1 .. k : stage[i].hooked =>
        /\ frames[i].cookie < Len(entries) /\ EntryOf(i) # Junk
        /\ <<frames[i].unit>> \in EntryOf(i).charged
        /\ i # 1 /\ ~frames[i - 1].escapedTo =>
             EntryOf(i).charged \subseteq {<<frames[i].unit>>, <<frames[i - 1].unit, frames[i].unit>>}
  BY <1>2 DEF Recorded, EntriesOwn, CallersRight, Hooked
<1>6. CASE PlainEnter
  <2>1. /\ stage' = Append(stage, Staged(FALSE, "none"))
        /\ UNCHANGED <<entries, profiles, time>>
    BY <1>6 DEF PlainEnter
  <2>2. stage' \in Seq(Stage) /\ Len(stage') = k + 1 /\ ~stage'[k + 1].hooked
        /\ \A i \in 1 .. k : stage'[i] = stage[i]
    BY <1>3, <2>1, StageEntered
  <2>3. \A i \in 1 .. k + 1 : stage'[i].hooked => i \in 1 .. k
    BY <1>1, <2>2
  <2>4. \A i \in Hooked' : i \in 1 .. k /\ stage[i].hooked
    BY <1>2, <2>2, <2>3 DEF Hooked
  <2>5. \A i \in 1 .. k : EntryOf(i)' = EntryOf(i)
    BY <1>1, <2>1 DEF EntryOf
  <2>6. EntriesOwn'
    BY <1>1, <1>4, <2>1, <2>4, <2>5 DEF EntriesOwn
  <2>7. CallersRight'
    <3>1. ASSUME NEW i \in Hooked' \ {1} PROVE i \in 1 .. k /\ i - 1 \in 1 .. k /\ stage[i].hooked
      BY <2>4, <1>1
    <3> QED BY <1>1, <1>4, <2>5, <3>1 DEF CallersRight
  <2> QED BY <1>1, <1>3, <2>1, <2>2, <2>6, <2>7 DEF Recorded
<1>7. CASE ProfileEnter(u) /\ cause' = "none"
  <2> DEFINE new == NewEntry(u)
  <2>1. /\ stage' = Append(stage, Staged(TRUE, "none")) /\ time' = time /\ profiles' \subseteq Unit
        /\ entries' \in Seq(Entry \cup {Junk}) /\ position < Len(entries')
    BY <1>0, <1>7, ProfileEntered
  <2>2. stage' \in Seq(Stage) /\ Len(stage') = k + 1
        /\ \A i \in 1 .. k : stage'[i] = stage[i]
    BY <1>3, <2>1, StageEntered
  <2>3. Charges(u) \subseteq {<<u>>} \cup {<<c, u>> : c \in Callers} /\ <<u>> \in Charges(u)
    BY <1>0, <1>7, ProfileEntered
  <2>6. \A i \in 1 .. k : stage[i].hooked =>
          /\ frames[i].cookie < Len(entries') /\ EntryOf(i)' = EntryOf(i)
    BY <1>0, <1>7, ProfileEntered
  <2>7. EntryOf(k + 1)' = new /\ frames'[k + 1].cookie < Len(entries')
    BY <1>0, <1>1, <1>7, <2>1, ProfileEntered
  <2>8. \A i \in Hooked' : i = k + 1 \/ (i \in 1 .. k /\ stage[i].hooked)
    BY <1>1, <1>2, <2>2 DEF Hooked
  <2>9. new # Junk /\ new.charged = Charges(u)
    BY <1>0, <1>7, ProfileEntered
  <2>10. EntriesOwn'
    <3> SUFFICES ASSUME NEW i \in Hooked'
                 PROVE  /\ frames'[i].cookie < Len(entries')
                        /\ EntryOf(i)' # Junk
                        /\ <<frames'[i].unit>> \in EntryOf(i)'.charged
      BY DEF EntriesOwn
    <3> HIDE DEF new
    <3>1. CASE i = k + 1
      BY <1>1, <2>3, <2>7, <2>9, <3>1
    <3>2. CASE i \in 1 .. k /\ stage[i].hooked
      BY <1>1, <1>4, <2>6, <3>2
    <3> QED BY <2>8, <3>1, <3>2
  <2>11. ~frames[k].escapedTo => Callers = {frames[k].unit}
    <3>1. k \in 1 .. k /\ k = Len(frames)
      BY <1>1
    <3>2. ~frames[k].escapedTo => position = frames[k].cookie + 1
      BY <3>1 DEF IInv, StaleRecordsConfined, Following, Defined
    <3>3. positions[frames[k].cookie + 1].info = frames[k].unit
      BY <3>1 DEF IInv, RecordsIntact, Defined
    <3>4. position > 0 => position \in 1 .. position
      BY <1>2
    <3>5. frames[k].cookie < position /\ frames[k].cookie \in Nat
      BY <1>2, <3>1
    <3> QED BY <1>1, <1>2, <3>2, <3>3, <3>4, <3>5 DEF Callers
  <2>12. CallersRight'
    <3> SUFFICES ASSUME NEW i \in Hooked' \ {1}, ~frames'[i - 1].escapedTo
                 PROVE  EntryOf(i)'.charged \subseteq
                          {<<frames'[i].unit>>, <<frames'[i - 1].unit, frames'[i].unit>>}
      BY DEF CallersRight
    <3> HIDE DEF new
    <3>1. CASE i = k + 1
      <4>1. i - 1 = k /\ k \in 1 .. k
        BY <1>1, <3>1
      <4>2. ~frames[k].escapedTo /\ frames'[i - 1].unit = frames[k].unit
        BY <1>1, <4>1
      <4>3. EntryOf(i)'.charged = Charges(u) /\ frames'[i].unit = u
        BY <1>1, <2>7, <2>9, <3>1
      <4> QED BY <2>3, <2>11, <4>2, <4>3
    <3>2. CASE i \in 1 .. k /\ stage[i].hooked
      <4>1. i - 1 \in 1 .. k
        BY <1>1, <3>2
      <4> QED BY <1>1, <1>4, <2>6, <3>2, <4>1
    <3> QED BY <2>8, <3>1, <3>2
  <2> QED BY <1>1, <1>3, <2>1, <2>2, <2>10, <2>12 DEF Recorded
<1> QED BY <1>6, <1>7

(* The activations that stay when one is left, by a return or a non-local  *)
(* one, are the outer ones; only the last of them is answered to.          *)
LEMMA Outer ==
  ASSUME IInv, Return \/ NonLocalReturn
  PROVE  /\ Len(frames) \in Nat /\ Len(frames') \in Nat /\ Len(frames') < Len(frames)
         /\ DOMAIN frames = 1 .. Len(frames) /\ DOMAIN frames' = 1 .. Len(frames')
         /\ \A i \in 1 .. Len(frames') :
              /\ frames'[i].unit = frames[i].unit /\ frames'[i].cookie = frames[i].cookie
              /\ i < Len(frames') => frames'[i].escapedTo = frames[i].escapedTo
<1>1. /\ TypeOK /\ Running /\ Len(frames) \in Nat \ {0} /\ Top \in Frame
      /\ DOMAIN frames = 1 .. Len(frames)
      /\ \A i \in 1 .. Len(frames) : frames[i] \in Frame
  <2>1. TypeOK /\ Running
    BY DEF IInv, Return, NonLocalReturn
  <2> QED BY <2>1, RunningTop DEF TypeOK
<1>2. CASE Return
  <2>1. /\ frames' \in Seq(Frame) /\ Len(frames') = Len(frames) - 1
        /\ \A i \in 1 .. (Len(frames) - 1) : frames'[i] = frames[i]
    BY <1>1, <1>2, RunningTop DEF Return
  <2> QED BY <1>1, <2>1
<1>3. CASE NonLocalReturn
  <2> DEFINE h == Top.home
             f(i) == IF i = h - 1 THEN EscapedTo(frames[i]) ELSE frames[i]
  <2>1. frames' = [i \in 1 .. (h - 1) |-> f(i)] /\ h > 0
    BY <1>3 DEF NonLocalReturn
  <2>2. h \in 1 .. Len(frames)
    <3>1. h \in Nat
      BY <1>1 DEF Frame
    <3>2. Len(frames) \in 1 .. Len(frames)
      BY <1>1
    <3>3. LiveHome(h, Len(frames))
      BY <3>2 DEF IInv, HomesLive, Top
    <3> QED BY <2>1, <3>1, <3>3 DEF LiveHome
  <2>3. PICK k \in Nat : k = h - 1
    BY <2>2, <1>1
  <2>4. k < Len(frames) /\ 1 .. k \subseteq 1 .. Len(frames)
    BY <1>1, <2>2, <2>3
  <2>5. \A i \in 1 .. k : /\ f(i).unit = frames[i].unit /\ f(i).cookie = frames[i].cookie
                          /\ i < k => f(i).escapedTo = frames[i].escapedTo
    <3> SUFFICES ASSUME NEW i \in 1 .. k
                 PROVE  /\ f(i).unit = frames[i].unit /\ f(i).cookie = frames[i].cookie
                        /\ i < k => f(i).escapedTo = frames[i].escapedTo
      OBVIOUS
    <3>1. CASE i = k
      <4>1. i = h - 1 /\ ~(i < k)
        BY <2>3, <3>1
      <4>2. f(i) = EscapedTo(frames[i])
        BY <4>1
      <4> QED BY <4>1, <4>2 DEF EscapedTo, Activated
    <3>2. CASE i # k
      <4>1. i # h - 1
        BY <2>3, <3>2
      <4>2. f(i) = frames[i]
        BY <4>1
      <4> QED BY <4>2
    <3> QED BY <3>1, <3>2
  <2>6. frames' = [i \in 1 .. k |-> f(i)]
    BY <2>1, <2>3
  <2> HIDE DEF f, h
  <2>7. Len(frames') = k /\ DOMAIN frames' = 1 .. k
    BY <2>6
  <2>8. \A i \in 1 .. k : frames'[i] = f(i)
    BY <2>6
  <2>9. \A i \in 1 .. k : /\ frames'[i].unit = frames[i].unit
                          /\ frames'[i].cookie = frames[i].cookie
                          /\ i < k => frames'[i].escapedTo = frames[i].escapedTo
    BY <2>5, <2>8
  <2> QED BY <1>1, <2>4, <2>7, <2>9
<1> QED BY <1>2, <1>3

LEMMA Left ==
  ASSUME IInv, Recorded, Return \/ NonLocalReturn, PlainLeave \/ ProfileLeave,
         cause = "none", cause' = "none", NEW k \in Nat, k = Len(frames')
  PROVE  /\ Len(frames) \in Nat /\ k < Len(frames)
         /\ DOMAIN frames = 1 .. Len(frames) /\ DOMAIN frames' = 1 .. k
         /\ \A i \in 1 .. k :
              /\ frames'[i].unit = frames[i].unit /\ frames'[i].cookie = frames[i].cookie
              /\ i < k => frames'[i].escapedTo = frames[i].escapedTo
         /\ UNCHANGED <<hook, kept, stale, entries, profiles, time, sessions, deep>>
         /\ Len(stage) = Len(frames) /\ DOMAIN stage = DOMAIN frames
         /\ stage' \in Seq(Stage) /\ Len(stage') = k /\ DOMAIN stage' = 1 .. k
         /\ \A i \in 1 .. k : stage'[i] = stage[i]
         /\ \A i \in Hooked' : i \in 1 .. k /\ i \in Hooked /\ EntryOf(i)' = EntryOf(i)
         /\ position' = Top.cookie
<1>1. /\ Len(frames) \in Nat /\ k < Len(frames)
      /\ DOMAIN frames = 1 .. Len(frames) /\ DOMAIN frames' = 1 .. k
      /\ \A i \in 1 .. k :
           /\ frames'[i].unit = frames[i].unit /\ frames'[i].cookie = frames[i].cookie
           /\ i < k => frames'[i].escapedTo = frames[i].escapedTo
  <2>1. /\ Len(frames) \in Nat /\ Len(frames') < Len(frames)
        /\ DOMAIN frames = 1 .. Len(frames) /\ DOMAIN frames' = 1 .. Len(frames')
        /\ \A i \in 1 .. Len(frames') :
             /\ frames'[i].unit = frames[i].unit /\ frames'[i].cookie = frames[i].cookie
             /\ i < Len(frames') => frames'[i].escapedTo = frames[i].escapedTo
    BY Outer
  <2>2. Len(frames') = k
    OBVIOUS
  <2> QED BY ONLY <2>1, <2>2
<1>2. /\ stage' = SubSeq(stage, 1, k)
      /\ UNCHANGED <<hook, kept, stale, entries, profiles, time, sessions, deep>>
  <2>1. CASE PlainLeave
    BY <2>1 DEF PlainLeave
  <2>2. CASE ProfileLeave
    BY <2>2 DEF ProfileLeave, Stops
  <2> QED BY <2>1, <2>2
<1>3. stage \in Seq(Stage) /\ Len(stage) = Len(frames) /\ DOMAIN stage = DOMAIN frames
  <2>1. stage \in Seq(Stage) /\ Len(stage) = Len(frames)
    BY DEF Recorded
  <2> QED BY <1>1, <2>1
<1>4. stage' \in Seq(Stage) /\ Len(stage') = k /\ \A i \in 1 .. k : stage'[i] = stage[i]
  <2>1. 1 .. k \subseteq 1 .. Len(stage) /\ k <= Len(stage)
    BY <1>1, <1>3
  <2> QED BY <1>2, <1>3, <2>1
<1>5. \A i \in Hooked' : i \in 1 .. k /\ i \in Hooked /\ EntryOf(i)' = EntryOf(i)
  <2> SUFFICES ASSUME NEW i \in Hooked'
               PROVE  i \in 1 .. k /\ i \in Hooked /\ EntryOf(i)' = EntryOf(i)
    OBVIOUS
  <2>1. i \in 1 .. k /\ stage[i].hooked
    BY <1>1, <1>4 DEF Hooked
  <2>2. i \in Hooked
    BY <1>1, <2>1 DEF Hooked
  <2>3. EntryOf(i)' = EntryOf(i)
    BY <1>1, <1>2, <2>1 DEF EntryOf
  <2> QED BY <2>1, <2>2, <2>3
<1>6. position' = Top.cookie
  BY DEF Return, NonLocalReturn, Leave
<1>7. DOMAIN stage' = 1 .. k
  BY <1>4
<1> QED BY <1>1, <1>2, <1>3, <1>4, <1>5, <1>6, <1>7

LEMMA LeaveRecorded ==
  ASSUME IInv, Recorded, Return \/ NonLocalReturn,
         PlainLeave \/ ProfileLeave, cause = "none", cause' = "none"
  PROVE  Recorded'
<1>0. PICK k \in Nat : k = Len(frames')
  BY Outer
<1>1. /\ Len(frames) \in Nat /\ k < Len(frames)
      /\ DOMAIN frames = 1 .. Len(frames) /\ DOMAIN frames' = 1 .. k
      /\ \A i \in 1 .. k :
           /\ frames'[i].unit = frames[i].unit /\ frames'[i].cookie = frames[i].cookie
           /\ i < k => frames'[i].escapedTo = frames[i].escapedTo
  BY <1>0, Left
<1>2. UNCHANGED <<entries, profiles, time>>
  BY <1>0, Left
<1>4. stage' \in Seq(Stage) /\ Len(stage') = k
  BY <1>0, Left
<1>5. \A i \in Hooked' : i \in 1 .. k /\ i \in Hooked /\ EntryOf(i)' = EntryOf(i)
  BY <1>0, Left
<1>6. CASE ~halted
  <2>1. Defined
    BY <1>6 DEF Defined
  <2>2. EntriesOwn'
    BY <1>1, <1>2, <1>5, <2>1 DEF EntriesOwn, Recorded
  <2>3. CallersRight'
    <3> SUFFICES ASSUME NEW i \in Hooked' \ {1}, ~frames'[i - 1].escapedTo
                 PROVE  EntryOf(i)'.charged \subseteq
                          {<<frames'[i].unit>>, <<frames'[i - 1].unit, frames'[i].unit>>}
      BY DEF CallersRight
    <3>1. i \in 1 .. k /\ i \in Hooked \ {1} /\ EntryOf(i)' = EntryOf(i)
      BY <1>5
    <3>2. i - 1 \in 1 .. k /\ i - 1 < k
      BY <1>0, <3>1
    <3>3. ~frames[i - 1].escapedTo /\ frames'[i - 1].unit = frames[i - 1].unit
          /\ frames'[i].unit = frames[i].unit
      BY <1>1, <3>1, <3>2
    <3> QED BY <2>1, <3>1, <3>3 DEF Recorded, CallersRight
  <2> QED BY <1>0, <1>2, <1>4, <2>2, <2>3 DEF Recorded
<1> QED BY <1>6 DEF Return, NonLocalReturn, Running

LEMMA ProfilerInductive ==
  PInv /\ [ProfilerNext]_<<vars, profilerVars>> => PInv'
<1> SUFFICES ASSUME PInv, [ProfilerNext]_<<vars, profilerVars>>, Defined'
             PROVE  Recorded'
  <2>1. PInv /\ [ProfilerNext]_<<vars, profilerVars>> => IInv'
    BY ActivationSteps, Inductive DEF PInv, vars
  <2> QED BY <2>1 DEF PInv
<1>0. IInv
  BY DEF PInv
<1>1. ASSUME NEW m \in Method, NEW n \in Line, ProfiledCall(m, n) PROVE Recorded'
  <2>1. /\ Running /\ Call(m, n) /\ cause = "none" /\ cause' = "none"
        /\ PlainEnter \/ ProfileEnter(m)
    BY <1>1 DEF ProfiledCall, Entering, Busy, Defined, Stops
  <2>2. Defined /\ Recorded
    BY <2>1 DEF Defined, PInv, Running
  <2>3. m \in Unit /\ Len(frames) + 1 \in Nat /\ Enter(m, Len(frames) + 1, n)
    BY <1>0, <2>1, RunningTop DEF Call, Unit, IInv
  <2> QED BY <1>0, <2>1, <2>2, <2>3, EnterRecorded
<1>2. ASSUME NEW c \in closures, NEW n \in Line, ProfiledEvaluate(c, n) PROVE Recorded'
  <2>1. /\ Running /\ Evaluate(c, n) /\ cause = "none" /\ cause' = "none"
        /\ PlainEnter \/ ProfileEnter(c.block)
    BY <1>2 DEF ProfiledEvaluate, Entering, Busy, Defined, Stops
  <2>2. Defined /\ Recorded
    BY <2>1 DEF Defined, PInv, Running
  <2>3. c.block \in Unit /\ c.home \in Nat /\ Enter(c.block, c.home, n)
    BY <1>0, <2>1 DEF Evaluate, IInv, TypeOK, Closure, Unit
  <2> QED BY <1>0, <2>1, <2>2, <2>3, EnterRecorded
<1>3. CASE ProfiledReturn \/ ProfiledNonLocalReturn
  <2>1. /\ Return \/ NonLocalReturn
        /\ cause = "none" /\ cause' = "none" /\ Running
        /\ PlainLeave \/ ProfileLeave
    BY <1>3 DEF ProfiledReturn, ProfiledNonLocalReturn, Leaving, Defined, Stops
  <2>2. Recorded
    BY <2>1 DEF Defined, PInv, Running
  <2> QED BY <1>0, <2>1, <2>2, LeaveRecorded
<1>4. CASE ProfiledDeadReturn
  BY <1>4 DEF ProfiledDeadReturn, DeadReturn, Defined
<1>5. ASSUME UNCHANGED <<frames, entries>>, Recorded, Defined,
             stage' \in Seq(Stage), Len(stage') = Len(stage),
             \A i \in 1 .. Len(stage) : stage'[i].hooked = stage[i].hooked,
             profiles' \subseteq Unit, time' \in Nat
      PROVE  Recorded'
  <2>1. Len(stage) = Len(frames) /\ DOMAIN frames = 1 .. Len(frames)
    BY <1>0, <1>5, Cookies DEF Recorded
  <2>2. Hooked' = Hooked
    BY <1>5, <2>1 DEF Hooked
  <2>3. \A i \in Hooked : EntryOf(i)' = EntryOf(i)
    BY <1>5 DEF EntryOf
  <2>4. EntriesOwn' /\ CallersRight'
    BY <1>5, <2>2, <2>3 DEF Recorded, EntriesOwn, CallersRight
  <2> QED BY <1>5, <2>4 DEF Recorded
<1>6. CASE (\E b \in Block : ProfiledClose(b)) \/ Tick \/ UNCHANGED <<vars, profilerVars>>
  <2>1. Defined /\ Recorded
    BY <1>6 DEF ProfiledClose, Close, Tick, vars, profilerVars, Defined, PInv
  <2>2. UNCHANGED <<frames, entries, stage, profiles>> /\ time' \in Nat
    BY <1>6, <2>1 DEF ProfiledClose, Close, Tick, vars, profilerVars, Recorded
  <2> QED BY <1>5, <2>1, <2>2 DEF Recorded
<1>7. CASE EnableProfile \/ DisableProfile
  <2>1. Defined /\ Recorded
    BY <1>7 DEF EnableProfile, DisableProfile, AtStage, Running, Defined, PInv
  <2>2. PICK s \in {"open", "done"} : stage' = [stage EXCEPT ![Len(stage)].session = s]
    BY <1>7 DEF EnableProfile, DisableProfile, ToStage
  <2>3. /\ stage' \in Seq(Stage) /\ Len(stage') = Len(stage)
        /\ \A i \in 1 .. Len(stage) : stage'[i].hooked = stage[i].hooked
    <3>1. stage \in Seq(Stage)
      BY <2>1 DEF Recorded
    <3> DEFINE g == [stage[Len(stage)] EXCEPT !.session = s]
    <3>2. stage' = [stage EXCEPT ![Len(stage)] = g]
      BY <2>2
    <3>3. Len(stage) \in Nat \ {0} /\ stage[Len(stage)] \in Stage
      <4>1. Len(stage) = Len(frames) /\ Running
        BY <1>7, <2>1 DEF EnableProfile, DisableProfile, AtStage, Recorded
      <4>2. Len(frames) \in Nat \ {0}
        BY <1>0, <4>1, RunningTop DEF IInv
      <4> QED BY <3>1, <4>1, <4>2
    <3>4. g \in Stage /\ g.hooked = stage[Len(stage)].hooked
      BY <3>3 DEF Stage
    <3> HIDE DEF g
    <3> QED BY <3>1, <3>2, <3>3, <3>4
  <2>4. profiles' \subseteq Unit
    <3>1. Profiling \in Unit
      BY ProfilerAssumption DEF Unit
    <3> QED BY <1>7, <2>1, <3>1 DEF EnableProfile, DisableProfile, AtStage, Recorded
  <2>5. UNCHANGED <<frames, entries, time>>
    BY <1>7 DEF EnableProfile, DisableProfile, vars
  <2> QED BY <1>5, <2>1, <2>3, <2>4, <2>5 DEF Recorded
<1> QED BY <1>1, <1>2, <1>3, <1>4, <1>6, <1>7 DEF ProfilerNext

LEMMA ProfilerInitially == Init /\ ProfilerInit => PInv
<1> SUFFICES ASSUME Init, ProfilerInit PROVE Recorded
  BY Initially DEF PInv
<1>1. Len(frames) = 1 /\ DOMAIN frames = {1}
  <2>1. PICK m \in Method : frames = <<Activated(m, 1, 0, Start[m], FALSE)>>
    BY DEF Init
  <2> QED BY <2>1
<1>2. stage = <<Staged(FALSE, "none")>> /\ Staged(FALSE, "none") \in Stage /\ ~stage[1].hooked
  BY DEF ProfilerInit, Staged, Stage
<1>3. Hooked = {}
  BY <1>1, <1>2 DEF Hooked
<1>4. EntriesOwn /\ CallersRight
  BY <1>3 DEF EntriesOwn, CallersRight
<1>5. entries = <<>> /\ profiles = {} /\ time = 0
  BY DEF ProfilerInit
<1>6. stage \in Seq(Stage) /\ Len(stage) = 1
  <2> DEFINE g == Staged(FALSE, "none")
  <2> HIDE DEF g
  <2>1. stage = <<g>> /\ g \in Stage
    BY <1>2 DEF g
  <2> QED BY <2>1
<1> QED BY <1>1, <1>4, <1>5, <1>6 DEF Recorded

LEMMA ProfilerInvariance == ProfilerSpec => []PInv
<1> QED BY ProfilerInitially, ProfilerInductive, PTL DEF ProfilerSpec, ProfiledInit

(***************************************************************************)
(* The entry profileLeave takes the time of an activation from is the one  *)
(* profileEnter made for it, for programs of any depth and arrays of any   *)
(* size (_profile.c, entries[position]).                                   *)
(***************************************************************************)
THEOREM OwnEntries == ProfilerSpec => []EntriesOwn
<1>1. PInv => EntriesOwn
  BY DEF PInv, Recorded, EntriesOwn
<1> QED BY <1>1, ProfilerInvariance, PTL

(***************************************************************************)
(* An edge of the call graph joins a unit to the one that called it,       *)
(* unless a non-local return has answered to the caller (_profile.c,       *)
(* methodAt(1) in profileEnter).                                           *)
(***************************************************************************)
THEOREM RightCallers == ProfilerSpec => []CallersRight
<1>1. PInv => CallersRight
  BY DEF PInv, Recorded, CallersRight
<1> QED BY <1>1, ProfilerInvariance, PTL

-----------------------------------------------------------------------------
(* Times and sessions.  A unit's profile, or an edge, counts at least the  *)
(* running activations whose entries charge it, and what it was charged    *)
(* with was spent before the first of these was entered: when the count    *)
(* comes down to one, only the activation that leaves is left.             *)
Charged(c) == {i \in Hooked : c \in EntryOf(i).charged}

TimeSound ==
    \A c \in Charge :
      /\ total[c] \in Nat /\ active[c] \in Nat
      /\ IsFiniteSet(Charged(c)) /\ Cardinality(Charged(c)) <= active[c]
      /\ \A i \in Charged(c) : total[c] <= EntryOf(i).time /\ EntryOf(i).time <= time

\* Activations entered before the hooks were set have no entry, as all the
\* entries were made above them.
Bare ==
    \A i \in DOMAIN frames \ Hooked :
      frames[i].cookie + 1 \in DOMAIN entries => entries[frames[i].cookie + 1] = Junk

Open == {i \in DOMAIN stage : stage[i].session = "open"}

Sessions ==
    /\ hook \in {"libid", "profiler"} /\ sessions \in Nat
    /\ hook = "libid" => sessions = 0 /\ kept = "none" /\ stale = {} /\ entries = <<>>
    /\ sessions = 0 => hook = "libid" /\ Open = {}
    /\ \A i \in Open : frames[i].unit = Profiling /\ \A j \in DOMAIN stage : j > i => stage[j].hooked
    /\ sessions = 1 => \A i, j \in Open : i = j
    /\ sessions = 1 /\ Open # {} =>
         stale = {} /\ kept = "libid" /\ (entries = <<>> => position = deep)
    /\ entries # <<>> => position <= Len(entries)

(* Timed and SessionSound hold on after undefined behaviour, too.          *)
Timed == time \in Nat /\ (\A c \in Charge : total[c] \in Nat) /\ TimeOnce

TInv ==
    /\ PInv /\ Timed /\ SessionSound
    /\ Defined => TimeSound /\ Bare /\ Sessions

LEMMA EnterTimes ==
  ASSUME IInv, Defined, Recorded, TimeSound, TimeOnce, Bare, Running,
         NEW u \in Unit, NEW h \in Nat, NEW n \in Line, Enter(u, h, n),
         \/ PlainEnter /\ entries = <<>>
         \/ ProfileEnter(u) /\ cause' = "none"
  PROVE  TimeSound' /\ Bare'
<1>0. PICK k \in Nat : k = Len(frames)
  BY RunningTop DEF IInv
<1>1. /\ k > 0 /\ DOMAIN frames = 1 .. k /\ DOMAIN frames' = 1 .. k + 1
      /\ position \in Nat /\ frames'[k + 1].cookie = position
      /\ \A i \in 1 .. k : frames[i].cookie \in Nat /\ frames[i].cookie < position
                          /\ frames'[i].cookie = frames[i].cookie
  BY <1>0, Entered
<1>2. stage \in Seq(Stage) /\ Len(stage) = k /\ time \in Nat
  BY <1>0 DEF Recorded
<1>3. \A i \in 1 .. k + 1 : i \in 1 .. k \/ i = k + 1
  OBVIOUS
<1>4. CASE PlainEnter /\ entries = <<>>
  <2>1. /\ stage' = Append(stage, Staged(FALSE, "none"))
        /\ UNCHANGED <<entries, active, total, time>>
    BY <1>4 DEF PlainEnter
  <2>2. ~stage'[k + 1].hooked /\ \A i \in 1 .. k : stage'[i] = stage[i]
    BY <1>2, <2>1, StageEntered
  <2>3. Hooked' = Hooked
    BY <1>1, <1>3, <2>2 DEF Hooked
  <2>4. \A i \in Hooked : EntryOf(i)' = EntryOf(i)
    BY <1>1, <2>1 DEF EntryOf, Hooked
  <2>5. \A c : Charged(c)' = Charged(c)
    BY <2>3, <2>4 DEF Charged
  <2>6. \A c : \A i \in Charged(c) : EntryOf(i)' = EntryOf(i)
    BY <2>4 DEF Charged
  <2>7. TimeSound'
    BY <2>1, <2>5, <2>6 DEF TimeSound
  <2>8. Bare'
    BY <1>4, <2>1 DEF Bare
  <2> QED BY <2>7, <2>8
<1>5. CASE ProfileEnter(u) /\ cause' = "none"
  <2>1. /\ stage' = Append(stage, Staged(TRUE, "none")) /\ UNCHANGED <<total, time>>
        /\ active' = [c \in Charge |-> active[c] + (IF c \in Charges(u) THEN 1 ELSE 0)]
        /\ NewEntry(u).charged = Charges(u) /\ NewEntry(u).time = time
        /\ entries \in Seq(Entry \cup {Junk}) /\ DOMAIN entries' = 1 .. Len(entries')
        /\ Len(entries) \in Nat
        /\ \A i \in 1 .. Len(entries) : i # position + 1 => entries'[i] = entries[i]
        /\ \A i \in 1 .. Len(entries') : i > Len(entries) /\ i # position + 1 => entries'[i] = Junk
        /\ EntryOf(k + 1)' = NewEntry(u)
        /\ \A i \in 1 .. k : stage[i].hooked => EntryOf(i)' = EntryOf(i)
    BY <1>0, <1>5, ProfileEntered DEF Recorded
  <2>2. stage'[k + 1].hooked /\ \A i \in 1 .. k : stage'[i] = stage[i]
    BY <1>2, <2>1, StageEntered
  <2>3. Hooked' = Hooked \cup {k + 1} /\ k + 1 \notin Hooked /\ Hooked \subseteq 1 .. k
    BY <1>1, <1>3, <2>2 DEF Hooked
  <2>4. \A i \in Hooked : EntryOf(i)' = EntryOf(i)
    BY <1>1, <2>1 DEF Hooked
  <2>5. ASSUME NEW c \in Charge
        PROVE  /\ total'[c] \in Nat /\ active'[c] \in Nat
               /\ IsFiniteSet(Charged(c)') /\ Cardinality(Charged(c)') <= active'[c]
               /\ \A i \in Charged(c)' : total'[c] <= EntryOf(i)'.time /\ EntryOf(i)'.time <= time'
    <3>0. /\ total[c] \in Nat /\ active[c] \in Nat /\ total[c] <= time
          /\ IsFiniteSet(Charged(c)) /\ Cardinality(Charged(c)) <= active[c]
          /\ \A i \in Charged(c) : total[c] <= EntryOf(i).time /\ EntryOf(i).time <= time
      BY DEF TimeSound, TimeOnce
    <3>1. CASE c \in Charges(u)
      <4>1. Charged(c)' = Charged(c) \cup {k + 1} /\ k + 1 \notin Charged(c)
        BY <2>1, <2>3, <2>4, <3>1 DEF Charged
      <4>2. /\ IsFiniteSet(Charged(c)') /\ Cardinality(Charged(c)) \in Nat
            /\ Cardinality(Charged(c)') = Cardinality(Charged(c)) + 1
        BY <3>0, <4>1, FS_AddElement, FS_CardinalityType
      <4>3. active'[c] = active[c] + 1
        BY <2>1, <3>1
      <4>4. \A i \in Charged(c) : EntryOf(i)' = EntryOf(i)
        BY <2>4 DEF Charged
      <4>5. \A i \in Charged(c)' : total'[c] <= EntryOf(i)'.time /\ EntryOf(i)'.time <= time'
        BY <1>2, <2>1, <3>0, <4>1, <4>4
      <4> QED BY <2>1, <3>0, <4>2, <4>3, <4>5
    <3>2. CASE c \notin Charges(u)
      <4>1. Charged(c)' = Charged(c)
        BY <2>1, <2>3, <2>4, <3>2 DEF Charged
      <4>2. active'[c] = active[c]
        BY <2>1, <3>0, <3>2
      <4>3. \A i \in Charged(c) : EntryOf(i)' = EntryOf(i)
        BY <2>4 DEF Charged
      <4> QED BY <2>1, <3>0, <4>1, <4>2, <4>3
    <3> QED BY <3>1, <3>2
  <2>6. TimeSound'
    BY <2>5 DEF TimeSound
  <2>7. Bare'
    <3> SUFFICES ASSUME NEW i \in DOMAIN frames' \ Hooked', frames'[i].cookie + 1 \in DOMAIN entries'
                 PROVE  entries'[frames'[i].cookie + 1] = Junk
      BY DEF Bare
    <3>1. i \in 1 .. k /\ i \in DOMAIN frames \ Hooked
      BY <1>1, <1>3, <2>3
    <3>2. /\ frames'[i].cookie = frames[i].cookie /\ frames[i].cookie \in Nat
          /\ frames[i].cookie + 1 # position + 1
      BY <1>1, <3>1
    <3>3. CASE frames[i].cookie + 1 \in 1 .. Len(entries)
      <4>1. entries[frames[i].cookie + 1] = Junk
        BY <2>1, <3>1, <3>3 DEF Bare
      <4> QED BY <2>1, <3>2, <3>3, <4>1
    <3>4. CASE frames[i].cookie + 1 \notin 1 .. Len(entries)
      <4>1. frames[i].cookie + 1 > Len(entries) /\ frames[i].cookie + 1 \in 1 .. Len(entries')
        BY <2>1, <3>2, <3>4
      <4> QED BY <2>1, <3>2, <4>1
    <3> QED BY <3>3, <3>4
  <2> QED BY <2>6, <2>7
<1> QED BY <1>4, <1>5

LEMMA EnterSessions ==
  ASSUME IInv, Defined, Recorded, Sessions, Running,
         NEW u \in Unit, NEW h \in Nat, NEW n \in Line, Enter(u, h, n),
         \/ hook = "libid" /\ PlainEnter
         \/ hook = "profiler" /\ ProfileEnter(u) /\ cause' = "none"
  PROVE  Sessions'
<1>0. PICK k \in Nat : k = Len(frames)
  BY RunningTop DEF IInv
<1>1. /\ position \in Nat /\ position' = position + 1
      /\ \A i \in 1 .. k : frames'[i].unit = frames[i].unit
  BY <1>0, Entered
<1>2. stage \in Seq(Stage) /\ Len(stage) = k /\ DOMAIN stage = 1 .. k
  <2>1. stage \in Seq(Stage) /\ Len(stage) = k
    BY <1>0 DEF Recorded
  <2> QED BY <2>1
<1>3. \A i \in 1 .. k + 1 : i \in 1 .. k \/ i = k + 1
  OBVIOUS
<1>4. ASSUME NEW b \in BOOLEAN, stage' = Append(stage, Staged(b, "none"))
      PROVE  /\ Open' = Open /\ Open \subseteq 1 .. k /\ DOMAIN stage' = 1 .. k + 1
             /\ stage'[k + 1].hooked = b /\ \A i \in 1 .. k : stage'[i] = stage[i]
  <2>1. /\ DOMAIN stage' = 1 .. k + 1 /\ stage'[k + 1].hooked = b
        /\ \A i \in 1 .. k : stage'[i] = stage[i]
        /\ stage'[k + 1].session = "none"
    BY <1>2, <1>4, StageEntered
  <2>2. Open' = Open
    BY <1>2, <1>3, <2>1 DEF Open
  <2> QED BY <1>2, <2>1, <2>2 DEF Open
<1>5. CASE hook = "libid" /\ PlainEnter
  <2>1. /\ stage' = Append(stage, Staged(FALSE, "none"))
        /\ UNCHANGED <<hook, kept, stale, entries, sessions>>
    BY <1>5 DEF PlainEnter
  <2>2. Open' = {}
    BY <1>4, <1>5, <2>1 DEF Sessions
  <2> QED BY <1>5, <2>1, <2>2 DEF Sessions
<1>6. CASE hook = "profiler" /\ ProfileEnter(u) /\ cause' = "none"
  <2>1. /\ stage' = Append(stage, Staged(TRUE, "none"))
        /\ UNCHANGED <<hook, kept, stale, sessions, deep>>
        /\ Len(entries') \in Nat /\ position < Len(entries')
    BY <1>0, <1>6, ProfileEntered
  <2>2. /\ Open' = Open /\ Open \subseteq 1 .. k /\ DOMAIN stage' = 1 .. k + 1
        /\ stage'[k + 1].hooked /\ \A i \in 1 .. k : stage'[i] = stage[i]
    BY <1>4, <2>1
  <2>3. entries' # <<>> /\ position' <= Len(entries')
    BY <1>1, <2>1
  <2>4. ASSUME NEW i \in Open', NEW j \in DOMAIN stage', j > i PROVE stage'[j].hooked
    <3>1. \A l \in DOMAIN stage : l > i => stage[l].hooked
      BY <2>2, <2>4 DEF Sessions
    <3>2. j \in 1 .. k \/ j = k + 1
      BY <1>3, <2>2
    <3>3. CASE j \in 1 .. k
      BY <1>2, <2>2, <2>4, <3>1, <3>3
    <3> QED BY <2>2, <3>2, <3>3
  <2>5. \A i \in Open' : frames'[i].unit = Profiling
    BY <1>1, <2>2 DEF Sessions
  <2> QED BY <1>6, <2>1, <2>2, <2>3, <2>4, <2>5 DEF Sessions
<1> QED BY <1>5, <1>6

(* What is left of an activation that leaves: the others it was counted    *)
(* with, or, when it was the last, the time since it was entered.          *)
LEMMA LeaveTimes ==
  ASSUME IInv, Defined, Recorded, TimeSound, TimeOnce, Bare, Return \/ NonLocalReturn,
         PlainLeave \/ ProfileLeave, cause = "none", cause' = "none"
  PROVE  TimeSound' /\ TimeOnce' /\ Bare'
<1>0. PICK k \in Nat : k = Len(frames')
  BY Outer
<1>1. /\ Len(frames) \in Nat /\ k < Len(frames)
      /\ DOMAIN frames = 1 .. Len(frames) /\ DOMAIN frames' = 1 .. k
      /\ \A i \in 1 .. k : frames'[i].cookie = frames[i].cookie
      /\ UNCHANGED <<entries, time>>
      /\ \A i \in 1 .. k : stage'[i] = stage[i]
      /\ \A i \in Hooked' : i \in 1 .. k /\ i \in Hooked /\ EntryOf(i)' = EntryOf(i)
  BY <1>0, Left
<1>2. Bare'
  <2>1. ASSUME NEW i \in 1 .. k, i \notin Hooked' PROVE i \in DOMAIN frames \ Hooked
    BY <1>1, <2>1 DEF Hooked
  <2>2. \A i \in 1 .. k : frames'[i].cookie + 1 = frames[i].cookie + 1
    BY <1>1
  <2> QED BY <1>1, <2>1, <2>2 DEF Bare
<1>3. ASSUME NEW c
      PROVE  /\ Charged(c)' \subseteq Charged(c) /\ Len(frames) \notin Charged(c)'
             /\ \A i \in Charged(c)' : EntryOf(i)' = EntryOf(i)
  BY <1>1 DEF Charged
<1>4. ASSUME NEW c \in Charge, total'[c] = total[c], active'[c] = active[c]
      PROVE  /\ total'[c] \in Nat /\ active'[c] \in Nat /\ total'[c] <= time'
             /\ IsFiniteSet(Charged(c)') /\ Cardinality(Charged(c)') <= active'[c]
             /\ \A i \in Charged(c)' : total'[c] <= EntryOf(i)'.time /\ EntryOf(i)'.time <= time'
  <2>1. /\ total[c] \in Nat /\ active[c] \in Nat /\ total[c] <= time
        /\ IsFiniteSet(Charged(c)) /\ Cardinality(Charged(c)) <= active[c]
        /\ \A i \in Charged(c) : total[c] <= EntryOf(i).time /\ EntryOf(i).time <= time
    BY DEF TimeSound, TimeOnce
  <2>2. /\ IsFiniteSet(Charged(c)') /\ Cardinality(Charged(c)') \in Nat
        /\ Cardinality(Charged(c)) \in Nat /\ Cardinality(Charged(c)') <= Cardinality(Charged(c))
    BY <1>3, <2>1, FS_Subset, FS_CardinalityType
  <2> QED BY <1>1, <1>3, <1>4, <2>1, <2>2
<1>5. CASE UNCHANGED <<active, total>>
  BY <1>2, <1>4, <1>5 DEF TimeSound, TimeOnce
<1>6. ASSUME Discharge(entries[Top.cookie + 1]), entries[Top.cookie + 1] # Junk,
             Top.cookie + 1 \in DOMAIN entries
      PROVE  TimeSound' /\ TimeOnce'
  <2> DEFINE K == Len(frames)
             e == EntryOf(K)
  <2>1. K \in Hooked /\ entries[Top.cookie + 1] = e
    <3>1. Len(frames) \in DOMAIN frames
      BY <1>1, <1>0
    <3> QED BY <1>6, <3>1 DEF Bare, Top, EntryOf
  <2>2. /\ total' = [c \in Charge |-> total[c] + (IF c \in e.charged THEN Spent(e, c) ELSE 0)]
        /\ active' = [c \in Charge |-> active[c] - (IF c \in e.charged THEN 1 ELSE 0)]
    BY <1>6, <2>1 DEF Discharge
  <2>3. ASSUME NEW c \in Charge, c \in e.charged
        PROVE  /\ total'[c] \in Nat /\ active'[c] \in Nat /\ total'[c] <= time'
               /\ IsFiniteSet(Charged(c)') /\ Cardinality(Charged(c)') <= active'[c]
               /\ \A i \in Charged(c)' : total'[c] <= EntryOf(i)'.time /\ EntryOf(i)'.time <= time'
    <3>1. /\ total[c] \in Nat /\ active[c] \in Nat /\ total[c] <= time /\ time \in Nat
          /\ IsFiniteSet(Charged(c)) /\ Cardinality(Charged(c)) <= active[c]
          /\ \A i \in Charged(c) : total[c] <= EntryOf(i).time /\ EntryOf(i).time <= time
      BY DEF TimeSound, TimeOnce, Recorded
    <3>2. K \in Charged(c)
      BY <2>1, <2>3 DEF Charged
    <3> DEFINE rest == Charged(c) \ {K}
    <3>3. /\ IsFiniteSet(rest) /\ Cardinality(rest) = Cardinality(Charged(c)) - 1
          /\ Cardinality(rest) \in Nat /\ Cardinality(Charged(c)) \in Nat
      BY <3>1, <3>2, FS_RemoveElement, FS_CardinalityType
    <3>4. Charged(c)' \subseteq rest
      BY <1>3
    <3>5. /\ IsFiniteSet(Charged(c)') /\ Cardinality(Charged(c)') \in Nat
          /\ Cardinality(Charged(c)') <= Cardinality(rest)
      BY <3>3, <3>4, FS_Subset, FS_CardinalityType
    <3>6. active'[c] = active[c] - 1
      BY <2>2, <2>3
    <3>7. active'[c] \in Nat /\ Cardinality(Charged(c)') <= active'[c]
      BY <3>1, <3>3, <3>5, <3>6
    <3>8. total'[c] = total[c] + Spent(e, c)
      BY <2>2, <2>3
    <3>9. CASE time > e.time /\ active[c] = 1
      <4>1. Charged(c)' = {}
        <5>1. Cardinality(rest) = 0
          BY <3>1, <3>3, <3>9
        <5>2. rest = {}
          BY <3>3, <5>1, FS_EmptySet
        <5> QED BY <3>4, <5>2
      <4>2. total'[c] = total[c] + (time - e.time) /\ total[c] <= e.time
        BY <3>1, <3>2, <3>8, <3>9 DEF Spent
      <4>3. e.time \in Nat
        <5>1. e \in Entry
          BY <1>6, <2>1 DEF Recorded
        <5> QED BY <5>1 DEF Entry
      <4>4. total'[c] \in Nat /\ total'[c] <= time
        <5> HIDE DEF e
        <5> QED BY <3>1, <3>9, <4>2, <4>3
      <4> QED BY <1>1, <3>5, <3>7, <4>1, <4>4
    <3>10. CASE ~(time > e.time /\ active[c] = 1)
      <4>1. total'[c] = total[c]
        BY <3>1, <3>8, <3>10 DEF Spent
      <4> QED BY <1>1, <1>3, <3>1, <3>5, <3>7, <4>1
    <3> QED BY <3>9, <3>10
  <2>4. ASSUME NEW c \in Charge, c \notin e.charged
        PROVE  total'[c] = total[c] /\ active'[c] = active[c]
    <3>1. total[c] \in Nat /\ active[c] \in Nat
      BY DEF TimeSound
    <3> QED BY <2>2, <2>4, <3>1
  <2> HIDE DEF e
  <2> QED BY <1>4, <2>3, <2>4 DEF TimeSound, TimeOnce
<1>7. CASE PlainLeave
  BY <1>2, <1>5, <1>7 DEF PlainLeave
<1>8. CASE ProfileLeave
  <2>1. \/ UNCHANGED <<active, total>>
        \/ /\ Discharge(entries[Top.cookie + 1]) /\ entries[Top.cookie + 1] # Junk
           /\ Top.cookie + 1 \in DOMAIN entries
    BY <1>8 DEF ProfileLeave, Stops
  <2> QED BY <1>2, <1>5, <1>6, <2>1
<1> QED BY <1>7, <1>8

LEMMA LeaveSessions ==
  ASSUME IInv, Defined, Recorded, Sessions, Return \/ NonLocalReturn,
         \/ hook = "libid" /\ PlainLeave
         \/ hook = "profiler" /\ ProfileLeave,
         cause = "none", cause' = "none"
  PROVE  Sessions'
<1>0. PICK k \in Nat : k = Len(frames')
  BY Outer
<1>1. /\ Len(frames) \in Nat /\ k < Len(frames)
      /\ DOMAIN stage = 1 .. Len(frames) /\ DOMAIN stage' = 1 .. k
      /\ \A i \in 1 .. k : frames'[i].unit = frames[i].unit
      /\ UNCHANGED <<hook, kept, stale, entries, sessions, deep>>
      /\ \A i \in 1 .. k : stage'[i] = stage[i]
      /\ position' = Top.cookie
  BY <1>0, Left
<1>2. position' \in Nat /\ position \in Nat /\ position' < position
  <2>1. Len(frames) \in 1 .. Len(frames)
    BY <1>0, <1>1
  <2> QED BY <1>1, <2>1, Cookies DEF Top
<1>3. Open' \subseteq Open /\ Open' \subseteq 1 .. k /\ 1 .. k \subseteq 1 .. Len(frames)
  BY <1>1 DEF Open
<1>4. hook = "profiler" => entries # <<>>
  BY DEF ProfileLeave, Stops
<1>5. hook = "libid" => sessions = 0 /\ Open' = {}
  BY <1>3 DEF Sessions
<1>6. \A i \in Open' : frames'[i].unit = Profiling
  BY <1>1, <1>3 DEF Sessions
<1>7. \A i \in Open' : \A j \in DOMAIN stage' : j > i => stage'[j].hooked
  <2>1. ASSUME NEW i \in Open', NEW j \in 1 .. k, j > i PROVE stage'[j].hooked
    <3>1. \A l \in DOMAIN stage : l > i => stage[l].hooked
      BY <1>3, <2>1 DEF Sessions
    <3> QED BY <1>1, <1>3, <2>1, <3>1
  <2> QED BY <1>1, <2>1
<1>8. entries # <<>> => position' <= Len(entries')
  <2>1. entries # <<>> => position <= Len(entries) /\ Len(entries) \in Nat
    BY DEF Sessions, Recorded
  <2> QED BY <1>1, <1>2, <2>1
<1>9. sessions = 1 /\ Open' # {} => Open # {}
  BY <1>3
<1>10. sessions = 1 => \A i, j \in Open' : i = j
  BY <1>3 DEF Sessions
<1> QED BY <1>1, <1>3, <1>4, <1>5, <1>6, <1>7, <1>8, <1>9, <1>10 DEF Sessions

(* Steps that leave activations and entries alone.                         *)
LEMMA SameTimes ==
  ASSUME IInv, Defined, Recorded, TimeSound, TimeOnce, Bare,
         UNCHANGED <<frames, entries, active, total>>,
         Hooked' = Hooked, time \in Nat, time' \in Nat, time <= time'
  PROVE  TimeSound' /\ TimeOnce' /\ Bare'
<1>1. \A i \in Hooked : EntryOf(i)' = EntryOf(i)
  BY DEF EntryOf
<1>2. \A c : Charged(c)' = Charged(c)
  BY <1>1 DEF Charged
<1>3. Bare'
  BY DEF Bare
<1>4. ASSUME NEW c \in Charge
      PROVE  /\ total'[c] \in Nat /\ active'[c] \in Nat /\ total'[c] <= time'
             /\ IsFiniteSet(Charged(c)') /\ Cardinality(Charged(c)') <= active'[c]
             /\ \A i \in Charged(c)' : total'[c] <= EntryOf(i)'.time /\ EntryOf(i)'.time <= time'
  <2>1. /\ total[c] \in Nat /\ active[c] \in Nat /\ total[c] <= time
        /\ IsFiniteSet(Charged(c)) /\ Cardinality(Charged(c)) <= active[c]
        /\ \A i \in Charged(c) : total[c] <= EntryOf(i).time /\ EntryOf(i).time <= time
    BY DEF TimeSound, TimeOnce
  <2>2. ASSUME NEW i \in Charged(c) PROVE EntryOf(i)' = EntryOf(i) /\ EntryOf(i).time \in Nat
    <3>1. i \in Hooked
      BY DEF Charged
    <3>2. EntryOf(i) \in Entry
      <4>1. frames[i].cookie < Len(entries) /\ EntryOf(i) # Junk
        BY <3>1 DEF Recorded, EntriesOwn
      <4>2. frames[i].cookie + 1 \in 1 .. Len(entries)
        BY <3>1, <4>1, Cookies DEF Recorded, Hooked
      <4> QED BY <4>1, <4>2 DEF Recorded, EntryOf
    <3> QED BY <1>1, <3>1, <3>2 DEF Entry
  <2> QED BY <1>2, <2>1, <2>2
<1> QED BY <1>3, <1>4 DEF TimeSound, TimeOnce

(* The stages of the activations after that of the top one is set to s.    *)
LEMMA Switched ==
  ASSUME IInv, Defined, Recorded, Running, NEW s \in {"open", "done"}, ToStage(s),
         NEW k \in Nat, k = Len(frames)
  PROVE  /\ k > 0 /\ Len(stage) = k /\ DOMAIN frames = 1 .. k
         /\ stage' \in Seq(Stage) /\ Len(stage') = k
         /\ DOMAIN stage = 1 .. k /\ DOMAIN stage' = 1 .. k
         /\ \A i \in 1 .. k : stage'[i].hooked = stage[i].hooked
         /\ stage'[k].session = s
         /\ \A i \in 1 .. k : i # k => stage'[i].session = stage[i].session
<1>1. stage \in Seq(Stage) /\ Len(stage) = k /\ k > 0 /\ DOMAIN frames = 1 .. k
  <2>1. stage \in Seq(Stage) /\ Len(stage) = k
    BY DEF Recorded
  <2>2. Len(frames) \in Nat \ {0} /\ DOMAIN frames = 1 .. Len(frames)
    BY RunningTop, Cookies DEF IInv
  <2> QED BY <2>1, <2>2
<1>2. stage[k] \in Stage
  BY <1>1
<1> DEFINE g == [stage[k] EXCEPT !.session = s]
<1>3. g \in Stage /\ g.hooked = stage[k].hooked /\ g.session = s
  BY <1>2 DEF Stage
<1>4. stage' = [stage EXCEPT ![k] = g]
  BY <1>1 DEF ToStage
<1> HIDE DEF g
<1>5. /\ stage' \in Seq(Stage) /\ Len(stage') = k /\ stage'[k] = g
      /\ \A i \in 1 .. k : i # k => stage'[i] = stage[i]
      /\ DOMAIN stage = 1 .. k /\ DOMAIN stage' = 1 .. k
  BY <1>1, <1>3, <1>4
<1>6. \A i \in 1 .. k : stage'[i].hooked = stage[i].hooked
  BY <1>3, <1>5
<1> QED BY <1>1, <1>3, <1>5, <1>6

LEMMA Enabled ==
  ASSUME IInv, Defined, Recorded, Sessions, EnableProfile
  PROVE  Sessions' /\ Hooked' = Hooked
<1>0. PICK k \in Nat : k = Len(frames)
  BY Cookies
<1>1. /\ Running /\ Top.unit = Profiling /\ ToStage("open") /\ stage[Len(stage)].session = "none"
      /\ UNCHANGED <<frames, position, stale, entries>> /\ sessions' = sessions + 1
      /\ deep' = (IF sessions = 0 THEN position ELSE deep)
      /\ hook' = "profiler"
      /\ kept # "profiler" => kept' = hook
  <2>1. hook = "libid" => kept = "none"
    BY DEF Sessions
  <2>2. hook \in {"libid", "profiler"}
    BY DEF Sessions
  <2> QED BY <2>1, <2>2 DEF EnableProfile, AtStage, vars
<1>2. /\ k > 0 /\ Len(stage) = k /\ DOMAIN frames = 1 .. k
      /\ DOMAIN stage = 1 .. k /\ DOMAIN stage' = 1 .. k
      /\ \A i \in 1 .. k : stage'[i].hooked = stage[i].hooked
      /\ stage'[k].session = "open"
      /\ \A i \in 1 .. k : i # k => stage'[i].session = stage[i].session
  BY <1>0, <1>1, Switched
<1>3. Hooked' = Hooked
  BY <1>1, <1>2 DEF Hooked
<1>4. Open' = Open \cup {k} /\ Open \subseteq 1 .. k
  BY <1>2 DEF Open
<1>5. \A i \in Open' : frames'[i].unit = Profiling
  BY <1>0, <1>1, <1>4 DEF Sessions, Top
<1>6. ASSUME NEW i \in Open', NEW j \in DOMAIN stage', j > i PROVE stage'[j].hooked
  <2>1. i \in Open
    BY <1>2, <1>4, <1>6
  <2>2. \A l \in DOMAIN stage : l > i => stage[l].hooked
    BY <2>1 DEF Sessions
  <2> QED BY <1>2, <1>6, <2>2
<1>7. sessions \in Nat /\ sessions' \in Nat /\ sessions' # 0
      /\ (sessions' = 1 => sessions = 0)
  BY <1>1 DEF Sessions
<1>8. sessions' = 1 => \A i, j \in Open' : i = j
  BY <1>4, <1>7 DEF Sessions
<1>9. sessions' = 1 => stale' = {} /\ kept' = "libid" /\ position' = deep'
  <2>1. sessions = 0 => hook = "libid" /\ kept = "none" /\ stale = {}
    BY DEF Sessions
  <2> QED BY <1>1, <1>7, <2>1
<1>10. entries' # <<>> => position' <= Len(entries')
  BY <1>1 DEF Sessions
<1> QED BY <1>1, <1>3, <1>5, <1>6, <1>7, <1>8, <1>9, <1>10 DEF Sessions

LEMMA Disabled ==
  ASSUME IInv, Defined, Recorded, Sessions, DisableProfile
  PROVE  Sessions' /\ Hooked' = Hooked
<1>0. PICK k \in Nat : k = Len(frames)
  BY Cookies
<1>1. /\ Running /\ ToStage("done") /\ stage[Len(stage)].session = "open"
      /\ UNCHANGED <<frames, position, entries, sessions>>
      /\ hook' = hook \/ hook' = "profiler"
  BY DEF DisableProfile, AtStage, vars
<1>2. /\ k > 0 /\ Len(stage) = k /\ DOMAIN frames = 1 .. k
      /\ DOMAIN stage = 1 .. k /\ DOMAIN stage' = 1 .. k
      /\ \A i \in 1 .. k : stage'[i].hooked = stage[i].hooked
      /\ stage'[k].session = "done"
      /\ \A i \in 1 .. k : i # k => stage'[i].session = stage[i].session
  BY <1>0, <1>1, Switched
<1>3. Hooked' = Hooked
  BY <1>1, <1>2 DEF Hooked
<1>4. Open' = Open \ {k} /\ Open \subseteq 1 .. k /\ k \in Open
  BY <1>1, <1>2 DEF Open
<1>5. hook' = "profiler" /\ sessions # 0
  BY <1>1, <1>4 DEF Sessions
<1>6. \A i \in Open' : frames'[i].unit = Profiling
  BY <1>1, <1>4 DEF Sessions
<1>7. ASSUME NEW i \in Open', NEW j \in DOMAIN stage', j > i PROVE stage'[j].hooked
  <2>1. \A l \in DOMAIN stage : l > i => stage[l].hooked
    BY <1>4 DEF Sessions
  <2> QED BY <1>2, <1>7, <2>1
<1>8. sessions = 1 => Open' = {}
  <2>1. sessions = 1 => \A i, j \in Open : i = j
    BY DEF Sessions
  <2> QED BY <1>4, <2>1
<1>9. entries' # <<>> => position' <= Len(entries')
  BY <1>1 DEF Sessions
<1>10. sessions' = sessions /\ sessions \in Nat
  BY <1>1 DEF Sessions
<1> QED BY <1>3, <1>5, <1>6, <1>7, <1>8, <1>9, <1>10 DEF Sessions

(***************************************************************************)
(* Where a step of the profiler stops, and the first printExecutionProfile *)
(* is evaluating its receiver: only the array can have been too short.     *)
(***************************************************************************)
LEMMA StopSound ==
  ASSUME IInv, Defined, Recorded, Sessions,
         \/ hook = "profiler" /\ kept # "libid" /\ Stops("hooks")
         \/ \E u \in Unit : ProfileEnter(u) /\ cause' # "none"
         \/ ProfileLeave /\ cause' # "none" /\ Running /\ Len(frames) \notin Open
  PROVE  SessionSound'
<1>1. CASE \E why : Stops(why)
  <2> SUFFICES ASSUME sessions = 1, Open # {}
               PROVE  cause' = "array" /\ deep >= FirstEntries
    BY <1>1 DEF SessionSound, Stops, Open
  <2>1. stale = {} /\ kept = "libid" /\ (entries = <<>> => position = deep)
        /\ (entries # <<>> => position <= Len(entries))
    BY DEF Sessions
  <2>2. CASE hook = "profiler" /\ kept # "libid" /\ Stops("hooks")
    BY <2>1, <2>2
  <2>3. ASSUME NEW u \in Unit, ProfileEnter(u), cause' # "none"
        PROVE  cause' = "array" /\ deep >= FirstEntries
    <3>1. Stops("array") /\ position >= Room(Len(entries))
      BY <2>1, <2>3 DEF ProfileEnter, Defined
    <3>2. position \in Nat /\ entries \in Seq(Entry \cup {Junk})
      BY Cookies DEF Recorded
    <3>3. PICK l \in Nat : l = Len(entries) /\ (entries # <<>> => l > 0)
      BY <3>2
    <3>4. entries = <<>>
      <4> SUFFICES ASSUME entries # <<>> PROVE FALSE
        OBVIOUS
      <4>1. position <= l /\ l > 0
        BY <2>1, <3>3
      <4>2. position >= Room(l)
        BY <3>1, <3>3
      <4> QED BY <3>2, <4>1, <4>2 DEF Room
    <3>5. deep >= Room(0) /\ position = deep
      BY <2>1, <3>1, <3>4
    <3>6. deep >= FirstEntries
      BY <3>2, <3>5, ProfilerAssumption DEF Room
    <3> QED BY <3>1, <3>6 DEF Stops
  <2>4. CASE ProfileLeave /\ cause' # "none" /\ Running /\ Len(frames) \notin Open
    <3>0. PICK k \in Nat : k = Len(frames) /\ k > 0 /\ DOMAIN frames = 1 .. k /\ k \in 1 .. k
      BY <2>4, RunningTop, Cookies DEF IInv
    <3>1. DOMAIN stage = 1 .. k
      BY <3>0 DEF Recorded
    <3>2. PICK i \in Open : i \in 1 .. k /\ i # k
      BY <2>4, <3>0, <3>1 DEF Open
    <3>3. stage[k].hooked
      <4>1. k > i
        BY <3>0, <3>2
      <4>2. \A l \in DOMAIN stage : l > i => stage[l].hooked
        BY DEF Sessions
      <4> QED BY <3>0, <3>1, <4>1, <4>2
    <3>4. k \in Hooked
      BY <3>0, <3>3 DEF Hooked
    <3>5. Top.cookie < Len(entries) /\ entries[Top.cookie + 1] # Junk
      BY <3>0, <3>4 DEF Recorded, EntriesOwn, EntryOf, Top
    <3>6. Top.cookie \in Nat /\ DOMAIN entries = 1 .. Len(entries) /\ Len(entries) \in Nat
      BY <3>0, Cookies DEF Top, Recorded
    <3>7. Top.cookie + 1 \in DOMAIN entries
      BY <3>5, <3>6
    <3> QED BY <2>1, <2>4, <3>5, <3>7 DEF ProfileLeave, Defined
  <2> QED BY <2>2, <2>3, <2>4
<1>2. \E why : Stops(why)
  BY DEF ProfileEnter, ProfileLeave, Defined
<1> QED BY <1>1, <1>2

(* A step that stops leaves the totals as they are; one that goes on keeps *)
(* TimeSound, Bare and Sessions.                                           *)
LEMMA StopTimed ==
  ASSUME Timed, SessionSound', NEW why, Stops(why), why # "none"
  PROVE  Timed' /\ SessionSound' /\ ~Defined'
BY DEF Stops, Timed, TimeOnce, Defined

LEMMA GoesOn ==
  ASSUME Timed, Defined, Recorded', TimeSound', TimeOnce', Bare', Sessions', cause' = "none"
  PROVE  Timed' /\ SessionSound' /\ (Defined' => TimeSound' /\ Bare' /\ Sessions')
BY DEF Timed, TimeSound, SessionSound, Recorded

LEMMA TimesInductive ==
  TInv /\ [ProfilerNext]_<<vars, profilerVars>> => TInv'
<1> SUFFICES ASSUME TInv, [ProfilerNext]_<<vars, profilerVars>>
             PROVE  Timed' /\ SessionSound' /\ (Defined' => TimeSound' /\ Bare' /\ Sessions')
  <2>1. TInv /\ [ProfilerNext]_<<vars, profilerVars>> => PInv'
    BY ProfilerInductive DEF TInv
  <2> QED BY <2>1 DEF TInv, Timed
<1>1. IInv /\ Timed /\ SessionSound
      /\ (Defined => Recorded /\ TimeSound /\ TimeOnce /\ Bare /\ Sessions)
  BY DEF TInv, PInv, Timed
<1>2. IInv' /\ (Defined' => Recorded')
  BY ProfilerInductive DEF TInv, PInv
<1>3. ASSUME NEW u \in Unit, NEW h \in Nat, NEW n \in Line, Defined, Running,
             \/ hook = "libid" /\ Enter(u, h, n) /\ PlainEnter
             \/ hook = "profiler" /\ kept = "libid" /\ Enter(u, h, n) /\ ProfileEnter(u)
             \/ hook = "profiler" /\ kept # "libid" /\ UNCHANGED vars /\ Stops("hooks")
      PROVE  Timed' /\ SessionSound' /\ (Defined' => TimeSound' /\ Bare' /\ Sessions')
  <2>1. Recorded /\ TimeSound /\ TimeOnce /\ Bare /\ Sessions /\ cause = "none"
    BY <1>1, <1>3 DEF Defined
  <2>2. CASE hook = "libid" /\ Enter(u, h, n) /\ PlainEnter
    <3>1. entries = <<>>
      BY <2>1, <2>2 DEF Sessions
    <3>2. TimeSound' /\ Bare' /\ Sessions' /\ Recorded'
      BY <1>1, <1>3, <2>1, <2>2, <3>1, EnterTimes, EnterSessions, EnterRecorded
    <3>3. cause' = "none" /\ TimeOnce'
      BY <2>1, <2>2 DEF PlainEnter, TimeOnce
    <3> QED BY <1>1, <1>3, <3>2, <3>3, GoesOn
  <2>3. CASE hook = "profiler" /\ Enter(u, h, n) /\ ProfileEnter(u) /\ cause' = "none"
    <3>1. TimeSound' /\ Bare' /\ Sessions' /\ Recorded'
      BY <1>1, <1>3, <2>1, <2>3, EnterTimes, EnterSessions, EnterRecorded
    <3>2. TimeOnce'
      BY <2>1, <2>3 DEF ProfileEnter, Stops, TimeOnce
    <3> QED BY <1>1, <1>3, <2>3, <3>1, <3>2, GoesOn
  <2>4. CASE hook = "profiler" /\ ProfileEnter(u) /\ cause' # "none"
    <3>1. SessionSound'
      BY <1>1, <1>3, <2>1, <2>4, StopSound
    <3>2. PICK why \in {"freed", "array"} : Stops(why)
      BY <2>1, <2>4 DEF ProfileEnter
    <3> QED BY <1>1, <3>1, <3>2, StopTimed
  <2>5. CASE hook = "profiler" /\ kept # "libid" /\ Stops("hooks")
    <3>1. SessionSound'
      BY <1>1, <1>3, <2>1, <2>5, StopSound
    <3> QED BY <1>1, <2>5, <3>1, StopTimed
  <2> QED BY <1>3, <2>2, <2>3, <2>4, <2>5
<1>4. ASSUME NEW m \in Method, NEW n \in Line, ProfiledCall(m, n)
      PROVE  Timed' /\ SessionSound' /\ (Defined' => TimeSound' /\ Bare' /\ Sessions')
  <2>1. Defined /\ Running
    BY <1>4 DEF ProfiledCall, Entering, Busy, Running, Defined
  <2>2. m \in Unit /\ Len(frames) + 1 \in Nat
    BY <1>1, <2>1, Cookies DEF Unit
  <2> QED BY <1>3, <1>4, <2>1, <2>2 DEF ProfiledCall, Entering, Call
<1>5. ASSUME NEW c \in closures, NEW n \in Line, ProfiledEvaluate(c, n)
      PROVE  Timed' /\ SessionSound' /\ (Defined' => TimeSound' /\ Bare' /\ Sessions')
  <2>1. Defined /\ Running
    BY <1>5 DEF ProfiledEvaluate, Entering, Busy, Running, Defined
  <2>2. c.block \in Unit /\ c.home \in Nat
    BY <1>1 DEF IInv, TypeOK, Closure, Unit
  <2> QED BY <1>3, <1>5, <2>1, <2>2 DEF ProfiledEvaluate, Entering, Evaluate
<1>6. CASE ProfiledReturn \/ ProfiledNonLocalReturn
  <2>1. Defined /\ Running /\ cause = "none"
        /\ Recorded /\ TimeSound /\ TimeOnce /\ Bare /\ Sessions
    BY <1>1, <1>6 DEF ProfiledReturn, ProfiledNonLocalReturn, Leaving, Running, Defined
  <2>2. \/ (Return \/ NonLocalReturn) /\ hook = "libid" /\ PlainLeave
        \/ /\ (Return /\ ProfiledReturn) \/ NonLocalReturn
           /\ hook = "profiler" /\ kept = "libid" /\ ProfileLeave
        \/ hook = "profiler" /\ kept # "libid" /\ Stops("hooks")
    BY <1>6 DEF ProfiledReturn, ProfiledNonLocalReturn, Leaving
  <2>3. CASE (Return \/ NonLocalReturn) /\ cause' = "none"
    <3>1. \/ hook = "libid" /\ PlainLeave
          \/ hook = "profiler" /\ ProfileLeave
      BY <2>2, <2>3 DEF Stops
    <3>2. TimeSound' /\ TimeOnce' /\ Bare'
      BY <1>1, <2>1, <2>3, <3>1, LeaveTimes
    <3>3. Sessions' /\ Recorded'
      BY <1>1, <2>1, <2>3, <3>1, LeaveSessions, LeaveRecorded
    <3> QED BY <1>1, <2>1, <2>3, <3>2, <3>3, GoesOn
  <2>4. CASE ((Return /\ ProfiledReturn) \/ NonLocalReturn) /\ ProfileLeave /\ cause' # "none"
    <3>1. Len(frames) \notin Open
      <4>0. SUFFICES ASSUME Len(frames) \in Open PROVE FALSE
        OBVIOUS
      <4>1. Top.unit = Profiling /\ stage[Len(stage)].session = "open"
        BY <2>1, <4>0 DEF Open, Sessions, Recorded, Top
      <4>2. ~ProfiledReturn
        BY <4>1 DEF ProfiledReturn
      <4>3. Top.unit \in Block
        BY <2>4, <4>2 DEF NonLocalReturn
      <4> QED BY <4>1, <4>3, ActivationAssumption, ProfilerAssumption
    <3>2. SessionSound'
      BY <1>1, <2>1, <2>4, <3>1, StopSound
    <3>3. PICK why \in {"unentered", "freed"} : Stops(why)
      BY <2>1, <2>4 DEF ProfileLeave
    <3> QED BY <1>1, <3>2, <3>3, StopTimed
  <2>5. CASE hook = "profiler" /\ kept # "libid" /\ Stops("hooks")
    <3>1. SessionSound'
      BY <1>1, <2>1, <2>5, StopSound
    <3> QED BY <1>1, <2>5, <3>1, StopTimed
  <2>6. PlainLeave => cause' = "none"
    BY <2>1 DEF PlainLeave
  <2> QED BY <2>2, <2>3, <2>4, <2>5, <2>6
<1>7. CASE ProfiledDeadReturn
  <2>1. ~Defined' /\ UNCHANGED profilerVars
    BY <1>7 DEF ProfiledDeadReturn, DeadReturn, Defined
  <2>2. Timed' /\ SessionSound'
    BY <1>1, <2>1 DEF profilerVars, Timed, TimeOnce, SessionSound
  <2> QED BY <2>1, <2>2
<1>8. CASE EnableProfile \/ DisableProfile
  <2>1. Defined /\ Running /\ cause = "none" /\ cause' = "none"
        /\ Recorded /\ TimeSound /\ TimeOnce /\ Bare /\ Sessions
    BY <1>1, <1>8 DEF EnableProfile, DisableProfile, AtStage, Running, Defined
  <2>2. Sessions' /\ Hooked' = Hooked
    BY <1>1, <1>8, <2>1, Enabled, Disabled
  <2>3. UNCHANGED <<vars, entries, active, total, time>>
    BY <1>8 DEF EnableProfile, DisableProfile
  <2>4. UNCHANGED <<frames, entries, active, total>> /\ time' = time /\ time \in Nat
    BY <1>1, <2>3 DEF vars, Timed
  <2>5. TimeSound' /\ TimeOnce' /\ Bare'
    BY <1>1, <2>1, <2>2, <2>4, SameTimes
  <2>6. Defined'
    BY <2>1, <2>3 DEF Defined, vars
  <2> QED BY <1>1, <1>2, <2>1, <2>2, <2>5, <2>6, GoesOn
<1>9. CASE (\E b \in Block : ProfiledClose(b)) \/ Tick \/ UNCHANGED <<vars, profilerVars>>
  <2>1. /\ UNCHANGED <<frames, position, halted, hook, kept, stale, entries, active, total, stage,
                       sessions, deep, cause>>
        /\ time' = time \/ time' = time + 1
    BY <1>9 DEF ProfiledClose, Close, Tick, vars, profilerVars
  <2>2. Timed' /\ SessionSound'
    BY <1>1, <2>1 DEF Timed, TimeOnce, SessionSound
  <2>3. Defined' => TimeSound' /\ Bare' /\ Sessions'
    <3> SUFFICES ASSUME Defined PROVE TimeSound' /\ Bare' /\ Sessions'
      BY <2>1 DEF Defined
    <3>1. Hooked' = Hooked /\ Open' = Open
      BY <2>1 DEF Hooked, Open
    <3>2. time \in Nat /\ time' \in Nat /\ time <= time'
      BY <1>1, <2>1 DEF Timed
    <3>3. TimeSound' /\ Bare'
      BY <1>1, <2>1, <3>1, <3>2, SameTimes
    <3>4. Sessions'
      BY <1>1, <2>1, <3>1 DEF Sessions
    <3> QED BY <3>3, <3>4
  <2> QED BY <2>2, <2>3
<1> QED BY <1>4, <1>5, <1>6, <1>7, <1>8, <1>9 DEF ProfilerNext

LEMMA TimesInitially == Init /\ ProfilerInit => TInv
<1> SUFFICES ASSUME Init, ProfilerInit PROVE TInv
  OBVIOUS
<1>1. PInv
  BY ProfilerInitially
<1>2. /\ hook = "libid" /\ kept = "none" /\ stale = {} /\ entries = <<>> /\ sessions = 0
      /\ time = 0 /\ cause = "none" /\ DOMAIN stage = {1}
      /\ ~stage[1].hooked /\ stage[1].session = "none"
  BY DEF ProfilerInit, Staged
<1>3. \A c \in Charge : total[c] = 0 /\ active[c] = 0
  BY DEF ProfilerInit
<1>4. Hooked = {} /\ Open = {}
  <2>1. DOMAIN frames = {1}
    <3>1. PICK m \in Method : frames = <<Activated(m, 1, 0, Start[m], FALSE)>>
      BY DEF Init
    <3> QED BY <3>1
  <2> QED BY <1>2, <2>1 DEF Hooked, Open
<1>5. TimeSound
  <2>1. \A c : Charged(c) = {}
    BY <1>4 DEF Charged
  <2> QED BY <1>3, <2>1, FS_EmptySet DEF TimeSound
<1>6. Bare /\ Sessions
  BY <1>2, <1>4 DEF Bare, Sessions
<1>7. SessionSound /\ TimeOnce
  BY <1>2, <1>3 DEF SessionSound, TimeOnce
<1> QED BY <1>1, <1>2, <1>3, <1>5, <1>6, <1>7 DEF TInv, Timed

LEMMA TimesInvariance == ProfilerSpec => []TInv
<1> QED BY TimesInitially, TimesInductive, PTL DEF ProfilerSpec, ProfiledInit

(***************************************************************************)
(* No unit is ever charged with more time than has passed, however often   *)
(* it calls itself and whatever leaves without profileLeave (_profile.c,   *)
(* Profile_leave: the time counts when `active' comes down to nothing).    *)
(***************************************************************************)
THEOREM TimeChargedOnce == ProfilerSpec => []TimeOnce
<1>1. TInv => TimeOnce
  BY DEF TInv, Timed
<1> QED BY <1>1, TimesInvariance, PTL

(***************************************************************************)
(* The first printExecutionProfile of a program is harmless for programs   *)
(* of any shape, save that the array of entries must have room, when it is *)
(* first needed, at the depth it starts at (_profile.c, profileEnter and   *)
(* profileLeave; BlockClosure.st, printExecutionProfile).                  *)
(***************************************************************************)
THEOREM FirstSessionSound == ProfilerSpec => []SessionSound
<1> QED BY TimesInvariance, PTL DEF TInv
=============================================================================
