--------------------------- MODULE DispatchProofs ---------------------------
(* Theorems about Dispatch, for every program, hash and number of families. *)
EXTENDS Dispatch, NaturalsInduction, SequenceTheorems,
        FiniteSetTheorems, WellFoundedInduction, TLAPS

\* A nonempty set of naturals has a least element.
LEMMA LeastExists ==
  ASSUME NEW S \in SUBSET Nat, S # {}
  PROVE  \E i \in S : \A j \in S : i <= j
<1> DEFINE Less == {p \in Nat \X Nat : p[1] < p[2]}
<1>1. IsWellFoundedOn(Less, Nat)
  BY NatLessThanWellFounded DEF OpToRel
<1> HIDE DEF Less
<1>2. PICK i \in S : \A j \in S : ~(<<j, i>> \in Less)
  BY <1>1, WFMin
<1>3. ASSUME NEW j \in S PROVE i <= j
  <2>1. i \in Nat /\ j \in Nat
    OBVIOUS
  <2>2. ~(j < i)
    BY <1>2, <2>1 DEF Less
  <2> QED BY <2>1, <2>2
<1> QED BY <1>3

\* The lookup finds a closure or nothing: Nearest really is a definer.
LEMMA NearestDefines ==
  ASSUME TypeOK, NEW v \in VTable, NEW s \in Selector, Sends!Definers(v, s) # {}
  PROVE  /\ Sends!Nearest(v, s) \in Sends!Definers(v, s)
         /\ chain[v][Sends!Nearest(v, s)] \in VTable
<1> DEFINE D == Sends!Definers(v, s)
<1>1. chain[v] \in Seq(VTable)
  BY DEF TypeOK
<1>2. D \in SUBSET Nat /\ D \subseteq DOMAIN chain[v]
  BY <1>1 DEF Sends!Definers
<1> HIDE DEF D
<1>3. \E i \in D : \A j \in D : i <= j
  BY <1>2, LeastExists DEF D
<1>4. Sends!Nearest(v, s) \in D
  BY <1>3 DEF Sends!Nearest, D
<1> QED BY <1>1, <1>2, <1>4 DEF D

LEMMA FindType ==
  ASSUME TypeOK, NEW v \in VTable, NEW s \in Selector
  PROVE  /\ Find(v, s) \in Closure \cup {Nil}
         /\ Find(v, s) # Nil => Find(v, s) \in Closure /\ methods[Find(v, s)[1]][s] # Nil
<1>1. CASE Sends!Definers(v, s) = {}
  BY <1>1 DEF Find, Sends!Find
<1>2. CASE Sends!Definers(v, s) # {}
  BY <1>2, NearestDefines DEF Find, Sends!Find, Closure, Sends!Definers
<1> QED BY <1>1, <1>2

-----------------------------------------------------------------------------
(* Type correctness *)

\* Resuming the bind below only moves it to another phase, inside or outside
\* its lookup as it was.
LEMMA ResumeShape ==
  ASSUME NEW pending \in Seq(Frame), NEW c
  PROVE  /\ Resume(pending, c) \in Seq(Frame)
         /\ Len(Resume(pending, c)) = Len(pending)
         /\ \A i \in 1 .. Len(pending) :
              /\ Resume(pending, c)[i].fn = pending[i].fn
              /\ Resume(pending, c)[i].vtable = pending[i].vtable
              /\ Resume(pending, c)[i].phase \in LookupPhase
                   <=> pending[i].phase \in LookupPhase
              /\ Resume(pending, c)[i].phase = "consulted"
                   => pending[i].phase = "consulted"
<1> DEFINE n == Len(pending)
           in(phase) == n > 0 /\ pending[n].phase = phase
           next(phase) == [pending EXCEPT ![n].phase = phase]
<1>1. ASSUME NEW phase \in Phase, n > 0
      PROVE  /\ next(phase) \in Seq(Frame)
             /\ Len(next(phase)) = n
             /\ \A i \in 1 .. n : /\ next(phase)[i].fn = pending[i].fn
                                 /\ next(phase)[i].vtable = pending[i].vtable
             /\ \A i \in 1 .. n : i # n => next(phase)[i] = pending[i]
             /\ next(phase)[n].phase = phase
  <2>1. n \in 1 .. n /\ pending[n] \in Frame
    BY <1>1
  <2>2. [pending[n] EXCEPT !.phase = phase] \in Frame
    BY <2>1, <1>1 DEF Frame
  <2>3. next(phase) = [pending EXCEPT ![n] = [pending[n] EXCEPT !.phase = phase]]
    OBVIOUS
  <2>4. /\ pending[n].fn = [pending[n] EXCEPT !.phase = phase].fn
        /\ pending[n].vtable = [pending[n] EXCEPT !.phase = phase].vtable
    BY <2>1 DEF Frame
  <2> QED BY <2>1, <2>2, <2>3, <2>4 DEF Frame
<1>2. CASE in("sending")
  <2>1. Resume(pending, c) = IF methods[c[1]][c[2]] = NativeLookup
                             THEN next("walking") ELSE next("override")
    BY <1>2 DEF Resume
  <2>2. "walking" \in Phase /\ "override" \in Phase
    BY DEF Phase, LookupPhase
  <2> QED BY <1>1, <1>2, <2>1, <2>2 DEF LookupPhase
<1>3. CASE in("refusing")
  <2>1. Resume(pending, c) = next("handling")
    BY <1>3 DEF Resume
  <2>2. "handling" \in Phase
    BY DEF Phase
  <2> QED BY <1>1, <1>3, <2>1, <2>2 DEF LookupPhase
<1>4. CASE ~in("sending") /\ ~in("refusing")
  BY <1>4 DEF Resume
<1> QED BY <1>2, <1>3, <1>4

LEMMA AnswerType ==
  ASSUME NEW v \in VTable, NEW s \in Selector, NEW c \in Closure,
         NEW by \in {"lookup", "handler"}, NEW pending \in Seq(Frame),
         Answer(v, s, c, by, pending)
  PROVE  answer' \in Answers /\ stack' \in Seq(Frame)
BY ResumeShape DEF Answer, Answers

LEMMA FillType ==
  ASSUME TypeOK, NEW v \in VTable, NEW s \in Selector, NEW c \in Closure, Fill(v, s, c)
  PROVE  mcache' \in [Probe -> Entry \cup {Nil, Zeroed}]
<1>1. [vtable |-> v, selector |-> s, closure |-> c] \in Entry
  BY DEF Entry
<1> QED BY <1>1 DEF Fill, TypeOK

LEMMA BelowType ==
  ASSUME TypeOK, stack # <<>>
  PROVE  Below \in Seq(Frame) /\ Top \in Frame /\ Len(stack) > 0
BY DEF TypeOK, Below, Top

LEMMA FlushedType ==
  ASSUME TypeOK, NEW selectors
  PROVE  Flushed(mcache, selectors) \in [Probe -> Entry \cup {Nil, Zeroed}]
BY DEF TypeOK, Flushed

LEMMA PendingType ==
  ASSUME NEW fn \in Binder, NEW v \in VTable, NEW s \in Selector, NEW phase \in Phase
  PROVE  /\ Pending(fn, v, s, phase) \in Frame
         /\ Pending(fn, v, s, phase).fn = fn
         /\ Pending(fn, v, s, phase).vtable = v
         /\ Pending(fn, v, s, phase).phase = phase
BY DEF Pending, Frame

LEMMA PhaseType ==
  /\ \A phase \in LookupPhase : phase \in Phase
  /\ "sending" \in LookupPhase /\ "consulted" \in LookupPhase
  /\ "refusing" \in Phase \ LookupPhase
BY DEF Phase, LookupPhase

\* The innermost pending bind, and what its lookup: answers.
LEMMA LookedType ==
  ASSUME TypeOK, LookupReturns
  PROVE  /\ stack # <<>> /\ Top \in Frame /\ Below \in Seq(Frame) /\ Len(stack) > 0
         /\ Top.fn \in Binder /\ Top.vtable \in VTable /\ Top.selector \in Selector
         /\ Top.phase \in LookupPhase
         /\ Looked \in Closure \cup {Nil}
<1>1. stack # <<>> /\ Top.phase \in LookupPhase
  BY DEF LookupReturns, AtTop, LookupPhase
<1>2. Top \in Frame /\ Below \in Seq(Frame) /\ Len(stack) > 0
  BY <1>1, BelowType
<1>3. /\ Top.fn \in Binder /\ Top.vtable \in VTable /\ Top.selector \in Selector
      /\ Top.found \in Closure \cup {Nil}
  BY <1>2 DEF Frame
<1> QED BY <1>1, <1>2, <1>3, FindType DEF Looked

LEMMA TypeStep ==
  ASSUME TypeOK, LookupsGuarded, [Next]_vars
  PROVE  TypeOK'
<1> USE DispatchAssumption
<1>1. ASSUME NEW v \in VTable, NEW n \in VTable, Delegated(v, n)
      PROVE  TypeOK'
  <2>1. <<n>> \o chain[v] \in Seq(VTable)
    BY DEF TypeOK
  <2> QED BY <1>1, <2>1 DEF Delegated, TypeOK
<1>2. ASSUME NEW v \in VTable, NEW n \in VTable, CopyEmpty(v, n)
      PROVE  TypeOK'
  <2>1. chain[v] # <<>> /\ chain[v] \in Seq(VTable)
    BY <1>2 DEF TypeOK, CopyEmpty, Live, Sends!Live
  <2>2. <<n>> \o Tail(chain[v]) \in Seq(VTable)
    BY <2>1
  <2>3. ASSUME NEW s \in Copied
        PROVE  methods[Find(v, s)[1]][s] \in Impl
    BY <1>2, FindType DEF CopyEmpty, Closure, TypeOK
  <2>4. [s \in Selector |-> IF s \in Copied THEN methods[Find(v, s)[1]][s]
                            ELSE methods[n][s]] \in [Selector -> Impl \cup {Nil}]
    BY <2>3 DEF TypeOK
  <2>5. methods' = [methods EXCEPT ![n] =
          [s \in Selector |-> IF s \in Copied THEN methods[Find(v, s)[1]][s]
                              ELSE methods[n][s]]]
    BY <1>2 DEF CopyEmpty
  <2>6. methods' \in [VTable -> [Selector -> Impl \cup {Nil}]]
    BY <2>4, <2>5 DEF TypeOK
  <2> QED BY <1>2, <2>2, <2>6, FlushedType DEF CopyEmpty, TypeOK
<1>3. ASSUME NEW d \in Program, MethodAtPutWith(d[1], d[2], d[3])
      PROVE  TypeOK'
  <2>1. d[1] \in VTable /\ d[2] \in Selector /\ d[3] \in Impl
    OBVIOUS
  <2> QED BY <1>3, <2>1, FlushedType DEF MethodAtPutWith, TypeOK
<1>4. CASE FlushAll
  BY <1>4 DEF FlushAll, TypeOK
<1>5. ASSUME NEW fn \in Binder, NEW v \in VTable, NEW s \in Selector, BindHit(fn, v, s)
      PROVE  TypeOK'
  <2>1. mcache[Hash[<<v, s>>]] \in Entry
    BY <1>5 DEF BindHit, Hit, TypeOK, Zeroed
  <2>2. mcache[Hash[<<v, s>>]].closure \in Closure
    BY <2>1 DEF Entry
  <2> QED BY <1>5, <2>2, AnswerType DEF BindHit, TypeOK
<1>6. ASSUME NEW fn \in Binder, NEW v \in VTable, NEW s \in Selector, BindGuarded(fn, v, s)
      PROVE  TypeOK'
  <2>1. Find(v, s) \in Closure
    BY <1>6, FindType DEF BindGuarded
  <2> QED BY <1>6, <2>1, AnswerType, FillType DEF BindGuarded, TypeOK
<1>7. ASSUME NEW fn \in Binder, NEW v \in VTable, NEW s \in Selector, BindGuardedRefused(fn, v, s)
      PROVE  TypeOK'
  <2>1. Pending(fn, v, s, "refusing") \in Frame
    BY PendingType, PhaseType
  <2>2. stack' \in Seq(Frame) /\ exited' \in BOOLEAN
    <3>1. CASE s = Dnu
      BY <1>7, <3>1 DEF BindGuardedRefused, TypeOK
    <3>2. CASE s # Dnu
      <4>1. stack' = Append(stack, Pending(fn, v, s, "refusing")) /\ exited' = exited
        BY <1>7, <3>2 DEF BindGuardedRefused
      <4> QED BY <2>1, <4>1 DEF TypeOK
    <3> QED BY <3>1, <3>2
  <2>3. /\ answer' = Nil /\ chain' = chain /\ methods' = methods
        /\ mcache' = mcache /\ guard' = guard
    BY <1>7 DEF BindGuardedRefused
  <2> QED BY <2>2, <2>3 DEF TypeOK
<1>8. ASSUME NEW fn \in Binder, NEW v \in VTable, NEW s \in Selector, BindMiss(fn, v, s)
      PROVE  TypeOK'
  <2>1. Pending(fn, v, s, "sending") \in Frame
    BY PendingType, PhaseType
  <2> QED BY <1>8, <2>1 DEF BindMiss, TypeOK
<1>9. ASSUME LookupReturns
      PROVE  [guard EXCEPT ![Top.fn] = @ - 1] \in [Binder -> Nat]
  <2>1. Len(stack) \in Lookups(Top.fn)
    BY <1>9, LookedType DEF Lookups, Top, TypeOK
  <2>2. guard[Top.fn] > 0 /\ guard \in [Binder -> Nat] /\ Top.fn \in Binder
    BY <1>9, <2>1, LookedType DEF LookupsGuarded, TypeOK
  <2> QED BY <2>2
<1>10. CASE LookupFinds
  <2>1. guard' \in [Binder -> Nat] /\ Looked \in Closure
    BY <1>9, <1>10, LookedType DEF LookupFinds
  <2>2. mcache' \in [Probe -> Entry \cup {Nil, Zeroed}]
    BY <1>10, <2>1, LookedType, FillType DEF LookupFinds
  <2>3. answer' \in Answers /\ stack' \in Seq(Frame)
    BY <1>10, <2>1, LookedType, AnswerType DEF LookupFinds
  <2> QED BY <1>10, <2>1, <2>2, <2>3 DEF LookupFinds, TypeOK
<1>11. CASE LookupFails
  <2>1. guard' \in [Binder -> Nat]
    BY <1>9, <1>11 DEF LookupFails
  <2>2. Below \in Seq(Frame) /\ Pending(Top.fn, Top.vtable, Top.selector, "refusing") \in Frame
    BY <1>11, LookedType, PendingType, PhaseType DEF LookupFails
  <2>3. stack' \in Seq(Frame) /\ exited' \in BOOLEAN
    <3>1. CASE Top.selector = Dnu
      BY <1>11, <2>2, <3>1 DEF LookupFails, TypeOK
    <3>2. CASE Top.selector # Dnu
      <4>1. /\ stack' = Append(Below, Pending(Top.fn, Top.vtable, Top.selector, "refusing"))
            /\ exited' = exited
        BY <1>11, <3>2 DEF LookupFails
      <4> QED BY <2>2, <4>1 DEF TypeOK
    <3> QED BY <3>1, <3>2
  <2> QED BY <1>11, <2>1, <2>3 DEF LookupFails, TypeOK
<1>16. CASE Consult
  <2>1. Below \in Seq(Frame) /\ Top \in Frame
    BY <1>16, BelowType DEF Consult, AtTop
  <2>2. Find(Top.vtable, Top.selector) \in Closure \cup {Nil}
    BY <2>1, FindType DEF Frame
  <2>3. [Top EXCEPT !.phase = "consulted", !.found = Find(Top.vtable, Top.selector)] \in Frame
    BY <2>1, <2>2, PhaseType DEF Frame
  <2>4. stack' \in Seq(Frame)
    BY <1>16, <2>1, <2>3 DEF Consult
  <2> QED BY <1>16, <2>4 DEF Consult, TypeOK
<1>12. CASE HandlerSubstitutes
  <2>1. Top \in Frame /\ Below \in Seq(Frame)
    BY <1>12, BelowType DEF HandlerSubstitutes, AtTop
  <2>2. PICK v \in Live, s \in Selector :
          Answer(Top.vtable, Top.selector, <<v, s>>, "handler", Below)
    BY <1>12 DEF HandlerSubstitutes
  <2>3. <<v, s>> \in Closure /\ Top.vtable \in VTable /\ Top.selector \in Selector
    BY <2>1 DEF Closure, Frame, Live, Sends!Live
  <2>4. answer' \in Answers /\ stack' \in Seq(Frame)
    BY <2>1, <2>2, <2>3, AnswerType
  <2> QED BY <1>12, <2>4 DEF HandlerSubstitutes, TypeOK
<1>13. CASE HandlerFails
  BY <1>13 DEF HandlerFails, TypeOK
<1>14. CASE Escape
  BY <1>14 DEF Escape, TypeOK
<1>15. CASE UNCHANGED vars
  BY <1>15 DEF vars, TypeOK
<1> QED BY <1>1, <1>2, <1>3, <1>4, <1>5, <1>6, <1>7, <1>8, <1>10, <1>11, <1>12,
           <1>13, <1>14, <1>15, <1>16 DEF Next, Define, Bind

-----------------------------------------------------------------------------
(* The recursion guards *)

LEMMA LookupsShrink ==
  ASSUME LookupsGuarded, guard' = guard,
         \A fn \in Binder : Lookups(fn)' \subseteq Lookups(fn)
  PROVE  LookupsGuarded'
BY DEF LookupsGuarded, NoReentrantLookup

\* The stack once the n binds at its bottom have been resumed.
LEMMA StackResumed ==
  ASSUME TypeOK, NEW n \in 0 .. Len(stack), NEW c,
         stack' = Resume(SubSeq(stack, 1, n), c)
  PROVE  /\ DOMAIN stack' = 1 .. n /\ n \in Nat /\ DOMAIN stack = 1 .. Len(stack)
         /\ \A i \in 1 .. n :
              /\ stack'[i].fn = stack[i].fn
              /\ stack'[i].vtable = stack[i].vtable
              /\ stack'[i].phase \in LookupPhase <=> stack[i].phase \in LookupPhase
              /\ stack'[i].phase = "consulted" => stack[i].phase = "consulted"
<1> DEFINE pending == SubSeq(stack, 1, n)
<1>1. stack \in Seq(Frame)
  BY DEF TypeOK
<1>2. pending \in Seq(Frame) /\ Len(pending) = n /\ \A i \in 1 .. n : pending[i] = stack[i]
  BY <1>1
<1>3. stack' = Resume(pending, c)
  OBVIOUS
<1> HIDE DEF pending
<1>4. stack' \in Seq(Frame) /\ Len(stack') = n
  BY <1>2, <1>3, ResumeShape
<1>5. \A i \in 1 .. n :
        /\ stack'[i].fn = pending[i].fn
        /\ stack'[i].vtable = pending[i].vtable
        /\ stack'[i].phase \in LookupPhase <=> pending[i].phase \in LookupPhase
        /\ stack'[i].phase = "consulted" => pending[i].phase = "consulted"
  BY <1>2, <1>3, ResumeShape
<1>6. DOMAIN stack' = 1 .. n /\ DOMAIN stack = 1 .. Len(stack)
  BY <1>1, <1>4
<1> QED BY <1>2, <1>5, <1>6

\* The stack once its top has been replaced.
LEMMA TopReplaced ==
  ASSUME TypeOK, stack # <<>>, NEW frame \in Frame, stack' = Append(Below, frame)
  PROVE  /\ Len(stack) \in Nat \ {0} /\ Len(stack') = Len(stack)
         /\ DOMAIN stack = 1 .. Len(stack) /\ DOMAIN stack' = 1 .. Len(stack)
         /\ \A i \in 1 .. Len(stack) :
              stack'[i] = IF i = Len(stack) THEN frame ELSE stack[i]
<1>1. stack \in Seq(Frame) /\ Len(stack) \in Nat \ {0} /\ DOMAIN stack = 1 .. Len(stack)
  BY DEF TypeOK
<1>2. /\ Below \in Seq(Frame) /\ Len(Below) = Len(stack) - 1
      /\ \A i \in 1 .. Len(stack) - 1 : Below[i] = stack[i]
  BY <1>1 DEF Below
<1> DEFINE below == Below
<1>3. below \in Seq(Frame) /\ stack' = Append(below, frame) /\ Len(below) = Len(stack) - 1
  BY <1>2
<1> HIDE DEF below
<1>4. /\ stack' \in Seq(Frame) /\ Len(stack') = Len(below) + 1
      /\ \A i \in 1 .. Len(below) : stack'[i] = below[i]
      /\ stack'[Len(below) + 1] = frame
  BY <1>3, AppendProperties
<1>5. Len(stack') = Len(stack) /\ stack'[Len(stack)] = frame
  BY <1>1, <1>3, <1>4
<1>6. \A i \in 1 .. Len(stack) - 1 : stack'[i] = stack[i]
  BY <1>2, <1>3, <1>4 DEF below
<1>7. DOMAIN stack' = 1 .. Len(stack)
  BY <1>4, <1>5
<1>8. \A i \in 1 .. Len(stack) : i = Len(stack) \/ i \in 1 .. Len(stack) - 1
  <2>1. Len(stack) \in Nat
    BY <1>1
  <2> QED BY <2>1
<1> QED BY <1>1, <1>5, <1>6, <1>7, <1>8

LEMMA LookupsResumed ==
  ASSUME TypeOK, NEW n \in 0 .. Len(stack), NEW c,
         stack' = Resume(SubSeq(stack, 1, n), c), NEW fn \in Binder
  PROVE  Lookups(fn)' = Lookups(fn) \cap (1 .. n)
BY StackResumed DEF Lookups

LEMMA GuardStep ==
  ASSUME TypeOK, LookupsGuarded, [Next]_vars
  PROVE  LookupsGuarded'
<1> USE DispatchAssumption
<1>0. stack \in Seq(Frame) /\ DOMAIN stack = 1 .. Len(stack) /\ Len(stack) \in Nat
  BY DEF TypeOK
<1>1. ASSUME UNCHANGED <<guard, stack>>
      PROVE  LookupsGuarded'
  BY <1>1 DEF LookupsGuarded, NoReentrantLookup, Lookups
<1>2. ASSUME NEW c, stack' = Resume(stack, c), guard' = guard
      PROVE  LookupsGuarded'
  <2>1. stack = SubSeq(stack, 1, Len(stack))
    BY <1>0, SubSeqFull, Zenon
  <2>2. stack' = Resume(SubSeq(stack, 1, Len(stack)), c)
    BY <1>2, <2>1
  <2>3. Len(stack) \in 0 .. Len(stack)
    BY <1>0
  <2>4. \A fn \in Binder : Lookups(fn)' = Lookups(fn) \cap (1 .. Len(stack))
    BY <2>2, <2>3, LookupsResumed
  <2> QED BY <1>2, <2>4, LookupsShrink
<1>3. ASSUME NEW fn \in Binder, NEW v \in VTable, NEW s \in Selector, Bind(fn, v, s)
      PROVE  LookupsGuarded'
  <2>1. CASE BindHit(fn, v, s)
    BY <1>2, <2>1 DEF BindHit, Answer
  <2>2. CASE BindGuarded(fn, v, s)
    BY <1>2, <2>2 DEF BindGuarded, Answer
  <2>3. CASE BindGuardedRefused(fn, v, s)
    <3>1. CASE s = Dnu
      BY <1>1, <2>3, <3>1 DEF BindGuardedRefused
    <3>2. CASE s # Dnu
      <4>1. stack' = Append(stack, Pending(fn, v, s, "refusing")) /\ guard' = guard
        BY <2>3, <3>2 DEF BindGuardedRefused
      <4>2. \A g \in Binder : Lookups(g)' \subseteq Lookups(g)
        BY <1>0, <4>1, PendingType, PhaseType DEF Lookups
      <4> QED BY <4>1, <4>2, LookupsShrink
    <3> QED BY <3>1, <3>2
  <2>4. CASE BindMiss(fn, v, s)
    <3>1. /\ stack' = Append(stack, Pending(fn, v, s, "sending"))
          /\ guard' = [guard EXCEPT ![fn] = @ + 1]
          /\ guard[fn] = 0
      BY <2>4 DEF BindMiss
    <3>2. Pending(fn, v, s, "sending") \in Frame /\ Pending(fn, v, s, "sending").fn = fn
      BY PendingType, PhaseType
    <3>3. Lookups(fn) = {}
      BY <3>1 DEF LookupsGuarded
    <3>4. \A g \in Binder : Lookups(g)' \subseteq Lookups(g) \cup {Len(stack) + 1}
      BY <1>0, <3>1, <3>2 DEF Lookups
    <3>5. \A g \in Binder : g # fn => Lookups(g)' \subseteq Lookups(g)
      BY <1>0, <3>1, <3>2 DEF Lookups
    <3>6. guard'[fn] = 1 /\ \A g \in Binder : g # fn => guard'[g] = guard[g]
      BY <3>1 DEF TypeOK
    <3> QED BY <3>3, <3>4, <3>5, <3>6 DEF LookupsGuarded, NoReentrantLookup
  <2> QED BY <1>3, <2>1, <2>2, <2>3, <2>4 DEF Bind
\* A lookup that ends was the only one of its bind function.
<1>4. ASSUME LookupReturns, guard' = [guard EXCEPT ![Top.fn] = @ - 1],
             \A fn \in Binder : Lookups(fn)' \subseteq Lookups(fn) \ {Len(stack)}
      PROVE  LookupsGuarded'
  <2>3. Len(stack) \in Lookups(Top.fn) /\ Top.fn \in Binder
    BY <1>0, <1>4, LookedType DEF Lookups, Top
  <2>4. PICK top \in Binder : top = Top.fn
    BY <2>3
  <2>5. Lookups(top)' = {}
    BY <1>4, <2>3, <2>4 DEF LookupsGuarded, NoReentrantLookup
  <2>6. \A fn \in Binder : fn # top => guard'[fn] = guard[fn]
    BY <1>4, <2>4 DEF TypeOK
  <2> QED BY <1>4, <2>5, <2>6 DEF LookupsGuarded, NoReentrantLookup
<1>5. ASSUME NEW c, stack # <<>>, stack' = Resume(Below, c)
      PROVE  \A fn \in Binder : Lookups(fn)' \subseteq Lookups(fn) \ {Len(stack)}
  <2>1. Len(stack) - 1 \in 0 .. Len(stack)
    BY <1>0, <1>5
  <2>2. \A fn \in Binder : Lookups(fn)' = Lookups(fn) \cap (1 .. Len(stack) - 1)
    BY <1>5, <2>1, LookupsResumed DEF Below
  <2> QED BY <1>0, <2>2
<1>6. CASE LookupFinds
  <2>1. LookupReturns /\ stack # <<>> /\ guard' = [guard EXCEPT ![Top.fn] = @ - 1]
    BY <1>6, LookedType DEF LookupFinds
  <2>2. stack' = Resume(Below, Looked)
    BY <1>6 DEF LookupFinds, Answer
  <2> QED BY <1>4, <1>5, <2>1, <2>2
<1>7. CASE LookupFails
  <2>1. /\ LookupReturns /\ stack # <<>> /\ guard' = [guard EXCEPT ![Top.fn] = @ - 1]
        /\ Len(stack) > 0
    BY <1>7, LookedType DEF LookupFails
  <2>2. CASE Top.selector = Dnu
    <3>1. stack' = SubSeq(stack, 1, Len(stack) - 1)
      BY <1>7, <2>2 DEF LookupFails, Below
    <3>2. \A fn \in Binder : Lookups(fn)' \subseteq Lookups(fn) \ {Len(stack)}
      BY <1>0, <2>1, <3>1 DEF Lookups
    <3> QED BY <1>4, <2>1, <3>2
  <2>3. CASE Top.selector # Dnu
    <3> DEFINE frame == Pending(Top.fn, Top.vtable, Top.selector, "refusing")
    <3>1. stack' = Append(Below, frame)
      BY <1>7, <2>3 DEF LookupFails
    <3>2. frame \in Frame /\ frame.phase \notin LookupPhase
      BY <2>1, LookedType, PendingType, PhaseType
    <3> HIDE DEF frame
    <3>3. \A fn \in Binder : Lookups(fn)' \subseteq Lookups(fn) \ {Len(stack)}
      BY <2>1, <3>1, <3>2, TopReplaced DEF Lookups
    <3> QED BY <1>4, <2>1, <3>3
  <2> QED BY <2>2, <2>3
<1>8. CASE HandlerSubstitutes
  <2>1. guard' = guard /\ stack # <<>> /\ \E c : stack' = Resume(Below, c)
    BY <1>8 DEF HandlerSubstitutes, AtTop, Answer
  <2>2. \A fn \in Binder : Lookups(fn)' \subseteq Lookups(fn)
    BY <1>5, <2>1
  <2> QED BY <2>1, <2>2, LookupsShrink
<1>9. CASE Escape
  <2>1. PICK n \in 0 .. Len(stack) - 1 : stack' = SubSeq(stack, 1, n)
    BY <1>9 DEF Escape
  <2>2. \A fn \in Binder : Lookups(fn)' \subseteq Lookups(fn)
    BY <1>0, <2>1 DEF Lookups
  <2> QED BY <1>9, <2>2, LookupsShrink DEF Escape
<1>10. CASE Define
  <2>1. UNCHANGED <<guard, stack>>
    BY <1>10 DEF Define, Delegated, CopyEmpty, MethodAtPutWith, FlushAll
  <2> QED BY <1>1, <2>1
<1>11. CASE HandlerFails
  BY <1>1, <1>11 DEF HandlerFails
<1>12. CASE UNCHANGED vars
  BY <1>1, <1>12 DEF vars
<1>13. CASE Consult
  <2> DEFINE frame == [Top EXCEPT !.phase = "consulted", !.found = Find(Top.vtable, Top.selector)]
  <2>1. stack # <<>> /\ Top \in Frame /\ Top.phase \in LookupPhase /\ guard' = guard
    BY <1>13, BelowType DEF Consult, AtTop, LookupPhase
  <2>2. Find(Top.vtable, Top.selector) \in Closure \cup {Nil}
    BY <2>1, FindType DEF Frame
  <2>3. frame \in Frame /\ frame.fn = Top.fn
    BY <2>1, <2>2, PhaseType DEF Frame
  <2>4. stack' = Append(Below, frame)
    BY <1>13 DEF Consult
  <2> HIDE DEF frame
  <2>5. \A fn \in Binder : Lookups(fn)' \subseteq Lookups(fn)
    BY <2>1, <2>3, <2>4, TopReplaced DEF Lookups, Top
  <2> QED BY <2>1, <2>5, LookupsShrink
<1> QED BY <1>3, <1>6, <1>7, <1>8, <1>9, <1>10, <1>11, <1>12, <1>13 DEF Next

-----------------------------------------------------------------------------
LEMMA InitialState ==
  ASSUME Init PROVE TypeOK /\ LookupsGuarded
<1> USE DispatchAssumption
<1>1. chain \in [VTable -> Seq(VTable)]
  BY DEF Init, Sends!Init
<1>2. methods \in [VTable -> [Selector -> Impl \cup {Nil}]]
  BY DEF Init, Sends!Init
<1>3. mcache \in [Probe -> Entry \cup {Nil, Zeroed}]
  <2>1. [vtable |-> Meta, selector |-> Lookup, closure |-> <<Meta, Lookup>>] \in Entry
    BY DEF Entry, Closure
  <2> QED BY <2>1 DEF Init
<1>4. answer = Nil /\ guard = [fn \in Binder |-> 0] /\ stack = <<>> /\ exited = FALSE
  BY DEF Init, Sends!Init
<1>5. \A fn : Lookups(fn) = {}
  BY DEF Init, Lookups
<1>6. guard \in [Binder -> Nat] /\ stack \in Seq(Frame) /\ exited \in BOOLEAN
  <2>1. <<>> \in Seq(Frame)
    OBVIOUS
  <2>2. guard \in [Binder -> Nat]
    BY <1>4
  <2> QED BY <1>4, <2>1, <2>2
<1>7. TypeOK
  BY <1>1, <1>2, <1>3, <1>4, <1>6 DEF TypeOK
<1> QED BY <1>5, <1>7 DEF LookupsGuarded, NoReentrantLookup

\* Every reachable state is well typed, and a bind function inside a lookup has
\* its recursion guard set: neither is inductive without the other, because
\* the guard must not be counted below zero (libid.c: --recursionGuard).
THEOREM Typing == Spec => [](TypeOK /\ LookupsGuarded)
<1>1. Init => TypeOK /\ LookupsGuarded
  BY InitialState
<1>2. TypeOK /\ LookupsGuarded /\ [Next]_vars => TypeOK' /\ LookupsGuarded'
  BY TypeStep, GuardStep
<1> QED BY <1>1, <1>2, PTL DEF Spec

\* User-level lookup: code is never re-entered by the bind function that waits
\* for it, whatever the code does and however it is left.
THEOREM NoReentrance == Spec => []NoReentrantLookup
BY Typing, PTL DEF LookupsGuarded

\* A bind function inside its lookup has its recursion guard set.
THEOREM GuardsHold == Spec => []GuardCoversLookups
<1>1. TypeOK /\ LookupsGuarded => GuardCoversLookups
  <2> SUFFICES ASSUME TypeOK, LookupsGuarded, NEW fn \in Binder
               PROVE  Cardinality(Lookups(fn)) <= guard[fn]
    BY DEF GuardCoversLookups
  <2>1. guard[fn] \in Nat
    BY DEF TypeOK
  <2>2. CASE Lookups(fn) = {}
    BY <2>1, <2>2, FS_EmptySet
  <2>3. CASE Lookups(fn) # {}
    <3>1. PICK i : Lookups(fn) = {i}
      BY <2>3 DEF LookupsGuarded, NoReentrantLookup
    <3>2. Cardinality(Lookups(fn)) = 1
      BY <3>1, FS_Singleton
    <3> QED BY <2>1, <2>3, <3>2 DEF LookupsGuarded
  <2> QED BY <2>2, <2>3
<1> QED BY <1>1, Typing, PTL

-----------------------------------------------------------------------------
(* Coherence of the method cache *)

\* A family finds something only if it exists.
LEMMA FinderLive ==
  ASSUME NEW v \in VTable, NEW s \in Selector, Find(v, s) # Nil
  PROVE  v \in Live
BY DEF Find, Sends!Find, Sends!Definers, Live, Sends!Live

\* What v finds for s depends on v's chain and on the bindings of s only.
LEMMA FindStable ==
  ASSUME NEW v \in VTable, NEW s \in Selector, chain'[v] = chain[v], TypeOK,
         \A w \in VTable : w \in Live => methods'[w][s] = methods[w][s],
         \A i \in DOMAIN chain[v] : chain[v][i] \in Live
  PROVE  Find(v, s)' = Find(v, s)
<1>1. \A i \in DOMAIN chain[v] : methods'[chain[v][i]][s] = methods[chain[v][i]][s]
  BY DEF Live, Sends!Live
<1>2. Sends!Definers(v, s)' = Sends!Definers(v, s)
  BY <1>1 DEF Sends!Definers
<1>3. Sends!Nearest(v, s)' = Sends!Nearest(v, s)
  BY <1>2 DEF Sends!Nearest
<1> QED BY <1>2, <1>3 DEF Find, Sends!Find

LEMMA RefersInitially ==
  ASSUME Init PROVE RefersToLive
<1> USE DispatchAssumption
<1>1. \A v \in VTable : \A i \in DOMAIN chain[v] : chain[v][i] \in Live
  BY DEF Init, Sends!Init, Live, Sends!Live
<1>2. stack = <<>>
  BY DEF Init
<1> QED BY <1>1, <1>2 DEF RefersToLive

\* No family ever disappears.
LEMMA LiveGrows ==
  ASSUME TypeOK, [Next]_vars PROVE Live \subseteq Live'
<1>1. ASSUME NEW v \in VTable, NEW n \in VTable, Delegated(v, n)
      PROVE  Live \subseteq Live'
  BY <1>1 DEF Delegated, Live, Sends!Live, TypeOK
<1>2. ASSUME NEW v \in VTable, NEW n \in VTable, CopyEmpty(v, n)
      PROVE  Live \subseteq Live'
  BY <1>2 DEF CopyEmpty, Live, Sends!Live, TypeOK
<1>3. ASSUME chain' = chain PROVE Live \subseteq Live'
  BY <1>3 DEF Live, Sends!Live
<1>4. CASE Define
  BY <1>1, <1>2, <1>3, <1>4 DEF Define, MethodAtPutWith, FlushAll
<1>5. ASSUME NEW fn \in Binder, NEW v \in VTable, NEW s \in Selector, Bind(fn, v, s)
      PROVE  Live \subseteq Live'
  BY <1>3, <1>5 DEF Bind, BindHit, BindGuarded, BindGuardedRefused, BindMiss
<1>6. CASE Consult \/ LookupFinds \/ LookupFails \/ HandlerSubstitutes \/ HandlerFails \/ Escape
  BY <1>3, <1>6 DEF Consult, LookupFinds, LookupFails, HandlerSubstitutes, HandlerFails, Escape
<1>7. CASE UNCHANGED vars
  BY <1>3, <1>7 DEF vars
<1> QED BY <1>4, <1>5, <1>6, <1>7 DEF Next

\* A new family n that starts with its own vtable and delegates to what an
\* existing family v, or the one v delegates to, delegates to.
LEMMA ChainsExtended ==
  ASSUME TypeOK, RefersToLive, NEW v \in Live, NEW n \in VTable,
         NEW rest \in Seq(VTable), Live \subseteq Live',
         \A i \in DOMAIN rest : rest[i] \in Live,
         chain' = [chain EXCEPT ![n] = <<n>> \o rest]
  PROVE  \A w \in VTable : \A i \in DOMAIN chain'[w] : chain'[w][i] \in Live'
<1>1. n \in Live'
  BY DEF Live, Sends!Live, TypeOK
<1>2. \A i \in DOMAIN (<<n>> \o rest) : (<<n>> \o rest)[i] \in Live \cup {n}
  OBVIOUS
<1>3. \A w \in VTable : chain'[w] = IF w = n THEN <<n>> \o rest ELSE chain[w]
  BY DEF TypeOK
<1> QED BY <1>1, <1>2, <1>3 DEF RefersToLive

LEMMA RefersStep ==
  ASSUME TypeOK, RefersToLive, [Next]_vars PROVE RefersToLive'
<1>0. stack \in Seq(Frame) /\ DOMAIN stack = 1 .. Len(stack) /\ Len(stack) \in Nat
  BY DEF TypeOK
<1>1. Live \subseteq Live'
  BY LiveGrows
<1>2. ASSUME \A w \in VTable : \A i \in DOMAIN chain'[w] : chain'[w][i] \in Live',
             UNCHANGED stack
      PROVE  RefersToLive'
  BY <1>1, <1>2 DEF RefersToLive
<1>3. ASSUME UNCHANGED <<chain, stack>> PROVE RefersToLive'
  BY <1>3 DEF RefersToLive, Live, Sends!Live
<1>4. ASSUME NEW n \in 0 .. Len(stack), NEW c,
             stack' = Resume(SubSeq(stack, 1, n), c), chain' = chain
      PROVE  RefersToLive'
  <2>1. /\ DOMAIN stack' = 1 .. n /\ n \in Nat
        /\ \A i \in 1 .. n : i \in DOMAIN stack /\ stack'[i].vtable = stack[i].vtable
    BY <1>0, <1>4, StackResumed
  <2> QED BY <1>4, <2>1 DEF RefersToLive, Live, Sends!Live
<1>5. ASSUME NEW v \in VTable, NEW n \in VTable, Delegated(v, n) PROVE RefersToLive'
  <2>1. /\ chain[v] \in Seq(VTable) /\ v \in Live
        /\ \A i \in DOMAIN chain[v] : chain[v][i] \in Live
    BY <1>5 DEF Delegated, TypeOK, RefersToLive
  <2>2. chain' = [chain EXCEPT ![n] = <<n>> \o chain[v]] /\ UNCHANGED stack
    BY <1>5 DEF Delegated
  <2> QED BY <1>1, <1>2, <2>1, <2>2, ChainsExtended
<1>6. ASSUME NEW v \in VTable, NEW n \in VTable, CopyEmpty(v, n) PROVE RefersToLive'
  <2>1. /\ chain[v] \in Seq(VTable) /\ v \in Live /\ chain[v] # <<>>
        /\ \A i \in DOMAIN chain[v] : chain[v][i] \in Live
    BY <1>6 DEF CopyEmpty, TypeOK, RefersToLive, Live, Sends!Live
  <2>2. /\ Tail(chain[v]) \in Seq(VTable)
        /\ \A i \in DOMAIN Tail(chain[v]) : Tail(chain[v])[i] \in Live
    BY <2>1
  <2>3. chain' = [chain EXCEPT ![n] = <<n>> \o Tail(chain[v])] /\ UNCHANGED stack
    BY <1>6 DEF CopyEmpty
  <2> QED BY <1>1, <1>2, <2>1, <2>2, <2>3, ChainsExtended
<1>7. ASSUME NEW fn \in Binder, NEW v \in VTable, NEW s \in Selector, Bind(fn, v, s)
      PROVE  RefersToLive'
  <2>1. ASSUME NEW phase \in Phase, chain' = chain, v \in Live,
               stack' = Append(stack, Pending(fn, v, s, phase))
        PROVE  RefersToLive'
    <3> DEFINE frame == Pending(fn, v, s, phase)
    <3>1. frame \in Frame /\ frame.vtable \in Live /\ stack' = Append(stack, frame)
      BY <2>1, PendingType
    <3> HIDE DEF frame
    <3>2. \A i \in DOMAIN stack' : (i \in DOMAIN stack /\ stack'[i] = stack[i])
                                   \/ stack'[i] = frame
      BY <1>0, <3>1
    <3> QED BY <2>1, <3>1, <3>2 DEF RefersToLive, Live, Sends!Live
  <2>2. ASSUME NEW c, stack' = Resume(stack, c), chain' = chain PROVE RefersToLive'
    <3>1. stack' = Resume(SubSeq(stack, 1, Len(stack)), c)
      <4>1. stack = SubSeq(stack, 1, Len(stack))
        BY <1>0, SubSeqFull, Zenon
      <4> QED BY <2>2, <4>1
    <3>2. Len(stack) \in 0 .. Len(stack)
      BY <1>0
    <3> QED BY <1>4, <2>2, <3>1, <3>2
  <2>3. CASE BindHit(fn, v, s)
    BY <2>2, <2>3 DEF BindHit, Answer
  <2>4. CASE BindGuarded(fn, v, s)
    BY <2>2, <2>4 DEF BindGuarded, Answer
  <2>5. CASE BindGuardedRefused(fn, v, s)
    <3>1. "refusing" \in Phase
      BY PhaseType
    <3>2. v \in Live /\ chain' = chain
      BY <2>5 DEF BindGuardedRefused, Calls
    <3>3. CASE s = Dnu
      BY <1>3, <2>5, <3>2, <3>3 DEF BindGuardedRefused
    <3>4. CASE s # Dnu
      BY <2>1, <2>5, <3>1, <3>2, <3>4 DEF BindGuardedRefused
    <3> QED BY <3>3, <3>4
  <2>6. CASE BindMiss(fn, v, s)
    <3>1. "sending" \in Phase
      BY PhaseType
    <3> QED BY <2>1, <2>6, <3>1 DEF BindMiss, Calls
  <2> QED BY <1>7, <2>3, <2>4, <2>5, <2>6 DEF Bind
<1>8. ASSUME NEW c, stack # <<>>, stack' = Resume(Below, c), chain' = chain
      PROVE  RefersToLive'
  <2>1. Len(stack) - 1 \in 0 .. Len(stack)
    BY <1>0, <1>8
  <2> QED BY <1>4, <1>8, <2>1 DEF Below
<1>9. CASE LookupFinds
  <2>1. stack # <<>> /\ chain' = chain
    BY <1>9, LookedType DEF LookupFinds
  <2> QED BY <1>8, <1>9, <2>1 DEF LookupFinds, Answer
\* The bind at the top changes, its receiver does not.
<1>15. ASSUME NEW frame \in Frame, stack # <<>>, frame.vtable = Top.vtable,
              stack' = Append(Below, frame), chain' = chain
       PROVE  RefersToLive'
  <2>1. \A i \in DOMAIN stack' : i \in DOMAIN stack /\ stack'[i].vtable = stack[i].vtable
    BY <1>15, TopReplaced DEF Top
  <2> QED BY <1>15, <2>1 DEF RefersToLive, Live, Sends!Live
<1>10. CASE LookupFails
  <2>1. stack # <<>> /\ chain' = chain /\ Len(stack) > 0
    BY <1>10, LookedType DEF LookupFails
  <2>2. CASE Top.selector = Dnu
    <3>1. stack' = SubSeq(stack, 1, Len(stack) - 1)
      BY <1>10, <2>2 DEF LookupFails, Below
    <3>2. \A i \in DOMAIN stack' : i \in DOMAIN stack /\ stack'[i] = stack[i]
      BY <1>0, <2>1, <3>1
    <3> QED BY <2>1, <3>2 DEF RefersToLive, Live, Sends!Live
  <2>3. CASE Top.selector # Dnu
    <3>1. stack' = Append(Below, Pending(Top.fn, Top.vtable, Top.selector, "refusing"))
      BY <1>10, <2>3 DEF LookupFails
    <3> QED BY <1>10, <1>15, <2>1, <3>1, LookedType, PendingType, PhaseType DEF LookupFails
  <2> QED BY <2>2, <2>3
<1>16. CASE Consult
  <2>1. stack # <<>> /\ Top \in Frame /\ chain' = chain
    BY <1>16, BelowType DEF Consult, AtTop
  <2>2. Find(Top.vtable, Top.selector) \in Closure \cup {Nil}
    BY <2>1, FindType DEF Frame
  <2> DEFINE frame == [Top EXCEPT !.phase = "consulted", !.found = Find(Top.vtable, Top.selector)]
  <2>3. frame \in Frame /\ frame.vtable = Top.vtable
    BY <2>1, <2>2, PhaseType DEF Frame
  <2> HIDE DEF frame
  <2> QED BY <1>15, <1>16, <2>1, <2>3 DEF Consult, frame
<1>11. CASE HandlerSubstitutes
  <2>1. stack # <<>> /\ chain' = chain /\ \E c : stack' = Resume(Below, c)
    BY <1>11 DEF HandlerSubstitutes, AtTop, Answer
  <2> QED BY <1>8, <2>1
<1>12. CASE Escape
  <2>1. PICK n \in 0 .. Len(stack) - 1 : stack' = SubSeq(stack, 1, n)
    BY <1>12 DEF Escape
  <2>2. \A i \in DOMAIN stack' : i \in DOMAIN stack /\ stack'[i] = stack[i]
    BY <1>0, <2>1
  <2> QED BY <1>12, <2>2 DEF RefersToLive, Live, Sends!Live, Escape
<1>13. CASE Define
  <2>1. ASSUME NEW d \in Program, MethodAtPutWith(d[1], d[2], d[3]) PROVE RefersToLive'
    BY <1>3, <2>1 DEF MethodAtPutWith
  <2>2. CASE FlushAll
    BY <1>3, <2>2 DEF FlushAll
  <2> QED BY <1>5, <1>6, <1>13, <2>1, <2>2 DEF Define
<1>14. CASE HandlerFails \/ UNCHANGED vars
  BY <1>3, <1>14 DEF HandlerFails, vars
<1> QED BY <1>7, <1>9, <1>10, <1>11, <1>12, <1>13, <1>14, <1>16 DEF Next

\* The cached families exist, so what they find is stable while their chains
\* and the bindings of the selector are.
LEMMA CachedLive ==
  ASSUME TypeOK, CacheCoherent, NEW p \in Probe, mcache[p] \in Entry
  PROVE  /\ mcache[p].vtable \in Live
         /\ mcache[p].selector \in Selector
         /\ mcache[p].closure = Find(mcache[p].vtable, mcache[p].selector)
         /\ Hash[<<mcache[p].vtable, mcache[p].selector>>] = p
<1>1. mcache[p].vtable \in VTable /\ mcache[p].selector \in Selector
      /\ mcache[p].closure \in Closure
  BY DEF Entry
<1>2. mcache[p].closure = Find(mcache[p].vtable, mcache[p].selector)
  BY DEF CacheCoherent
<1>3. Nil \notin Closure
  BY DispatchAssumption
<1> QED BY <1>1, <1>2, <1>3, FinderLive DEF CacheCoherent

\* A step that only drops entries, and changes nothing the others find.
LEMMA CoherentKept ==
  ASSUME TypeOK, CacheCoherent, NEW dropped,
         \A p \in Probe : mcache'[p] \in Entry =>
           mcache'[p] = mcache[p] /\ mcache[p].selector \notin dropped,
         \A v \in Live, s \in Selector : s \notin dropped => Find(v, s)' = Find(v, s)
  PROVE  CacheCoherent'
<1> SUFFICES ASSUME NEW p \in Probe, mcache'[p] \in Entry
             PROVE  /\ Hash[<<mcache'[p].vtable, mcache'[p].selector>>] = p
                    /\ mcache'[p].closure = Find(mcache[p].vtable, mcache[p].selector)'
  BY DEF CacheCoherent
<1>1. mcache'[p] = mcache[p] /\ mcache[p] \in Entry /\ mcache[p].selector \notin dropped
  OBVIOUS
<1>2. PICK v \in Live, s \in Selector : v = mcache[p].vtable /\ s = mcache[p].selector
  BY <1>1, CachedLive
<1>3. /\ mcache[p].closure = Find(v, s)
      /\ Hash[<<v, s>>] = p
  BY <1>1, <1>2, CachedLive
<1>4. Find(v, s)' = Find(v, s)
  BY <1>1, <1>2
<1>5. Find(mcache[p].vtable, mcache[p].selector)' = Find(v, s)'
  BY <1>1, <1>2
<1> QED BY <1>1, <1>2, <1>3, <1>4, <1>5

LEMMA FlushedDrops ==
  ASSUME TypeOK, NEW selectors, mcache' = Flushed(mcache, selectors)
  PROVE  \A p \in Probe : mcache'[p] \in Entry =>
           mcache'[p] = mcache[p] /\ mcache[p].selector \notin selectors
<1> USE DispatchAssumption
<1>1. Nil \notin Entry /\ Zeroed \notin Entry
  BY DEF Entry, Zeroed
<1>2. \A p \in Probe : mcache'[p] = IF mcache[p] # Nil /\ mcache[p].selector \in selectors
                                    THEN Zeroed ELSE mcache[p]
  BY DEF Flushed
<1> QED BY <1>1, <1>2

LEMMA CoherentFilled ==
  ASSUME TypeOK, CacheCoherent, NEW v \in VTable, NEW s \in Selector,
         Fill(v, s, Find(v, s)), UNCHANGED <<chain, methods>>
  PROVE  CacheCoherent'
<1>1. \A w, x : Find(w, x)' = Find(w, x)
  BY DEF Find, Sends!Find, Sends!Nearest, Sends!Definers
<1>2. Hash[<<v, s>>] \in Probe
  BY DispatchAssumption
<1> DEFINE entry == [vtable |-> v, selector |-> s, closure |-> Find(v, s)]
<1>3. \A p \in Probe : mcache'[p] = IF p = Hash[<<v, s>>] THEN entry ELSE mcache[p]
  BY <1>2 DEF Fill, TypeOK
<1>4. /\ Hash[<<entry.vtable, entry.selector>>] = Hash[<<v, s>>]
      /\ entry.closure = Find(entry.vtable, entry.selector)
  OBVIOUS
<1> HIDE DEF entry
<1> QED BY <1>1, <1>3, <1>4 DEF CacheCoherent

LEMMA CoherentInitially ==
  ASSUME Init PROVE CacheCoherent
<1> USE DispatchAssumption
<1>1. TypeOK
  BY InitialState
<1>2. Find(Meta, Lookup) = <<Meta, Lookup>>
  <2>1. chain[Meta] = <<Meta, Object>> /\ methods[Meta][Lookup] = NativeLookup
        /\ methods[Object][Lookup] = Nil
    BY DEF Init, Sends!Init
  <2>2. Sends!Definers(Meta, Lookup) = {1}
    BY <2>1 DEF Sends!Definers
  <2>3. Sends!Nearest(Meta, Lookup) = 1
    BY <2>2 DEF Sends!Nearest
  <2> QED BY <2>1, <2>2, <2>3 DEF Find, Sends!Find
<1>3. ASSUME NEW p \in Probe, mcache[p] \in Entry
      PROVE  /\ p = Hash[<<Meta, Lookup>>]
             /\ mcache[p] = [vtable |-> Meta, selector |-> Lookup, closure |-> <<Meta, Lookup>>]
  BY <1>3 DEF Init
<1> QED BY <1>2, <1>3 DEF CacheCoherent

\* What a lookup: answers is what the native lookup would find now.
LEMMA LookedCurrent ==
  ASSUME TypeOK, ConsultedCurrent, LookupReturns
  PROVE  Looked = Find(Top.vtable, Top.selector)
<1>1. Len(stack) \in DOMAIN stack
  BY LookedType DEF TypeOK
<1> QED BY <1>1 DEF Looked, LookupReturns, AtTop, ConsultedCurrent, Top

\* Between 'super lookup:' and the end of a user-level lookup: nothing runs.
LEMMA CurrentStep ==
  ASSUME ~Deferred, TypeOK, ConsultedCurrent, [Next]_vars PROVE ConsultedCurrent'
<1>0. stack \in Seq(Frame) /\ DOMAIN stack = 1 .. Len(stack) /\ Len(stack) \in Nat
  BY DEF TypeOK
<1> DEFINE Quiet(st) == \A i \in DOMAIN st : st[i].phase # "consulted"
<1>1. ASSUME Quiet(stack') PROVE ConsultedCurrent'
  BY <1>1 DEF ConsultedCurrent
<1>2. ASSUME UNCHANGED <<chain, methods, stack>> PROVE ConsultedCurrent'
  <2>1. \A w, x : Find(w, x)' = Find(w, x)
    BY <1>2 DEF Find, Sends!Find, Sends!Nearest, Sends!Definers
  <2> QED BY <1>2, <2>1 DEF ConsultedCurrent
<1>3. Running => Quiet(stack)
  BY <1>0 DEF Running, RunningPhase, Top, ConsultedCurrent
<1>4. \A fn, v, s : Calls(fn, v, s) => Quiet(stack)
  BY <1>0, <1>3 DEF Calls, AtTop, Top, ConsultedCurrent
<1> HIDE DEF Quiet
<1>5. ASSUME NEW n \in 0 .. Len(stack), NEW c,
             stack' = Resume(SubSeq(stack, 1, n), c),
             n = Len(stack) => Quiet(stack)
      PROVE  ConsultedCurrent'
  <2>1. /\ DOMAIN stack' = 1 .. n
        /\ \A i \in 1 .. n : /\ i \in DOMAIN stack
                            /\ stack'[i].phase = "consulted" => stack[i].phase = "consulted"
    BY <1>5, StackResumed
  <2>2. Quiet(stack')
    <3>1. CASE n = Len(stack)
      BY <1>5, <2>1, <3>1 DEF Quiet
    <3>2. CASE n # Len(stack)
      <4>1. n \in Nat /\ Len(stack) \in Nat /\ n < Len(stack)
        <5>1. Len(stack) \in Nat
          BY <1>0
        <5> QED BY <3>2, <5>1
      <4>2. \A i \in 1 .. n : i # Len(stack)
        BY <4>1
      <4> QED BY <2>1, <4>2 DEF ConsultedCurrent, Quiet
    <3> QED BY <3>1, <3>2
  <2> QED BY <1>1, <2>2
<1>6. ASSUME NEW c, stack' = Resume(stack, c), Quiet(stack) PROVE ConsultedCurrent'
  <2>1. stack = SubSeq(stack, 1, Len(stack))
    BY <1>0, SubSeqFull, Zenon
  <2>2. stack' = Resume(SubSeq(stack, 1, Len(stack)), c)
    BY <1>6, <2>1
  <2>3. Len(stack) \in 0 .. Len(stack)
    BY <1>0
  <2> QED BY <1>5, <1>6, <2>2, <2>3
<1>7. ASSUME NEW c, stack # <<>>, stack' = Resume(Below, c) PROVE ConsultedCurrent'
  <2>1. Len(stack) \in Nat /\ Len(stack) # 0
    BY <1>0, <1>7
  <2>2. Len(stack) - 1 \in 0 .. Len(stack) /\ Len(stack) - 1 # Len(stack)
    BY <2>1
  <2> QED BY <1>5, <1>7, <2>2 DEF Below
<1>8. ASSUME NEW fn \in Binder, NEW v \in VTable, NEW s \in Selector, Bind(fn, v, s)
      PROVE  ConsultedCurrent'
  <2>1. Quiet(stack)
    BY <1>4, <1>8 DEF Bind, BindHit, BindGuarded, BindGuardedRefused, BindMiss
  <2>2. ASSUME NEW phase \in Phase, phase # "consulted",
               stack' = Append(stack, Pending(fn, v, s, phase))
        PROVE  ConsultedCurrent'
    <3>1. Quiet(stack')
      BY <1>0, <2>1, <2>2, PendingType DEF Quiet
    <3> QED BY <1>1, <3>1
  <2>3. CASE BindHit(fn, v, s)
    BY <1>6, <2>1, <2>3 DEF BindHit, Answer
  <2>4. CASE BindGuarded(fn, v, s)
    BY <1>6, <2>1, <2>4 DEF BindGuarded, Answer
  <2>5. CASE BindGuardedRefused(fn, v, s)
    <3>1. CASE s = Dnu
      BY <1>2, <2>5, <3>1 DEF BindGuardedRefused
    <3>2. CASE s # Dnu
      BY <2>2, <2>5, <3>2, PhaseType DEF BindGuardedRefused
    <3> QED BY <3>1, <3>2
  <2>6. CASE BindMiss(fn, v, s)
    BY <2>2, <2>6, PhaseType DEF BindMiss
  <2> QED BY <1>8, <2>3, <2>4, <2>5, <2>6 DEF Bind
<1>9. CASE Define
  <2>1. Running /\ stack' = stack
    BY <1>9 DEF Define, Delegated, CopyEmpty, MethodAtPutWith, FlushAll
  <2> QED BY <1>1, <1>3, <2>1
<1>10. CASE LookupFinds
  BY <1>7, <1>10, LookedType DEF LookupFinds, Answer
<1>11. CASE HandlerSubstitutes
  <2>1. stack # <<>> /\ \E c : stack' = Resume(Below, c)
    BY <1>11 DEF HandlerSubstitutes, AtTop, Answer
  <2> QED BY <1>7, <2>1
<1>12. CASE LookupFails
  <2>1. stack # <<>>
    BY <1>12, LookedType DEF LookupFails
  <2>2. CASE Top.selector = Dnu
    <3>1. stack' = SubSeq(stack, 1, Len(stack) - 1)
      BY <1>12, <2>2 DEF LookupFails, Below
    <3>2. Quiet(stack')
      BY <1>0, <2>1, <3>1 DEF ConsultedCurrent, Quiet
    <3> QED BY <1>1, <3>2
  <2>3. CASE Top.selector # Dnu
    <3> DEFINE frame == Pending(Top.fn, Top.vtable, Top.selector, "refusing")
    <3>1. frame \in Frame /\ frame.phase # "consulted" /\ stack' = Append(Below, frame)
      BY <1>12, <2>3, LookedType, PendingType, PhaseType DEF LookupFails
    <3> HIDE DEF frame
    <3>2. Quiet(stack')
      BY <2>1, <3>1, TopReplaced DEF ConsultedCurrent, Quiet
    <3> QED BY <1>1, <3>2
  <2> QED BY <2>2, <2>3
<1>13. CASE Consult
  <2> DEFINE frame == [Top EXCEPT !.phase = "consulted", !.found = Find(Top.vtable, Top.selector)]
  <2>1. stack # <<>> /\ Top \in Frame /\ Top.phase = "override" /\ UNCHANGED <<chain, methods>>
    BY <1>13, BelowType DEF Consult, AtTop
  <2>2. Quiet(stack)
    BY <1>0, <2>1 DEF Top, ConsultedCurrent, Quiet
  <2>3. Find(Top.vtable, Top.selector) \in Closure \cup {Nil}
    BY <2>1, FindType DEF Frame
  <2>4. /\ frame \in Frame /\ frame.vtable = Top.vtable /\ frame.selector = Top.selector
        /\ frame.found = Find(Top.vtable, Top.selector)
    BY <2>1, <2>3, PhaseType DEF Frame
  <2>5. stack' = Append(Below, frame)
    BY <1>13 DEF Consult
  <2>6. \A w, x : Find(w, x)' = Find(w, x)
    BY <2>1 DEF Find, Sends!Find, Sends!Nearest, Sends!Definers
  <2> HIDE DEF frame
  <2>7. ASSUME NEW i \in DOMAIN stack', stack'[i].phase = "consulted"
        PROVE  i = Len(stack') /\ stack'[i] = frame
    BY <2>1, <2>2, <2>4, <2>5, <2>7, TopReplaced DEF Quiet
  <2>8. PICK w, x : w = Top.vtable /\ x = Top.selector
    OBVIOUS
  <2>9. frame.found = Find(w, x)' /\ frame.vtable = w /\ frame.selector = x
    BY <2>4, <2>6, <2>8
  <2> QED BY <2>7, <2>9 DEF ConsultedCurrent
<1>14. CASE Escape
  <2>1. Running /\ \E n \in 0 .. Len(stack) - 1 : stack' = SubSeq(stack, 1, n)
    BY <1>14 DEF Escape
  <2>2. Quiet(stack')
    BY <1>0, <1>3, <2>1 DEF Quiet
  <2> QED BY <1>1, <2>2
<1>15. CASE HandlerFails \/ UNCHANGED vars
  BY <1>2, <1>15 DEF HandlerFails, vars
<1> QED BY <1>8, <1>9, <1>10, <1>11, <1>12, <1>13, <1>14, <1>15 DEF Next

LEMMA CoherentStep ==
  ASSUME TypeOK, RefersToLive, ConsultedCurrent, CacheCoherent, [Next]_vars
  PROVE  CacheCoherent'
<1> USE DispatchAssumption
<1>1. ASSUME UNCHANGED <<chain, methods, mcache>> PROVE CacheCoherent'
  <2>1. \A w, x : Find(w, x)' = Find(w, x)
    BY <1>1 DEF Find, Sends!Find, Sends!Nearest, Sends!Definers
  <2> QED BY <1>1, <2>1 DEF CacheCoherent
<1>2. ASSUME NEW v \in VTable, NEW n \in VTable, Delegated(v, n) PROVE CacheCoherent'
  <2>1. \A w \in Live : chain'[w] = chain[w]
    BY <1>2 DEF Delegated, TypeOK, Live, Sends!Live
  <2>2. methods' = methods /\ mcache' = mcache
    BY <1>2 DEF Delegated
  <2>3. \A w \in Live, s \in Selector : Find(w, s)' = Find(w, s)
    BY <2>1, <2>2, FindStable DEF RefersToLive, Live, Sends!Live
  <2> DEFINE none == {}
  <2>4. \A p \in Probe : mcache'[p] \in Entry =>
          mcache'[p] = mcache[p] /\ mcache[p].selector \notin none
    BY <2>2
  <2>5. \A w \in Live, s \in Selector : s \notin none => Find(w, s)' = Find(w, s)
    BY <2>3
  <2> HIDE DEF none
  <2> QED BY <2>4, <2>5, CoherentKept
<1>3. ASSUME NEW d \in Program, MethodAtPutWith(d[1], d[2], d[3]) PROVE CacheCoherent'
  <2>1. d[1] \in VTable /\ d[2] \in Selector /\ d[3] \in Impl
    OBVIOUS
  <2>2. chain' = chain /\ mcache' = Flushed(mcache, {d[2]})
    BY <1>3 DEF MethodAtPutWith
  <2>3. \A w \in VTable, s \in Selector : s # d[2] => methods'[w][s] = methods[w][s]
    BY <1>3, <2>1 DEF MethodAtPutWith, TypeOK
  <2> DEFINE flushed == {d[2]}
  <2>4. \A w \in Live, s \in Selector : s \notin flushed => Find(w, s)' = Find(w, s)
    BY <2>2, <2>3, FindStable DEF RefersToLive, Live, Sends!Live
  <2>5. mcache' = Flushed(mcache, flushed)
    BY <2>2
  <2> HIDE DEF flushed
  <2> QED BY <2>4, <2>5, FlushedDrops, CoherentKept
<1>4. ASSUME NEW v \in VTable, NEW n \in VTable, CopyEmpty(v, n) PROVE CacheCoherent'
  <2>1. \A w \in Live : chain'[w] = chain[w]
    BY <1>4 DEF CopyEmpty, TypeOK, Live, Sends!Live
  <2>2. mcache' = Flushed(mcache, Copied)
    BY <1>4 DEF CopyEmpty
  <2>3. \A w \in Live : methods'[w] = methods[w]
    BY <1>4 DEF CopyEmpty, TypeOK, Live, Sends!Live
  <2>4. \A w \in Live, s \in Selector : s \notin Copied => Find(w, s)' = Find(w, s)
    BY <2>1, <2>3, FindStable DEF RefersToLive, Live, Sends!Live
  <2> QED BY <2>2, <2>4, FlushedDrops, CoherentKept
<1>5. CASE FlushAll
  <2>1. \A p \in Probe : mcache'[p] \notin Entry
    BY <1>5 DEF FlushAll
  <2> QED BY <2>1 DEF CacheCoherent
<1>6. ASSUME NEW fn \in Binder, NEW v \in VTable, NEW s \in Selector, Bind(fn, v, s)
      PROVE  CacheCoherent'
  <2>1. CASE BindGuarded(fn, v, s)
    BY <2>1, CoherentFilled DEF BindGuarded
  <2>2. CASE BindHit(fn, v, s) \/ BindGuardedRefused(fn, v, s) \/ BindMiss(fn, v, s)
    BY <1>1, <2>2 DEF BindHit, BindGuardedRefused, BindMiss
  <2> QED BY <1>6, <2>1, <2>2 DEF Bind
<1>7. CASE LookupFinds
  <2>1. Top.vtable \in VTable /\ Top.selector \in Selector
    BY <1>7, LookedType DEF LookupFinds
  <2>2. Looked = Find(Top.vtable, Top.selector)
    BY <1>7, LookedCurrent DEF LookupFinds
  <2> QED BY <1>7, <2>1, <2>2, CoherentFilled DEF LookupFinds
<1>8. CASE Consult \/ LookupFails \/ HandlerSubstitutes \/ HandlerFails \/ Escape \/ UNCHANGED vars
  BY <1>1, <1>8 DEF Consult, LookupFails, HandlerSubstitutes, HandlerFails, Escape, vars
<1> QED BY <1>2, <1>3, <1>4, <1>5, <1>6, <1>7, <1>8 DEF Next, Define

\* What makes coherence inductive: well-typed state, and chains and pending
\* binds that only refer to families that exist.
Invariant == TypeOK /\ LookupsGuarded /\ RefersToLive /\ ConsultedCurrent /\ CacheCoherent

LEMMA InvariantHolds ==
  ASSUME ~Deferred PROVE Spec => []Invariant
<1>1. Init => Invariant
  <2>1. Init => ConsultedCurrent
    BY DEF Init, ConsultedCurrent
  <2> QED BY <2>1, InitialState, RefersInitially, CoherentInitially DEF Invariant
<1>2. Invariant /\ [Next]_vars => Invariant'
  BY TypeStep, GuardStep, RefersStep, CurrentStep, CoherentStep DEF Invariant
<1> QED BY <1>1, <1>2, PTL DEF Spec

\* No send is ever answered from a stale line of the method cache: each line
\* holds what an uncached lookup would find now (_libid_flush misses nothing),
\* as long as user-level lookup: code answers 'super lookup:' as its last act.
THEOREM Coherence ==
  ASSUME ~Deferred PROVE Spec => []CacheCoherent
BY InvariantHolds, PTL DEF Invariant

-----------------------------------------------------------------------------
(* Refinement *)

\* A step of Dispatch is a step of the runtime without cache and guard.
LEMMA StepRefines ==
  ASSUME Invariant, [Next]_vars PROVE [Sends!Next]_(Sends!vars)
<1> USE DispatchAssumption
<1>0. TypeOK /\ RefersToLive /\ ConsultedCurrent /\ CacheCoherent
  BY DEF Invariant
<1>1. ASSUME UNCHANGED <<chain, methods>>, answer' = Nil PROVE Sends!Next
  BY <1>1 DEF Sends!Next, Sends!Forget
<1>2. ASSUME NEW v \in VTable, NEW s \in Selector, Find(v, s) # Nil,
             UNCHANGED <<chain, methods>>,
             answer' = [vtable |-> v, selector |-> s, closure |-> Find(v, s), by |-> "lookup"]
      PROVE  Sends!Next
  <2>1. v \in Sends!Live
    BY <1>2, FinderLive DEF Live
  <2>2. Sends!Send(v, s)
    BY <1>2, <2>1 DEF Sends!Send, Find
  <2> QED BY <2>2 DEF Sends!Next
<1>3. ASSUME NEW v \in VTable, NEW n \in VTable, Delegated(v, n) PROVE Sends!Next
  <2>1. Sends!NewFamily(v, n)
    BY <1>3 DEF Delegated, Sends!NewFamily, Live
  <2> QED BY <2>1 DEF Sends!Next
<1>4. ASSUME NEW v \in VTable, NEW n \in VTable, CopyEmpty(v, n) PROVE Sends!Next
  <2>1. Sends!NewSibling(v, n)
    BY <1>4 DEF CopyEmpty, Sends!NewSibling, Live, Find
  <2> QED BY <2>1 DEF Sends!Next
<1>5. ASSUME NEW d \in Program, MethodAtPutWith(d[1], d[2], d[3]) PROVE Sends!Next
  <2>1. d[1] \in VTable /\ d[2] \in Selector /\ d[3] \in Impl
    OBVIOUS
  <2>2. Sends!Install(d[1], d[2], d[3])
    BY <1>5 DEF MethodAtPutWith, Sends!Install, Live
  <2> QED BY <2>1, <2>2 DEF Sends!Next
<1>6. CASE FlushAll
  BY <1>1, <1>6 DEF FlushAll
<1>7. ASSUME NEW fn \in Binder, NEW v \in VTable, NEW s \in Selector, Bind(fn, v, s)
      PROVE  Sends!Next
  <2>1. CASE BindHit(fn, v, s)
    <3> DEFINE p == Hash[<<v, s>>]
    <3>1. p \in Probe
      OBVIOUS
    <3>2. mcache[p] # Nil /\ mcache[p].vtable = v /\ mcache[p].selector = s
      BY <2>1 DEF BindHit, Hit
    <3>3. mcache[p] \in Entry
      BY <1>0, <3>1, <3>2 DEF TypeOK, Zeroed
    <3>4. mcache[p].closure = Find(v, s) /\ mcache[p].closure \in Closure
      BY <1>0, <3>1, <3>2, <3>3, CachedLive DEF Entry
    <3>5. /\ answer' = [vtable |-> v, selector |-> s, closure |-> mcache[p].closure,
                        by |-> "lookup"]
          /\ UNCHANGED <<chain, methods>>
      BY <2>1 DEF BindHit, Answer
    <3> QED BY <1>2, <3>4, <3>5
  <2>2. CASE BindGuarded(fn, v, s)
    BY <1>2, <2>2 DEF BindGuarded, Answer
  <2>3. CASE BindGuardedRefused(fn, v, s) \/ BindMiss(fn, v, s)
    BY <1>1, <2>3 DEF BindGuardedRefused, BindMiss
  <2> QED BY <1>7, <2>1, <2>2, <2>3 DEF Bind
<1>8. ASSUME LookupFinds \/ HandlerSubstitutes
      PROVE  /\ Top.vtable \in Live /\ Top.vtable \in VTable /\ Top.selector \in Selector
  <2>1. stack # <<>>
    BY <1>0, <1>8, LookedType DEF LookupFinds, HandlerSubstitutes, AtTop
  <2>2. Top \in Frame /\ Len(stack) \in DOMAIN stack
    BY <1>0, <2>1, BelowType DEF TypeOK
  <2> QED BY <1>0, <2>2 DEF RefersToLive, Frame, Top
<1>9. CASE LookupFinds
  <2>1. Looked = Find(Top.vtable, Top.selector)
    BY <1>0, <1>9, LookedCurrent DEF LookupFinds
  <2> QED BY <1>2, <1>8, <1>9, <2>1 DEF LookupFinds, Answer
<1>10. CASE HandlerSubstitutes
  <2>1. PICK v \in Live, s \in Selector :
          /\ methods[v][s] # Nil
          /\ answer' = [vtable |-> Top.vtable, selector |-> Top.selector,
                        closure |-> <<v, s>>, by |-> "handler"]
    BY <1>10 DEF HandlerSubstitutes, Answer
  <2>2. <<v, s>> \in VTable \X Selector
    BY DEF Live, Sends!Live
  <2>3. Sends!Substitute(Top.vtable, Top.selector)
    BY <1>8, <1>10, <2>1, <2>2 DEF Sends!Substitute, Sends!Closure, Live, HandlerSubstitutes
  <2>4. PICK w \in VTable, x \in Selector : w = Top.vtable /\ x = Top.selector
    BY <1>8, <1>10
  <2> QED BY <2>3, <2>4 DEF Sends!Next
<1>11. CASE Consult \/ LookupFails \/ HandlerFails \/ Escape
  BY <1>1, <1>11 DEF Consult, LookupFails, HandlerFails, Escape
<1>12. CASE UNCHANGED vars
  BY <1>12 DEF vars, Sends!vars
<1> QED BY <1>3, <1>4, <1>5, <1>6, <1>7, <1>9, <1>10, <1>11, <1>12 DEF Next, Define

\* Method cache, lookup: sends, recursion guards and handlers together answer
\* every send as MessageSend does: by the nearest definition at that moment.
THEOREM Refinement ==
  ASSUME ~Deferred PROVE Spec => SendsSpec
<1>1. Init => Sends!Init
  BY DEF Init
<1>2. Invariant /\ [Next]_vars => [Sends!Next]_(Sends!vars)
  BY StepRefines
<1> QED BY <1>1, <1>2, InvariantHolds, PTL DEF Spec, SendsSpec, Sends!Spec
=============================================================================
