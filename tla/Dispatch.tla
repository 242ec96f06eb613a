------------------------------ MODULE Dispatch ------------------------------
(***************************************************************************)
(* Dynamic binding in src/object/id/libid.c: method dictionaries (vtables) *)
(* with delegation, the global method cache, and the two functions that    *)
(* compiled code calls to bind a selector to a receiver, _libid_bind and   *)
(* _libid_bindv.  A cache miss is resolved by sending 'lookup:' to the     *)
(* receiver's vtable, which user-level code may have redefined; while that *)
(* code runs it defines methods, creates families and sends messages, so   *)
(* binds nest.  'stack' holds the binds that have not answered yet.        *)
(***************************************************************************)
EXTENDS Naturals, Sequences, FiniteSets

CONSTANTS VTable,      \* families of objects, created or still to be created
          Selector,    \* interned selectors
          Impl,        \* method implementations
          Nil,         \* the null pointer
          Probe,       \* lines of the method cache
          Hash,        \* Hash[<<v, s>>]: the line a send of s to family v probes
          Object,      \* the root family, _object_vtable
          Meta,        \* the family of the vtables themselves, _vtable_vtable
          Lookup,      \* the selector 'lookup:'
          Dnu,         \* the selector 'doesNotUnderstand:'
          NativeLookup,\* the implementation _vtable__lookup_
          Program,     \* the definitions <<v, s, m>> the program may execute
          Copied,      \* the selectors copyEmpty: copies
          Deferred,    \* whether a user-level lookup: may run more code after
                       \* 'super lookup:' answered, before it answers that
          MaxDepth     \* bound: binds pending at once (the C stack)

Binder == {"bind", "bindv"}

Closure == VTable \X Selector

(***************************************************************************)
(* A line is Nil or points to an entry; an entry that _libid_flush has     *)
(* zeroed stays where it is, its fields null.                              *)
(***************************************************************************)
Entry == [vtable : VTable, selector : Selector, closure : Closure]
Zeroed == [vtable |-> Nil, selector |-> Nil, closure |-> Nil]

\* What a bind answers, and whether lookup: or a handler supplied it.
Answers == [vtable : VTable, selector : Selector, closure : Closure,
            by : {"lookup", "handler"}]

(***************************************************************************)
(* Where a pending bind is: binding 'lookup:', in the native lookup, in a  *)
(* user-level lookup: before or after it consulted the native one by       *)
(* 'super lookup:', binding 'doesNotUnderstand:', or in its handler.       *)
(***************************************************************************)
LookupPhase == {"sending", "walking", "override", "consulted"}
Phase == LookupPhase \cup {"refusing", "handling"}
Frame == [fn : Binder, vtable : VTable, selector : Selector, phase : Phase,
          found : Closure \cup {Nil}]  \* what the override was answered
Pending(f, v, s, ph) ==
  [fn |-> f, vtable |-> v, selector |-> s, phase |-> ph, found |-> Nil]

ASSUME DispatchAssumption ==
  /\ Object \in VTable /\ Meta \in VTable /\ Object # Meta
  /\ Lookup \in Selector /\ Dnu \in Selector /\ Lookup # Dnu
  /\ NativeLookup \in Impl
  /\ Nil \notin VTable \cup Selector \cup Impl \cup Closure \cup Entry \cup Answers
  /\ Hash \in [VTable \X Selector -> Probe]
  /\ Program \subseteq VTable \X Selector \X Impl
  /\ Copied \subseteq Selector
  /\ Deferred \in BOOLEAN
  /\ MaxDepth \in Nat

VARIABLES chain,       \* chain[v]: v, its delegate, ...; <<>> until v is created
          methods,     \* methods[v][s]: what v itself binds s to, or Nil
          answer,      \* the bind the last step answered, or Nil
          mcache,      \* _libid_mcache
          guard,       \* the static recursionGuard of each bind function
          stack,       \* binds that have not answered yet, innermost last
          exited       \* fatal() has been called

vars == <<chain, methods, answer, mcache, guard, stack, exited>>

Sends == INSTANCE MessageSend

Live == Sends!Live
Find(v, s) == Sends!Find(v, s)
Top == stack[Len(stack)]
Below == SubSeq(stack, 1, Len(stack) - 1)
AtTop(phase) == stack # <<>> /\ Top.phase = phase

(***************************************************************************)
(* User-level code is running: the program itself, a lookup: override or a *)
(* doesNotUnderstand: handler.                                             *)
(***************************************************************************)
RunningPhase == {"override", "handling"} \cup (IF Deferred THEN {"consulted"} ELSE {})
Running == ~exited /\ (stack # <<>> => Top.phase \in RunningPhase)

Init ==
  /\ Sends!Init
  /\ mcache = [p \in Probe |->
                IF p = Hash[<<Meta, Lookup>>]
                THEN [vtable |-> Meta, selector |-> Lookup, closure |-> <<Meta, Lookup>>]
                ELSE Nil]
  /\ guard = [fn \in Binder |-> 0]
  /\ stack = <<>>
  /\ exited = FALSE

-----------------------------------------------------------------------------
(* Operations of running code on families and methods *)

\* _vtable__delegated: a new family delegating to v.
Delegated(v, n) ==
  /\ Running
  /\ v \in Live
  /\ n \notin Live
  /\ chain' = [chain EXCEPT ![n] = <<n>> \o chain[v]]
  /\ answer' = Nil
  /\ UNCHANGED <<methods, mcache, guard, stack, exited>>

\* _libid_flush: zero every entry for one of the selectors.
Flushed(cache, selectors) ==
  [p \in Probe |-> IF cache[p] # Nil /\ cache[p].selector \in selectors
                   THEN Zeroed ELSE cache[p]]

\* Mutant: a new association does not flush, only a redefined one does.
MethodAtPutWithLazyFlush(v, s, m) ==
  /\ Running
  /\ v \in Live
  /\ methods' = [methods EXCEPT ![v][s] = m]
  /\ mcache' = IF methods[v][s] # Nil THEN Flushed(mcache, {s}) ELSE mcache
  /\ answer' = Nil
  /\ UNCHANGED <<chain, guard, stack, exited>>

\* _vtable__methodAt_put_with_
MethodAtPutWith(v, s, m) ==
  /\ Running
  /\ v \in Live
  /\ methods' = [methods EXCEPT ![v][s] = m]
  /\ mcache' = Flushed(mcache, {s})
  /\ answer' = Nil
  /\ UNCHANGED <<chain, guard, stack, exited>>

\* _vtable copyEmpty: a fresh family n beside v, with copies of the
\* implementations v finds for a few selectors.
CopyEmpty(v, n) ==
  /\ Running
  /\ v \in Live
  /\ n \notin Live
  /\ \A s \in Copied : Find(v, s) # Nil
  /\ chain' = [chain EXCEPT ![n] = <<n>> \o Tail(chain[v])]
  /\ methods' = [methods EXCEPT ![n] = [s \in Selector |->
                   IF s \in Copied THEN methods[Find(v, s)[1]][s] ELSE @[s]]]
  /\ mcache' = Flushed(mcache, Copied)
  /\ answer' = Nil
  /\ UNCHANGED <<guard, stack, exited>>

\* _vtable__flush
FlushAll ==
  /\ Running
  /\ mcache' = [p \in Probe |-> Nil]
  /\ answer' = Nil
  /\ UNCHANGED <<chain, methods, guard, stack, exited>>

-----------------------------------------------------------------------------
(* Binding: _libid_bind and _libid_bindv *)

\* The call fn(s, receiver of family v) may be made now: by running code, or
\* by the pending bind that sends 'lookup:' or 'doesNotUnderstand:'.
Calls(fn, v, s) ==
  /\ ~exited
  /\ v \in Live
  /\ \/ Running
     \/ AtTop("sending")  /\ fn = "bindv" /\ v = Meta /\ s = Lookup
     \/ AtTop("refusing") /\ fn = "bindv" /\ v = Top.vtable /\ s = Dnu

\* Mutant: the selector alone decides.
HitBySelector(v, s) ==
  LET e == mcache[Hash[<<v, s>>]]
  IN e # Nil /\ e.selector = s

Hit(v, s) ==
  LET e == mcache[Hash[<<v, s>>]]
  IN e # Nil /\ e.selector = s /\ e.vtable = v

\* The pending binds once the innermost call of 'pending' returned closure c.
Resume(pending, c) ==
  LET n == Len(pending)
      next(phase) == [pending EXCEPT ![n].phase = phase]
      in(phase) == n > 0 /\ pending[n].phase = phase
  IN CASE in("sending") /\ methods[c[1]][c[2]] = NativeLookup -> next("walking")
       [] in("sending") /\ methods[c[1]][c[2]] # NativeLookup -> next("override")
       [] in("refusing") -> next("handling")
       [] OTHER -> pending

Answer(v, s, c, by, pending) ==
  /\ answer' = [vtable |-> v, selector |-> s, closure |-> c, by |-> by]
  /\ stack' = Resume(pending, c)

Fill(v, s, c) ==
  mcache' = [mcache EXCEPT ![Hash[<<v, s>>]] =
               [vtable |-> v, selector |-> s, closure |-> c]]

\* The cache answers.
BindHit(fn, v, s) ==
  /\ Calls(fn, v, s)
  /\ Hit(v, s)
  /\ Answer(v, s, mcache[Hash[<<v, s>>]].closure, "lookup", stack)
  /\ UNCHANGED <<chain, methods, mcache, guard, exited>>

\* A miss inside another lookup of the same function: look up natively.
BindGuarded(fn, v, s) ==
  /\ Calls(fn, v, s)
  /\ ~Hit(v, s)
  /\ guard[fn] > 0
  /\ Find(v, s) # Nil
  /\ Fill(v, s, Find(v, s))
  /\ Answer(v, s, Find(v, s), "lookup", stack)
  /\ UNCHANGED <<chain, methods, guard, exited>>

\* ... which finds nothing.
BindGuardedRefused(fn, v, s) ==
  /\ Calls(fn, v, s)
  /\ ~Hit(v, s)
  /\ guard[fn] > 0
  /\ Find(v, s) = Nil
  /\ IF s = Dnu
     THEN exited' = TRUE /\ UNCHANGED stack
     ELSE /\ Len(stack) < MaxDepth
          /\ stack' = Append(stack, Pending(fn, v, s, "refusing"))
          /\ UNCHANGED exited
  /\ answer' = Nil
  /\ UNCHANGED <<chain, methods, mcache, guard>>

\* Mutant: the guard is counted but not tested.
BindMissUnguarded(fn, v, s) ==
  /\ Calls(fn, v, s)
  /\ ~Hit(v, s)
  /\ Len(stack) < MaxDepth
  /\ guard' = [guard EXCEPT ![fn] = @ + 1]
  /\ stack' = Append(stack, Pending(fn, v, s, "sending"))
  /\ answer' = Nil
  /\ UNCHANGED <<chain, methods, mcache, exited>>

\* A miss with the guard at zero: send 'lookup:' to the vtable.
BindMiss(fn, v, s) ==
  /\ Calls(fn, v, s)
  /\ ~Hit(v, s)
  /\ guard[fn] = 0
  /\ Len(stack) < MaxDepth
  /\ guard' = [guard EXCEPT ![fn] = @ + 1]
  /\ stack' = Append(stack, Pending(fn, v, s, "sending"))
  /\ answer' = Nil
  /\ UNCHANGED <<chain, methods, mcache, exited>>

\* 'super lookup:' in a user-level lookup:.
Consult ==
  /\ ~exited
  /\ AtTop("override") \/ (Deferred /\ AtTop("consulted"))
  /\ stack' = Append(Below, [Top EXCEPT !.phase = "consulted",
                                        !.found = Find(Top.vtable, Top.selector)])
  /\ answer' = Nil
  /\ UNCHANGED <<chain, methods, mcache, guard, exited>>

\* What the lookup: that the innermost bind sent answers.
LookupReturns == ~exited /\ (AtTop("walking") \/ AtTop("consulted"))
Looked == IF Top.phase = "walking" THEN Find(Top.vtable, Top.selector) ELSE Top.found

\* lookup: answers an association: fill the line and return its closure.
LookupFinds ==
  /\ LookupReturns
  /\ Looked # Nil
  /\ guard' = [guard EXCEPT ![Top.fn] = @ - 1]
  /\ Fill(Top.vtable, Top.selector, Looked)
  /\ Answer(Top.vtable, Top.selector, Looked, "lookup", Below)
  /\ UNCHANGED <<chain, methods, exited>>

\* lookup: answers nil: send 'doesNotUnderstand:', or give up if that was it.
LookupFails ==
  /\ LookupReturns
  /\ Looked = Nil
  /\ guard' = [guard EXCEPT ![Top.fn] = @ - 1]
  /\ IF Top.selector = Dnu
     THEN exited' = TRUE /\ stack' = Below
     ELSE /\ stack' = Append(Below, Pending(Top.fn, Top.vtable, Top.selector, "refusing"))
          /\ UNCHANGED exited
  /\ answer' = Nil
  /\ UNCHANGED <<chain, methods, mcache>>

\* Mutant: the substitute is memoized like a method that was found.
HandlerSubstitutesCached ==
  /\ ~exited
  /\ AtTop("handling")
  /\ \E v \in Live, s \in Selector :
       /\ methods[v][s] # Nil
       /\ Answer(Top.vtable, Top.selector, <<v, s>>, "handler", Below)
       /\ Fill(Top.vtable, Top.selector, <<v, s>>)
  /\ UNCHANGED <<chain, methods, guard, exited>>

\* doesNotUnderstand: answers a closure, which stands in for the method ...
HandlerSubstitutes ==
  /\ ~exited
  /\ AtTop("handling")
  /\ \E v \in Live, s \in Selector :
       /\ methods[v][s] # Nil
       /\ Answer(Top.vtable, Top.selector, <<v, s>>, "handler", Below)
  /\ UNCHANGED <<chain, methods, mcache, guard, exited>>

\* ... or anything else, which is fatal.
HandlerFails ==
  /\ ~exited
  /\ AtTop("handling")
  /\ exited' = TRUE
  /\ answer' = Nil
  /\ UNCHANGED <<chain, methods, mcache, guard, stack>>

\* Mutant: a non-local return resets the guards, though an outer bind may
\* still be inside its lookup.
EscapeResetting ==
  /\ Running
  /\ \E n \in 0 .. Len(stack) - 1 :
       /\ n > 0 => stack[n].phase \in RunningPhase
       /\ stack' = SubSeq(stack, 1, n)
  /\ answer' = Nil
  /\ guard' = [fn \in Binder |-> 0]
  /\ UNCHANGED <<chain, methods, mcache, exited>>

\* _libid_nlreturn: user-level code leaves pending binds by longjmp, back to
\* code that was running below them; no recursionGuard is restored.
Escape ==
  /\ Running
  /\ \E n \in 0 .. Len(stack) - 1 :
       /\ n > 0 => stack[n].phase \in RunningPhase
       /\ stack' = SubSeq(stack, 1, n)
  /\ answer' = Nil
  /\ UNCHANGED <<chain, methods, mcache, guard, exited>>

Bind(fn, v, s) ==
  \/ BindHit(fn, v, s)
  \/ BindGuarded(fn, v, s)
  \/ BindGuardedRefused(fn, v, s)
  \/ BindMiss(fn, v, s)

Define ==
  \/ \E v, n \in VTable : Delegated(v, n) \/ CopyEmpty(v, n)
  \/ \E d \in Program : MethodAtPutWith(d[1], d[2], d[3])
  \/ FlushAll

Next ==
  \/ Define
  \/ \E fn \in Binder, v \in VTable, s \in Selector : Bind(fn, v, s)
  \/ Consult
  \/ LookupFinds
  \/ LookupFails
  \/ HandlerSubstitutes
  \/ HandlerFails
  \/ Escape

Spec == Init /\ [][Next]_vars

-----------------------------------------------------------------------------
TypeOK ==
  /\ chain \in [VTable -> Seq(VTable)]
  /\ methods \in [VTable -> [Selector -> Impl \cup {Nil}]]
  /\ answer \in Answers \cup {Nil}
  /\ mcache \in [Probe -> Entry \cup {Nil, Zeroed}]
  /\ guard \in [Binder -> Nat]
  /\ stack \in Seq(Frame)
  /\ exited \in BOOLEAN

\* Every entry of the method cache sits on the line its key probes and holds
\* the closure that an uncached lookup of the key would find now, whatever was
\* redefined, overridden or created since it was filled (_libid_flush is
\* selective: it must zero every line a new definition could have changed).
CacheCoherent ==
  \A p \in Probe : mcache[p] \in Entry =>
    /\ Hash[<<mcache[p].vtable, mcache[p].selector>>] = p
    /\ mcache[p].closure = Find(mcache[p].vtable, mcache[p].selector)

Lookups(fn) == {i \in DOMAIN stack : stack[i].fn = fn /\ stack[i].phase \in LookupPhase}

\* A bind function that is inside its lookup: send has its recursionGuard set,
\* also after non-local returns have thrown other binds away: the native
\* lookup always serves the sends that user-level lookup: code makes.
GuardCoversLookups == \A fn \in Binder : Cardinality(Lookups(fn)) <= guard[fn]

\* User-level lookup: code is never entered again by the bind function that is
\* waiting for it: this is what recursionGuard is there for.
NoReentrantLookup == \A fn \in Binder : \A i, j \in Lookups(fn) : i = j

\* Why both hold: the two facts that are preserved together.
LookupsGuarded ==
  /\ \A fn \in Binder : Lookups(fn) # {} => guard[fn] > 0
  /\ NoReentrantLookup

\* What a user-level lookup: was answered is current until it answers that,
\* provided it runs no more code in between.
ConsultedCurrent ==
  \A i \in DOMAIN stack : stack[i].phase = "consulted" =>
    /\ i = Len(stack)
    /\ stack[i].found = Find(stack[i].vtable, stack[i].selector)

\* Delegation chains and pending binds refer to families that exist.
RefersToLive ==
  /\ \A v \in VTable : \A i \in DOMAIN chain[v] : chain[v][i] \in Live
  /\ \A i \in DOMAIN stack : stack[i].vtable \in Live

\* Every bind is answered as if there were no cache: Dispatch implements the
\* abstract MessageSend, its answers included.
SendsSpec == Sends!Spec

\* "Message sends to the object are resolved (when not present in the method
\* cache) by sending 'lookup:' to the header object" (doc/pepsi.html.in): when
\* no bind is pending, one that misses the cache does send lookup:, rather than
\* take the guarded path.
MissSendsLookup ==
  stack = <<>> => \A fn \in Binder, v \in Live, s \in Selector :
                    Hit(v, s) \/ guard[fn] = 0

\* "Subsequent lookups of aSelector in the receiver's family will be resolved
\* to _aMethod" (doc/pepsi.html.in on _methodAt:put:): what the cache answers
\* for a selector the receiver's own family binds is that binding.
SubsequentLookups ==
  \A v \in Live, s \in Selector :
    Hit(v, s) /\ methods[v][s] # Nil => mcache[Hash[<<v, s>>]].closure = <<v, s>>
=============================================================================
