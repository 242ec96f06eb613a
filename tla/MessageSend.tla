---------------------------- MODULE MessageSend ----------------------------
(***************************************************************************)
(* What the object runtime promises a program: families of objects         *)
(* (vtables), each with its own methods and a delegation chain, and sends  *)
(* that are answered by the nearest definition along that chain at the     *)
(* moment of the answer.  There is no method cache, no 'lookup:' message   *)
(* and no recursion guard here: Dispatch has them, and implements this.    *)
(***************************************************************************)
EXTENDS Naturals, Sequences

CONSTANTS VTable,      \* families of objects, created or still to be created
          Selector,    \* interned selectors
          Impl,        \* method implementations
          Nil,         \* the null pointer
          Object,      \* the root family, _object_vtable
          Meta,        \* the family of the vtables themselves, _vtable_vtable
          Lookup,      \* the selector 'lookup:'
          NativeLookup \* the implementation _vtable__lookup_

VARIABLES chain,       \* chain[v]: v, its delegate, ...; <<>> until v is created
          methods,     \* methods[v][s]: what v itself binds s to, or Nil
          answer       \* the bind the last step answered, or Nil

vars == <<chain, methods, answer>>

(***************************************************************************)
(* A closure lives in the association that owns it and is redefined in     *)
(* place, so the pair (owner, selector) is its identity.                   *)
(***************************************************************************)
Closure == VTable \X Selector

Live == {v \in VTable : chain[v] # <<>>}

Definers(v, s) == {i \in DOMAIN chain[v] : methods[chain[v][i]][s] # Nil}

Nearest(v, s) == CHOOSE i \in Definers(v, s) : \A j \in Definers(v, s) : i <= j

\* _vtable__lookup_: the closure found by v, then along its delegates.
Find(v, s) ==
  IF Definers(v, s) = {} THEN Nil ELSE <<chain[v][Nearest(v, s)], s>>

\* The families that _libid_init leaves behind.
Init ==
  /\ chain = [v \in VTable |-> CASE v = Object -> <<Object>>
                                 [] v = Meta   -> <<Meta, Object>>
                                 [] OTHER      -> <<>>]
  /\ methods = [v \in VTable |-> [s \in Selector |->
                  IF v = Meta /\ s = Lookup THEN NativeLookup ELSE Nil]]
  /\ answer = Nil

NewFamily(v, n) ==
  /\ v \in Live
  /\ n \notin Live
  /\ chain' = [chain EXCEPT ![n] = <<n>> \o chain[v]]
  /\ answer' = Nil
  /\ UNCHANGED methods

Install(v, s, m) ==
  /\ v \in Live
  /\ methods' = [methods EXCEPT ![v][s] = m]
  /\ answer' = Nil
  /\ UNCHANGED chain

NewSibling(v, n) ==
  /\ v \in Live
  /\ n \notin Live
  /\ \E copied \in SUBSET Selector :
       /\ \A s \in copied : Find(v, s) # Nil
       /\ methods' = [methods EXCEPT ![n] = [s \in Selector |->
                        IF s \in copied THEN methods[Find(v, s)[1]][s] ELSE @[s]]]
  /\ chain' = [chain EXCEPT ![n] = <<n>> \o Tail(chain[v])]
  /\ answer' = Nil

Send(v, s) ==
  /\ v \in Live
  /\ Find(v, s) # Nil
  /\ answer' = [vtable |-> v, selector |-> s, closure |-> Find(v, s), by |-> "lookup"]
  /\ UNCHANGED <<chain, methods>>

(***************************************************************************)
(* A send that nobody defines is answered by the closure the receiver's    *)
(* doesNotUnderstand: supplies.  Its handler may have defined the method   *)
(* meanwhile, so nothing is said about what s finds now.                   *)
(***************************************************************************)
Substitute(v, s) ==
  /\ v \in Live
  /\ \E c \in Closure :
       /\ methods[c[1]][c[2]] # Nil
       /\ answer' = [vtable |-> v, selector |-> s, closure |-> c, by |-> "handler"]
  /\ UNCHANGED <<chain, methods>>

Forget ==
  /\ answer' = Nil
  /\ UNCHANGED <<chain, methods>>

Next ==
  \/ \E v, n \in VTable : NewFamily(v, n) \/ NewSibling(v, n)
  \/ \E v \in VTable, s \in Selector :
       \/ \E m \in Impl : Install(v, s, m)
       \/ Send(v, s)
       \/ Substitute(v, s)
  \/ Forget

Spec == Init /\ [][Next]_vars
=============================================================================
