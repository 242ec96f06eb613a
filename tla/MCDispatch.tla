----------------------------- MODULE MCDispatch -----------------------------
(* Instances of Dispatch for TLC, and the properties its runs check. *)
EXTENDS Dispatch

CONSTANTS object, meta, a, b, lookup, dnu, foo, native, user, l1, l2

(* Cache lines: 'lookup:' to the vtables has a line of its own, everything
   else collides on the other. *)
HashByFamily == [k \in VTable \X Selector |-> IF k[2] = lookup THEN l1 ELSE l2]

\* A program that overrides foo down the delegation chain.
NativeProgram == {<<object, foo, user>>, <<a, foo, user>>, <<b, foo, user>>}

\* One that also redefines lookup: in the family of all vtables.
LookupProgram == {<<object, foo, user>>, <<a, foo, user>>, <<meta, lookup, user>>}

\* One that redefines lookup: and answers sends nobody defines.
HandlerProgram == {<<object, foo, user>>, <<object, dnu, user>>, <<meta, lookup, user>>}

\* Both, of which a behaviour uses one: overriding in four families, or user-
\* level lookup: and doesNotUnderstand: in two.
BothProgram == NativeProgram \cup HandlerProgram
HashBoth == [k \in VTable \X Selector |-> IF k[2] = lookup \/ k[1] \in {meta, b} THEN l1 ELSE l2]
OneOrOther == \/ methods[meta][lookup] # user /\ methods[object][dnu] # user
              \/ Live \subseteq {object, meta}

FooCopied == {foo}
=============================================================================
