---------------------------- MODULE UnequalElements ----------------------------
(***************************************************************************)
(* What a Set promises: a collection of unequal elements that answers      *)
(* whether it holds an object and how many it holds.  One that was made    *)
(* with no slots aborts the program at the first message that looks for an *)
(* object, so any message to an empty collection may.                      *)
(***************************************************************************)
EXTENDS Naturals, FiniteSets

CONSTANT Element   \* the objects put into it, one for each class of equals

VARIABLES elements,  \* the elements
          call,      \* the last message, <<selector, argument ...>>
          answer,    \* the element it answered, or how many; nothing is <<>>
          aborted    \* it aborted the program

vars == <<elements, call, answer, aborted>>

Init ==
  /\ elements = {}
  /\ call = <<"new:">>
  /\ answer = <<>>
  /\ aborted = FALSE

Becomes(s, a) ==
  /\ elements' = s
  /\ answer' = a
  /\ UNCHANGED aborted

MayAbort ==
  /\ elements = {}
  /\ aborted' = TRUE
  /\ answer' = <<>>
  /\ UNCHANGED elements

Found(x) == IF x \in elements THEN <<x>> ELSE <<>>

Add(x) ==
  /\ call' = <<"add:", x>>
  /\ Becomes(elements \cup {x}, <<x>>) \/ MayAbort

Remove(x) ==
  /\ call' = <<"remove:ifAbsent:", x>>
  /\ Becomes(elements \ {x}, Found(x)) \/ MayAbort

Like(x) ==
  /\ call' = <<"like:", x>>
  /\ Becomes(elements, Found(x)) \/ MayAbort

Size ==
  /\ call' = <<"size">>
  /\ Becomes(elements, <<Cardinality(elements)>>)

Next ==
  \/ ~aborted /\ Size
  \/ ~aborted /\ \E x \in Element : Add(x) \/ Remove(x) \/ Like(x)

Spec == Init /\ [][Next]_vars
=============================================================================
