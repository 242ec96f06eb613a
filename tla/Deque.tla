-------------------------------- MODULE Deque --------------------------------
(***************************************************************************)
(* What an OrderedCollection promises: a sequence that grows and shrinks   *)
(* at both ends, is indexed from 1, and aborts the program when an element *)
(* that is not there is asked for.  Two more calls may abort the program:  *)
(* adding to an empty collection, and a do: whose block changes what it    *)
(* is iterating over.                                                      *)
(***************************************************************************)
EXTENDS Naturals, Sequences

CONSTANTS Elem,  \* the objects put into it
          Index  \* the indices it is asked for

VARIABLES items,   \* the elements, first to last
          call,    \* the last message: its selector and indices
          answer,  \* what it answered: <<x>>, or <<>> for nothing
          aborted  \* it aborted the program

vars == <<items, call, answer, aborted>>

Message(op, i, j) == [op |-> op, from |-> i, to |-> j]

Init ==
  /\ items = <<>>
  /\ call = Message("new:", 0, 0)
  /\ answer = <<>>
  /\ aborted = FALSE

Aborts ==
  /\ aborted' = TRUE
  /\ answer' = <<>>
  /\ UNCHANGED items

Becomes(s, a) ==
  /\ items' = s
  /\ answer' = a
  /\ UNCHANGED aborted

AddFirst(x) ==
  /\ call' = Message("addFirst:", 0, 0)
  /\ Becomes(<<x>> \o items, <<x>>) \/ (items = <<>> /\ Aborts)

AddLast(x) ==
  /\ call' = Message("addLast:", 0, 0)
  /\ Becomes(Append(items, x), <<x>>) \/ (items = <<>> /\ Aborts)

RemoveFirst ==
  /\ call' = Message("removeFirst", 0, 0)
  /\ IF items = <<>> THEN Aborts ELSE Becomes(Tail(items), <<items[1]>>)

RemoveLast ==
  /\ call' = Message("removeLast", 0, 0)
  /\ IF items = <<>> THEN Aborts
     ELSE Becomes(SubSeq(items, 1, Len(items) - 1), <<items[Len(items)]>>)

At(i) ==
  /\ call' = Message("at:", i, i)
  /\ IF i \in 1 .. Len(items) THEN Becomes(items, <<items[i]>>) ELSE Aborts

AtPut(i, x) ==
  /\ call' = Message("at:put:", i, i)
  /\ IF i \in 1 .. Len(items) THEN Becomes([items EXCEPT ![i] = x], <<x>>) ELSE Aborts

\* The program goes on with a copy of a part of the collection.
CopyFromTo(i, j) ==
  /\ call' = Message("copyFrom:to:", i, j)
  /\ IF j < i THEN Becomes(<<>>, <<>>)
     ELSE IF i >= 1 /\ j <= Len(items) THEN Becomes(SubSeq(items, i, j), <<>>)
     ELSE Aborts

\* One step of do: (its block's messages are steps of their own).
Do ==
  /\ call' = Message("do:", 0, 0)
  /\ Becomes(items, <<>>) \/ Aborts

Next ==
  /\ ~aborted
  /\ \/ \E x \in Elem : AddFirst(x) \/ AddLast(x) \/ \E i \in Index : AtPut(i, x)
     \/ RemoveFirst
     \/ RemoveLast
     \/ \E i, j \in Index : At(i) \/ CopyFromTo(i, j)
     \/ Do

Spec == Init /\ [][Next]_vars
=============================================================================
