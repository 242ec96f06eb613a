-------------------------------- MODULE Tape --------------------------------
(***************************************************************************)
(* What a stream promises: a sequence of items and a place in it.  A       *)
(* writer puts items over the ones that follow, or at the end; a reader    *)
(* takes them one after the other.  A message a stream does not understand,*)
(* and a move beyond the ends, break it: the program aborts.               *)
(***************************************************************************)
EXTENDS Integers, Sequences

CONSTANTS Item,    \* what is written and read
          Given,   \* the sequences streams are made on
          Moves    \* the arguments of position:, skip: and next:

VARIABLES text,     \* the items
          place,    \* how many of them come before the next
          writing,  \* it is a writer
          request,  \* the last message, <<selector, argument ...>>
          reply,    \* the items it answered, or a number
          broken    \* it aborted the program

vars == <<text, place, writing, request, reply, broken>>

Init ==
    /\ \/ writing = TRUE /\ text = <<>>
       \/ writing = FALSE /\ text \in Given
    /\ place = 0
    /\ request = <<"on:">>
    /\ reply = <<>>
    /\ broken = FALSE

Replies(a) == reply' = a /\ UNCHANGED <<writing, broken>>
Breaks     == broken' = TRUE /\ reply' = <<>> /\ UNCHANGED <<text, place, writing>>

Left     == Len(text) - place
Ahead(n) == [i \in 1 .. n |-> text[place + i]]

Written(x) ==
    [i \in 1 .. Len(text) + (IF Left > 0 THEN 0 ELSE 1) |-> IF i = place + 1 THEN x ELSE text[i]]

NextPut(x) ==
    /\ request' = <<"nextPut:", x>>
    /\ IF writing
       THEN text' = Written(x) /\ place' = place + 1 /\ Replies(<<x>>)
       ELSE Breaks

Takes(n) == place' = place + n /\ Replies(Ahead(n)) /\ UNCHANGED text

Next1 ==
    /\ request' = <<"next">>
    /\ IF writing THEN Breaks ELSE Takes(IF Left > 0 THEN 1 ELSE 0)

NextMany(n) ==
    /\ request' = <<"next:", n>>
    /\ IF writing /\ n > 0 THEN Breaks ELSE Takes(IF n < Left THEN n ELSE Left)

Peek ==
    /\ request' = <<"peek">>
    /\ IF Left > 0 /\ writing
       THEN Breaks
       ELSE Replies(Ahead(IF Left > 0 THEN 1 ELSE 0)) /\ UNCHANGED <<text, place>>

AtEnd ==
    /\ request' = <<"atEnd">>
    /\ Replies(<<IF Left > 0 THEN 0 ELSE 1>>)
    /\ UNCHANGED <<text, place>>

MovesTo(n) ==
    IF n \in 0 .. Len(text)
    THEN place' = n /\ Replies(<<>>) /\ UNCHANGED text
    ELSE Breaks

Position(n) == request' = <<"position:", n>> /\ MovesTo(n)
Skip(n)     == request' = <<"skip:", n>> /\ MovesTo(place + n)
Reset       == request' = <<"reset">> /\ MovesTo(0)

ResetToStart ==
    /\ writing
    /\ request' = <<"resetToStart">>
    /\ text' = <<>> /\ place' = 0
    /\ Replies(<<>>)

Size     == request' = <<"size">> /\ Replies(<<Len(text)>>) /\ UNCHANGED <<text, place>>
Contents == request' = <<"contents">> /\ Replies(text) /\ UNCHANGED <<text, place>>

(* A reader of the contents takes the place of the stream.                 *)
ReadContents ==
    /\ request' = <<"contents", "readStream">>
    /\ writing' = FALSE /\ place' = 0
    /\ reply' = <<>> /\ UNCHANGED <<text, broken>>

Next ==
    /\ ~broken
    /\ \/ \E x \in Item : NextPut(x)
       \/ \E n \in Moves : Position(n) \/ Skip(n)
       \/ \E n \in Moves \cap Nat : NextMany(n)
       \/ Next1 \/ Peek \/ AtEnd \/ Reset \/ ResetToStart
       \/ Size \/ Contents \/ ReadContents

Spec == Init /\ [][Next]_vars
=============================================================================
