------------------------------- MODULE Streams -------------------------------
(***************************************************************************)
(* ReadStream and WriteStream of the st80 library (PositionableStream.st,  *)
(* ReadStream.st, WriteStream.st): a place in an array, which a writer     *)
(* grows as it fills up.  A writer notes how far it has written only when  *)
(* it is asked for its size or contents, or moved: until then its          *)
(* readLimit lags behind.                                                  *)
(*                                                                         *)
(* nextPutAll:, print: and the like send nextPut: for each item.           *)
(***************************************************************************)
EXTENDS Integers, Sequences

CONSTANTS Item,        \* what is written and read
          Blank,       \* what a new array holds
          Given,       \* the arrays streams are made on
          Moves,       \* the arguments of position:, skip: and next:
          LeastGrowth, \* 20 in the code
          MostGrowth,  \* 1000000 in the code
          MaxArray     \* arrays longer than this are not written to

ASSUME GivenAssumption == Given \subseteq Seq(Item \cup {Blank})
ASSUME GrowthAssumption == /\ LeastGrowth \in Nat \ {0} /\ MostGrowth \in Nat \ {0}
                           /\ MaxArray \in Nat
ASSUME MovesAssumption == Moves \subseteq Int

VARIABLES collection, position, readLimit, writeLimit,  \* the stream
          writes,   \* it is a WriteStream
          sent,     \* the last message, <<selector, argument ...>>
          answered, \* the items it answered, or a number
          stopped   \* it aborted the program

streamVars == <<collection, position, readLimit, writeLimit, writes, sent, answered, stopped>>

Further(m, n)  == IF m > n THEN m ELSE n
Nearer(m, n) == IF m < n THEN m ELSE n

(* How far items have been written.                                        *)
Limit == IF writes THEN Further(readLimit, position) ELSE readLimit
AtEndNow == position >= readLimit

StreamInit ==
    /\ collection \in Given
    /\ writes \in BOOLEAN
    /\ position = 0
    /\ readLimit = IF writes THEN 0 ELSE Len(collection)
    /\ writeLimit = IF writes THEN Len(collection) ELSE 0
    /\ sent = <<"on:">>
    /\ answered = <<>>
    /\ stopped = FALSE

Answers(a) == answered' = a /\ UNCHANGED <<writes, stopped>>
Aborts     == stopped' = TRUE /\ answered' = <<>> /\ UNCHANGED writes
Rests      == UNCHANGED <<collection, position, readLimit, writeLimit>>

-----------------------------------------------------------------------------
(* Writing                                                                 *)

WiderSize == Len(collection) + Nearer(Further(Len(collection), LeastGrowth), MostGrowth)

Wider == [i \in 1 .. WiderSize |-> IF i <= Len(collection) THEN collection[i] ELSE Blank]

\* Mutant: the limit noted is that of the array before it grew.
NextPutLate(x) ==
    /\ writes /\ Len(collection) <= MaxArray
    /\ sent' = <<"nextPut:", x>>
    /\ collection' = [(IF position >= writeLimit THEN Wider ELSE collection)
                         EXCEPT ![position + 1] = x]
    /\ writeLimit' = Len(collection)
    /\ position' = position + 1
    /\ Answers(<<x>>)
    /\ UNCHANGED readLimit
StreamNextPut(x) ==
    /\ writes /\ Len(collection) <= MaxArray
    /\ sent' = <<"nextPut:", x>>
    /\ collection' = [(IF position >= writeLimit THEN Wider ELSE collection)
                         EXCEPT ![position + 1] = x]
    /\ writeLimit' = Len(collection')
    /\ position' = position + 1
    /\ Answers(<<x>>)
    /\ UNCHANGED readLimit

\* A ReadStream inherits subclassResponsibility:.
NextPutRefused(x) ==
    /\ ~writes
    /\ sent' = <<"nextPut:", x>>
    /\ Aborts /\ Rests

StreamResetToStart ==
    /\ writes
    /\ sent' = <<"resetToStart">>
    /\ readLimit' = 0 /\ position' = 0
    /\ Answers(<<>>)
    /\ UNCHANGED <<collection, writeLimit>>

-----------------------------------------------------------------------------
(* Reading                                                                 *)

Item1 == IF AtEndNow THEN <<>> ELSE <<collection[position + 1]>>

StreamNext1 ==
    /\ sent' = <<"next">>
    /\ IF writes THEN Aborts /\ Rests
       ELSE /\ Answers(Item1)
            /\ position' = position + Len(Item1)
            /\ UNCHANGED <<collection, readLimit, writeLimit>>

\* PositionableStream next: sends next, which only a ReadStream understands.
StreamNextMany(n) ==
    LET upto == Nearer(position + n, readLimit)
    IN  /\ sent' = <<"next:", n>>
        /\ IF writes
           THEN (IF n > 0 THEN Aborts ELSE Answers(<<>>)) /\ Rests
           ELSE /\ Answers([i \in 1 .. upto - position |-> collection[position + i]])
                /\ position' = upto
                /\ UNCHANGED <<collection, readLimit, writeLimit>>

StreamPeek ==
    /\ sent' = <<"peek">>
    /\ IF writes /\ ~AtEndNow THEN Aborts ELSE Answers(Item1)
    /\ Rests

StreamAtEnd ==
    /\ sent' = <<"atEnd">>
    /\ Answers(<<IF AtEndNow THEN 1 ELSE 0>>)
    /\ Rests

-----------------------------------------------------------------------------
(* Moving                                                                  *)

\* Mutant: a writer that is moved forgets what it has written since.
MoveToForgetting(n) ==
    /\ UNCHANGED <<collection, writeLimit, readLimit>>
    /\ IF n \in 0 .. readLimit THEN position' = n /\ Answers(<<>>)
                               ELSE UNCHANGED position /\ Aborts
MoveTo(n) ==
    /\ UNCHANGED <<collection, writeLimit>>
    /\ readLimit' = Limit
    /\ IF n \in 0 .. Limit THEN position' = n /\ Answers(<<>>)
                           ELSE UNCHANGED position /\ Aborts

StreamPosition(n) == sent' = <<"position:", n>> /\ MoveTo(n)
StreamSkip(n)     == sent' = <<"skip:", n>> /\ MoveTo(position + n)

StreamReset ==
    /\ sent' = <<"reset">>
    /\ readLimit' = Limit /\ position' = 0
    /\ Answers(<<>>)
    /\ UNCHANGED <<collection, writeLimit>>

-----------------------------------------------------------------------------
(* Asking                                                                  *)

StreamSize ==
    /\ sent' = <<"size">>
    /\ readLimit' = Limit
    /\ Answers(<<Limit>>)
    /\ UNCHANGED <<collection, position, writeLimit>>

Copy == [i \in 1 .. Limit |-> collection[i]]

StreamContents ==
    /\ sent' = <<"contents">>
    /\ readLimit' = Limit
    /\ Answers(Copy)
    /\ UNCHANGED <<collection, position, writeLimit>>

\* contents readStream
StreamReadContents ==
    /\ sent' = <<"contents", "readStream">>
    /\ writes' = FALSE
    /\ collection' = Copy
    /\ position' = 0 /\ readLimit' = Limit /\ writeLimit' = 0
    /\ answered' = <<>> /\ UNCHANGED stopped

StreamNext ==
    /\ ~stopped
    /\ \/ \E x \in Item : StreamNextPut(x) \/ NextPutRefused(x)
       \/ \E n \in Moves : StreamPosition(n) \/ StreamSkip(n)
       \/ \E n \in Moves \cap Nat : StreamNextMany(n)
       \/ StreamNext1 \/ StreamPeek \/ StreamAtEnd \/ StreamReset \/ StreamResetToStart
       \/ StreamSize \/ StreamContents \/ StreamReadContents

StreamSpec == StreamInit /\ [][StreamNext]_streamVars

-----------------------------------------------------------------------------
(* The limits stay inside the array, and a reader inside its limit.        *)
StreamTypeOK ==
    /\ collection \in Seq(Item \cup {Blank})
    /\ writes \in BOOLEAN
    /\ stopped \in BOOLEAN
    /\ position \in 0 .. Len(collection)
    /\ readLimit \in 0 .. Len(collection)
    /\ writes => writeLimit = Len(collection)
    /\ ~writes => position <= readLimit

(* A stream is a tape: what was written before a move back is still there  *)
(* after it, the padding of a grown array is never read, and every message *)
(* answers what it answers of the sequence of the items written.           *)
T == INSTANCE Tape WITH text <- Copy, place <- position, writing <- writes,
                        request <- sent, reply <- answered, broken <- stopped
TapeSpec == T!Spec
=============================================================================
