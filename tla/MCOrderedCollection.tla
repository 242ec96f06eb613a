------------------------- MODULE MCOrderedCollection -------------------------
(* Instances of OrderedCollection for TLC. *)
EXTENDS OrderedCollection

S == INSTANCE SequencesExt

CONSTANTS x, y

MCSizes == {0, 1, 2}
DefaultSize == {2}
MCIndex == 0 .. 3

(***************************************************************************)
(* CopyOf is what copyFrom:to: builds by repeated addLast:.                *)
(***************************************************************************)
Added(c, e) ==
  LET d == IF c.lastIndex = Len(c.array) THEN MakeRoomAtLast(c) ELSE c
  IN Stored(d, d.lastIndex + 1, e, d.firstIndex, d.lastIndex + 1)

ASSUME CopyByAdding ==
  \A n \in 1 .. 12 :
    LET c == [array |-> [i \in 1 .. 12 |-> i], firstIndex |-> 1, lastIndex |-> 12]
    IN CopyOf(c, 1, n) = S!FoldLeft(Added, New(n), [i \in 1 .. n |-> i])
=============================================================================
