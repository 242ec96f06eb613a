------------------------------ MODULE LinkedList ------------------------------
(***************************************************************************)
(* The doubly linked lists of src/function/objects (LinkedList.st,         *)
(* Link.st), and a do: over one of them whose block may change the lists:  *)
(* giving the block a link is one step, coming to the next another.        *)
(*                                                                         *)
(* The links to add are in no list: the code does not test it.  A link to  *)
(* remove, or to add beside, may be in any list or none; neither is that   *)
(* tested, and it ends the program where nil does not understand a message *)
(* or no place is found.                                                   *)
(***************************************************************************)
EXTENDS Integers, Sequences, FiniteSets

CONSTANTS Link, List, NilLink

ASSUME LinkAssumption == NilLink \notin Link /\ IsFiniteSet(Link)

VARIABLES firstLink, lastLink,  \* of each list
          prevLink, nextLink,   \* of each link
          tour,                 \* the do: under way
          quit                  \* the program ended

linkVars == <<firstLink, lastLink, prevLink, nextLink, tour, quit>>

(* Of a do:, at is the link it is at, NilLink past the last.  The rest     *)
(* does not exist in the code: the links that have been in the list since  *)
(* it began, those given to the block, whether one of the former was given *)
(* twice, and whether a link was removed while it was the one given, after *)
(* which the others are not kept.                                          *)
Tour == [on : BOOLEAN, at : Link \cup {NilLink}, stayed : SUBSET Link, given : SUBSET Link,
         twice : BOOLEAN, cut : BOOLEAN]
Q == INSTANCE SequencesExt

NoTour == [on |-> FALSE, at |-> NilLink, stayed |-> {}, given |-> {}, twice |-> FALSE, cut |-> FALSE]

\* The links from one on, each next one of the one before, as far as there
\* are links.
Chain(from, next) ==
    LET Come[i \in Nat] == IF i = 0 THEN from
                           ELSE IF Come[i - 1] = NilLink THEN NilLink ELSE next[Come[i - 1]]
        n == Cardinality({i \in 1 .. Cardinality(Link) : Come[i - 1] # NilLink})
    IN  [i \in 1 .. n |-> Come[i - 1]]

Links(l)     == Chain(firstLink[l], nextLink)
Backwards(l) == Chain(lastLink[l], prevLink)
Members(s)  == {s[i] : i \in DOMAIN s}
Listed(l)    == Members(Links(l))
Loose        == Link \ UNION {Listed(l) : l \in List}

LinkInit ==
    /\ firstLink = [l \in List |-> NilLink] /\ lastLink = [l \in List |-> NilLink]
    /\ prevLink = [x \in Link |-> NilLink] /\ nextLink = [x \in Link |-> NilLink]
    /\ tour = NoTour
    /\ quit = FALSE

Quits == quit' = TRUE /\ UNCHANGED <<firstLink, lastLink, prevLink, nextLink, tour>>
Stays == UNCHANGED <<tour, quit>>

\* addFirst: x, which has been reset.
AddFirst(l, x) ==
    /\ \/ /\ firstLink[l] = NilLink
          /\ lastLink' = [lastLink EXCEPT ![l] = x]
          /\ nextLink' = [nextLink EXCEPT ![x] = NilLink]
          /\ prevLink' = [prevLink EXCEPT ![x] = NilLink]
       \/ /\ firstLink[l] # NilLink
          /\ prevLink' = [prevLink EXCEPT ![x] = NilLink, ![firstLink[l]] = x]
          /\ nextLink' = [nextLink EXCEPT ![x] = firstLink[l]]
          /\ UNCHANGED lastLink
    /\ firstLink' = [firstLink EXCEPT ![l] = x]
    /\ Stays

\* add: or addLast: x.
AddLast(l, x) ==
    /\ \/ /\ lastLink[l] = NilLink
          /\ firstLink' = [firstLink EXCEPT ![l] = x]
          /\ prevLink' = [prevLink EXCEPT ![x] = NilLink]
          /\ nextLink' = [nextLink EXCEPT ![x] = NilLink]
       \/ /\ lastLink[l] # NilLink
          /\ nextLink' = [nextLink EXCEPT ![x] = NilLink, ![lastLink[l]] = x]
          /\ prevLink' = [prevLink EXCEPT ![x] = lastLink[l]]
          /\ UNCHANGED firstLink
    /\ lastLink' = [lastLink EXCEPT ![l] = x]
    /\ Stays

\* add: x before: y.
AddBefore(l, x, y) ==
    \/ /\ y = firstLink[l]
       /\ nextLink' = [nextLink EXCEPT ![x] = y]
       /\ prevLink' = [prevLink EXCEPT ![x] = NilLink, ![y] = x]
       /\ firstLink' = [firstLink EXCEPT ![l] = x]
       /\ UNCHANGED lastLink /\ Stays
    \/ /\ y # firstLink[l] /\ firstLink[l] # NilLink /\ prevLink[y] # NilLink
       /\ nextLink' = [nextLink EXCEPT ![x] = y, ![prevLink[y]] = x]
       /\ prevLink' = [prevLink EXCEPT ![x] = prevLink[y], ![y] = x]
       /\ UNCHANGED <<firstLink, lastLink>> /\ Stays
    \/ y # firstLink[l] /\ (firstLink[l] = NilLink \/ prevLink[y] = NilLink) /\ Quits

\* Mutant: y goes on pointing past x.
AddAfterHalf(l, x, y) ==
    \/ /\ y = lastLink[l]
       /\ prevLink' = [prevLink EXCEPT ![x] = y]
       /\ nextLink' = [nextLink EXCEPT ![x] = NilLink, ![y] = x]
       /\ lastLink' = [lastLink EXCEPT ![l] = x]
       /\ UNCHANGED firstLink /\ Stays
    \/ /\ y # lastLink[l] /\ lastLink[l] # NilLink /\ nextLink[y] # NilLink
       /\ nextLink' = [nextLink EXCEPT ![x] = nextLink[y], ![y] = x]
       /\ prevLink' = [prevLink EXCEPT ![x] = y]
       /\ UNCHANGED <<firstLink, lastLink>> /\ Stays
    \/ y # lastLink[l] /\ (lastLink[l] = NilLink \/ nextLink[y] = NilLink) /\ Quits

\* Mutant: x does not point to the link that was after y.
AddAfterShort(l, x, y) ==
    \/ /\ y = lastLink[l]
       /\ prevLink' = [prevLink EXCEPT ![x] = y]
       /\ nextLink' = [nextLink EXCEPT ![y] = x]
       /\ lastLink' = [lastLink EXCEPT ![l] = x]
       /\ UNCHANGED firstLink /\ Stays
    \/ /\ y # lastLink[l] /\ lastLink[l] # NilLink /\ nextLink[y] # NilLink
       /\ nextLink' = [nextLink EXCEPT ![y] = x]
       /\ prevLink' = [prevLink EXCEPT ![x] = y, ![nextLink[y]] = x]
       /\ UNCHANGED <<firstLink, lastLink>> /\ Stays
    \/ y # lastLink[l] /\ (lastLink[l] = NilLink \/ nextLink[y] = NilLink) /\ Quits

\* add: x after: y.
AddAfter(l, x, y) ==
    \/ /\ y = lastLink[l]
       /\ prevLink' = [prevLink EXCEPT ![x] = y]
       /\ nextLink' = [nextLink EXCEPT ![x] = NilLink, ![y] = x]
       /\ lastLink' = [lastLink EXCEPT ![l] = x]
       /\ UNCHANGED firstLink /\ Stays
    \/ /\ y # lastLink[l] /\ lastLink[l] # NilLink /\ nextLink[y] # NilLink
       /\ nextLink' = [nextLink EXCEPT ![x] = nextLink[y], ![y] = x]
       /\ prevLink' = [prevLink EXCEPT ![x] = y, ![nextLink[y]] = x]
       /\ UNCHANGED <<firstLink, lastLink>> /\ Stays
    \/ y # lastLink[l] /\ (lastLink[l] = NilLink \/ nextLink[y] = NilLink) /\ Quits

\* What removing x means to a do: under way.
Leaves(x) ==
    /\ tour' = IF ~tour.on \/ tour.cut THEN tour
               ELSE IF x = tour.at THEN [NoTour EXCEPT !.on = TRUE, !.at = x, !.cut = TRUE]
               ELSE [tour EXCEPT !.stayed = @ \ {x}]
    /\ UNCHANGED quit

\* removeFirst, of a list that is not empty; mutant: a last link is left.
RemoveFirstOnly(l, x) ==
    /\ firstLink' = [firstLink EXCEPT ![l] = nextLink[x]]
    /\ prevLink' = [prevLink EXCEPT ![x] = NilLink] /\ nextLink' = [nextLink EXCEPT ![x] = NilLink]
    /\ UNCHANGED lastLink
    /\ Leaves(x)
RemoveFirst(l, x) ==
    /\ firstLink' = [firstLink EXCEPT ![l] = nextLink[x]]
    /\ nextLink' = [nextLink EXCEPT ![x] = NilLink]
    /\ \/ /\ nextLink[x] # NilLink
          /\ prevLink' = [prevLink EXCEPT ![nextLink[x]] = NilLink, ![x] = NilLink]
          /\ UNCHANGED lastLink
       \/ /\ nextLink[x] = NilLink
          /\ prevLink' = [prevLink EXCEPT ![x] = NilLink]
          /\ lastLink' = [lastLink EXCEPT ![l] = NilLink]
    /\ Leaves(x)

RemoveLast(l, x) ==
    /\ lastLink' = [lastLink EXCEPT ![l] = prevLink[x]]
    /\ prevLink' = [prevLink EXCEPT ![x] = NilLink]
    /\ \/ /\ prevLink[x] # NilLink
          /\ nextLink' = [nextLink EXCEPT ![prevLink[x]] = NilLink, ![x] = NilLink]
          /\ UNCHANGED firstLink
       \/ /\ prevLink[x] = NilLink
          /\ nextLink' = [nextLink EXCEPT ![x] = NilLink]
          /\ firstLink' = [firstLink EXCEPT ![l] = NilLink]
    /\ Leaves(x)

Unlink(x) ==
    \/ /\ prevLink[x] # NilLink /\ nextLink[x] # NilLink
       /\ nextLink' = [nextLink EXCEPT ![prevLink[x]] = nextLink[x], ![x] = NilLink]
       /\ prevLink' = [prevLink EXCEPT ![nextLink[x]] = prevLink[x], ![x] = NilLink]
       /\ UNCHANGED <<firstLink, lastLink>>
       /\ Leaves(x)
    \/ (prevLink[x] = NilLink \/ nextLink[x] = NilLink) /\ Quits

\* remove: x.
RemoveLink(l, x) ==
    \/ x = firstLink[l] /\ RemoveFirst(l, x)
    \/ x # firstLink[l] /\ x = lastLink[l] /\ RemoveLast(l, x)
    \/ x \notin {firstLink[l], lastLink[l]} /\ Unlink(x)

RemoveEnd(l) ==
    \/ firstLink[l] = NilLink /\ Quits
    \/ firstLink[l] # NilLink /\ RemoveFirst(l, firstLink[l])
    \/ lastLink[l] # NilLink /\ RemoveLast(l, lastLink[l])

\* do: gives its block the link it is at ...
DoLinks(l) ==
    /\ ~tour.on /\ firstLink[l] # NilLink
    /\ tour' = [on |-> TRUE, at |-> firstLink[l], stayed |-> Listed(l), given |-> {firstLink[l]},
                twice |-> FALSE, cut |-> FALSE]
    /\ UNCHANGED <<firstLink, lastLink, prevLink, nextLink, quit>>

\* ... and goes to the next link after the block's value.
DoNextLink ==
    /\ tour.on /\ tour.at # NilLink
    /\ LET x == nextLink[tour.at]
       IN  tour' = IF x = NilLink \/ tour.cut THEN [tour EXCEPT !.at = x]
                   ELSE [tour EXCEPT !.at = x, !.given = @ \cup {x},
                                     !.twice = @ \/ x \in tour.stayed \cap tour.given]
    /\ UNCHANGED <<firstLink, lastLink, prevLink, nextLink, quit>>

\* It is over, or left by a non-local return.
DoLinksEnd ==
    /\ tour.on
    /\ tour' = NoTour
    /\ UNCHANGED <<firstLink, lastLink, prevLink, nextLink, quit>>

LinkNext ==
    /\ ~quit
    /\ \/ \E x \in Loose, l \in List :
             AddFirst(l, x) \/ AddLast(l, x) \/ \E y \in Link \ {x} : AddBefore(l, x, y) \/ AddAfter(l, x, y)
       \/ \E x \in Link, l \in List : RemoveLink(l, x)
       \/ \E l \in List : RemoveEnd(l) \/ DoLinks(l)
       \/ DoNextLink \/ DoLinksEnd

LinkSpec == LinkInit /\ [][LinkNext]_linkVars

-----------------------------------------------------------------------------
(* Every list reads the same from both ends, no link is in two lists, and  *)
(* a link that is in none points nowhere, whichever list was sent the      *)
(* message.                                                                *)
LinkTypeOK ==
    /\ tour \in Tour
    /\ \A l \in List : Links(l) = Q!Reverse(Backwards(l))
    /\ \A l, m \in List : l = m \/ Listed(l) \cap Listed(m) = {}
    /\ \A x \in Loose : prevLink[x] = NilLink /\ nextLink[x] = NilLink

(* do: gives its block each link once that is there all the time, whatever *)
(* the block adds and removes, unless it removes the one it was given:     *)
(* then the others may not be reached, or be given again.                  *)
StayersGiven ==
    tour.on /\ ~tour.cut =>
        /\ ~tour.twice
        /\ tour.at = NilLink => tour.stayed \subseteq tour.given

(* To its users a list is a sequence of links.                             *)
Sequenced == INSTANCE LinkSequences WITH lists <- [l \in List |-> Links(l)]
SequencesSpec == Sequenced!Spec
=============================================================================
