----------------------------- MODULE MCLibrary -----------------------------
(* Objects of the libraries, and the table of selectors: each behaviour   *)
(* uses one of them, as they share no state.                               *)
EXTENDS HashSet, Numbers, Streams, Selectors, AVLTree, SlotDictionary, LinkedList,
        Dictionary, ParsingExpressions, TLC

CONSTANTS x1, x2, x3, x4
VARIABLE subject

libraryVars == <<subject, vars, numberVars, streamVars, selectorVars, treeVars, slotVars, linkVars,
                 dictVars, parserVars>>

\* A behaviour of one subject: the others begin in one way, and rest.
NoSet    == subject = "set" \/ array = Empty(1)
NoNumber == subject = "number" \/ (acc = Small(0) /\ last = [op |-> "none", count |-> 0, left |-> 0, right |-> 0])
NoStream == subject = "stream" \/ (collection = <<>> /\ writes)
NoTrees  == subject = "tree" \/ order = "<"
NoSlotted == subject = "slots" \/ Len(slots) = 2
NoParser == subject = "parser" \/ (grammar = <<1, 1, 2, 1>> /\ Len(input) = 4)

LibraryInit ==
    /\ subject \in {"set", "number", "stream", "selectors", "tree", "slots", "list", "dictionaries",
                   "parser"}
    /\ ParserInit /\ NoParser
    /\ Init /\ NoSet
    /\ IF subject = "number" THEN NumberInit ELSE TRUE
    /\ NoNumber
    /\ StreamInit /\ NoStream
    /\ SelectorInit
    /\ TreeInit /\ NoTrees
    /\ SlotInit /\ NoSlotted
    /\ LinkInit /\ DictInit

LibraryNext ==
    /\ UNCHANGED subject
    /\ \/ subject = "set" /\ Next
          /\ UNCHANGED <<numberVars, streamVars, selectorVars, treeVars, slotVars, linkVars, dictVars, parserVars>>
       \/ subject = "number" /\ NumberNext
          /\ UNCHANGED <<vars, streamVars, selectorVars, treeVars, slotVars, linkVars, dictVars, parserVars>>
       \/ subject = "stream" /\ StreamNext
          /\ UNCHANGED <<vars, numberVars, selectorVars, treeVars, slotVars, linkVars, dictVars, parserVars>>
       \/ subject = "selectors" /\ SelectorNext
          /\ UNCHANGED <<vars, numberVars, streamVars, treeVars, slotVars, linkVars, dictVars, parserVars>>
       \/ subject = "tree" /\ TreeNext
          /\ UNCHANGED <<vars, numberVars, streamVars, selectorVars, slotVars, linkVars, dictVars, parserVars>>
       \/ subject = "slots" /\ SlotNext
          /\ UNCHANGED <<vars, numberVars, streamVars, selectorVars, treeVars, linkVars, dictVars, parserVars>>
       \/ subject = "list" /\ LinkNext
          /\ UNCHANGED <<vars, numberVars, streamVars, selectorVars, treeVars, slotVars, dictVars, parserVars>>
       \/ subject = "dictionaries" /\ DictNext
          /\ UNCHANGED <<vars, numberVars, streamVars, selectorVars, treeVars, slotVars, linkVars,
                         parserVars>>
       \/ subject = "parser" /\ ParserStep
          /\ UNCHANGED <<vars, numberVars, streamVars, selectorVars, treeVars, slotVars, linkVars, dictVars>>

LibrarySpec == LibraryInit /\ [][LibraryNext]_libraryVars

(* Tallies, positions and limits stay inside the arrays they count, whose  *)
(* counted elements are objects and whose others are nil, or never written;*)
(* a dictionary's associations are where their keys are looked for; and a  *)
(* link is in no two places.                                               *)
LibraryTypeOK ==
    /\ TypeOK /\ StreamTypeOK /\ SelectorTypeOK /\ SlotTypeOK
    /\ subject = "list" => LinkTypeOK
    /\ subject = "dictionaries" => DictTypeOK
    /\ subject = "parser" => ParserTypeOK

-----------------------------------------------------------------------------
\* Collisions at every size, with chains around the end of the array: at
\* size 4 all but x4 start at the last slot, at size 8 x2 and x3 do.
MCHash == (x1 :> 3) @@ (x2 :> 7) @@ (x3 :> 7) @@ (x4 :> 2)
MCSizes == {0, 1, 2, 4}

\* The ends of each representation and the digits at which estimates of a
\* quotient are corrected, twice (419 // 35), or undone (258 // 259).
MCMagnitudes == {0, 1, 2, 3, 7, 8, 15, 16, 17, 31, 33, 35, 62, 63, 64, 65, 100, 127, 128, 129, 255,
                 256, 257, 258, 259, 320, 419, 447, 512, 1000, 1023, 1024, 2047, 2048, 3855, 4080, 4095}
MCOperands == MCMagnitudes \cup {-m : m \in MCMagnitudes}

MCMoves == -2 .. 3
MCGiven == UNION {[1 .. n -> {Blank} \cup Item] : n \in 0 .. 2}

\* What a word is: an item; a text; a text that is used later; a list of
\* items up to b; and brackets a ... b, with a word inside.
MCWords == <<
    PeAnd(<<PeItemResult(PeAny), PeStoreResult(0), PeSetResult("i", <<0>>, FALSE)>>),
    PeAnd(<<PeTextResult(PeOneMore(PeOne({"a"}))), PeSetResult("t", <<>>, TRUE)>>),
    PeAnd(<<PeTextValueAction(PeOneMore(PeOne({"a"}))), PeAction(PeStoreResult(0)),
            PeAction(PeSetResult("l", <<0>>, FALSE))>>),
    PeAnd(<<PeOne({"a"}), PeCollectResults("zeroMore", PeAnd(<<PeNot(PeOne({"b"})), PeItemResult(PeAny)>>), 0),
            PeSetResult("c", <<0>>, FALSE)>>),
    PeOr(<<PeAnd(<<PeOne({"a"}), PeName("word"), PeStoreResult(1), PeOne({"b"}), PeSetResult("n", <<1>>, FALSE),
                   PeAction(PeSetResult("m", <<>>, TRUE))>>),
           PeAnd(<<PeSequence(<<"a", "b">>), PeSetResult("e", <<>>, FALSE)>>)>>) >>
\* What a start is made of: characters, words that are stored at once or
\* later, an item, structures, and an action before what may fail.
MCParts == <<
    PeOne({"a"}),
    PeOne({"b"}),
    PeAnd(<<PeName("word"), PeStoreResult(0)>>),
    PeAnd(<<PeName("word"), PeAction(PeStoreResult(0))>>),
    PeAnd(<<PeItemResult(PeAny), PeStoreResult(1)>>),
    PeAnd(<<PeStructure(PeName("word")), PeStoreResult(0)>>),
    PeStructure(PeOne({"a"})),
    PeAnd(<<PeAction(PeSetResult("k", <<>>, FALSE)), PeOne({"b"})>>) >>
MCForm(form, p, q) ==
    LET read(f) == PeSetResult(f, [i \in 1 .. StoreSize(PeAnd(<<p, q>>)) |-> i - 1], FALSE)
        run     == PeAction(PeSetResult("g", IF ActionSize(PeAnd(<<p, q>>)) = 0 THEN <<>> ELSE <<0>>, TRUE))
    IN  CASE form = 1 -> PeAnd(<<p, q, read("f"), run>>)
          [] form = 2 -> PeAnd(<<PeOr(<<p, q>>), read("f")>>)
          [] form = 3 -> PeAnd(<<PeZeroOne(p), q, read("f")>>)
          [] form = 4 -> PeAnd(<<PeNot(p), q, read("f")>>)
          [] form = 5 -> PeOr(<<PeAnd(<<p, PeOne({"b"}), run>>), PeAnd(<<q, PeRest>>)>>)
          [] form = 6 -> PeAnd(<<PeZeroMore(p), q, read("f")>>)
          [] form = 7 -> PeAnd(<<PeOr(<<PeNot(p), q>>), read("f")>>)
\* Where no part has a word, it makes no difference which.
MCKeys == {k \in (1 .. 7) \X (1 .. 8) \X (1 .. 8) \X (1 .. 5) :
              k[2] # k[3] /\ (k[4] > 1 => {k[2], k[3]} \cap {3, 4, 6} # {})}
MCGrammars ==
    [k \in MCKeys |-> [start |-> MCForm(k[1], MCParts[k[2]], MCParts[k[3]]), word |-> MCWords[k[4]]]]
MCInputs ==
    LET a == [is |-> "a", in |-> <<>>]
        b == [is |-> "b", in |-> <<>>]
        list(items) == [is |-> "list", in |-> items]
    IN  {<<a, a, b, b>>, <<list(<<a, b>>), list(<<a>>), b>>}
=============================================================================
