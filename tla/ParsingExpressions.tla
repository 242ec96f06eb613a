-------------------------- MODULE ParsingExpressions --------------------------
(***************************************************************************)
(* The parsers of src/function/jolt2: a tree of parsing expressions is     *)
(* walked over a stream of items (ParsingExpression.st, Parser.st).  What  *)
(* is recognised may be stored at once in slots of the rule that is being  *)
(* parsed, whose frame is in front of 'results', or noted as an action,    *)
(* run when all of the input is recognised (commit).  An expression that   *)
(* fails has to put input and actions back where they were.                *)
(*                                                                         *)
(* Items are atoms or sequences of items; values are written as sequences  *)
(* of words.                                                               *)
(***************************************************************************)
EXTENDS Naturals, Sequences, FiniteSets
LOCAL S == INSTANCE SequencesExt
LOCAL F == INSTANCE FiniteSetsExt

CONSTANTS Grammars,    \* the grammars: rules named "start" and "word"
          Inputs,      \* what is parsed
          MaxActions   \* bound: actions noted and not forgotten

VARIABLES grammar,      \* which grammar the parser has
          input,        \* the collection of its stream
          readPosition, \* of the stream
          results,      \* the slots of rules being parsed or run; the last first
          result,       \* what was recognised or computed last
          actions,      \* the actions up to the actionPosition
          parserAnswer  \* to the last message: whether it succeeded, and what

parserVars == <<grammar, input, readPosition, results, result, actions, parserAnswer>>

NoValue == <<>>  \* nil

-----------------------------------------------------------------------------
(* Expressions, with the messages that make them.                          *)

PeOne(atoms)            == [op |-> "one", atoms |-> atoms]  \* PeIdentity, PeEquality, PeClass
PeAny                   == [op |-> "any"]
PeRest                  == [op |-> "rest"]
PeAnd(es)               == [op |-> "and", of |-> es]
PeOr(es)                == [op |-> "or", of |-> es]
PeNot(e)                == [op |-> "not", of |-> <<e>>]
PeZeroOne(e)            == [op |-> "zeroOne", of |-> <<e>>]
PeZeroMore(e)           == [op |-> "zeroMore", of |-> <<e>>]
PeOneMore(e)            == [op |-> "oneMore", of |-> <<e>>]
PeStructure(e)          == [op |-> "structure", of |-> <<e>>]
PeName(rule)            == [op |-> "name", rule |-> rule]
PeTextResult(e)         == [op |-> "text", of |-> <<e>>]
PeTextValueAction(e)    == [op |-> "textLater", of |-> <<e>>]  \* textResult action
PeItemResult(e)         == [op |-> "item", of |-> <<e>>]
PeStoreResult(i)        == [op |-> "store", slot |-> i]
PeCollectResult(i)      == [op |-> "collect", slot |-> i]
\* A block that makes a value f of the slots, and of the result if it is last.
PeSetResult(f, slots, last) == [op |-> "set", name |-> f, slots |-> slots, last |-> last]
PeAction(e)             == [op |-> "later", act |-> e]
PeSave(n, e)            == [op |-> "save", size |-> n, of |-> <<e>>]
PePush(n)               == [op |-> "push", size |-> n]
PePop(n)                == [op |-> "pop", size |-> n]
PeTextValue(from, to)   == [op |-> "copy", from |-> from, to |-> to]

\* A string matches its characters, one after the other.
PeSequence(s) == PeAnd([i \in DOMAIN s |-> PeOne({s[i]})])

\* e * -> i, and e + -> i: the body of the loop collects what it recognised.
PeCollectResults(loop, e, i) ==
    [op |-> "collectAll", slot |-> i,
     of |-> <<[op |-> loop, of |-> <<PeAnd(<<e, PeCollectResult(i)>>)>>]>>]

-----------------------------------------------------------------------------
(* Finalising a grammar: the slots that a rule stores into while parsing,  *)
(* or while its actions run, are made room for when it is entered.         *)

Parts(e) == IF "of" \in DOMAIN e THEN e.of ELSE <<>>

RECURSIVE StoreSize(_), ActionSize(_)
StoreSize(e) ==
    IF e.op \in {"store", "collect"} THEN 1 + e.slot
    ELSE F!Max({0} \cup {StoreSize(Parts(e)[i]) : i \in DOMAIN Parts(e)})
ActionSize(e) ==
    IF e.op = "later" THEN StoreSize(e.act)
    ELSE F!Max({0} \cup {ActionSize(Parts(e)[i]) : i \in DOMAIN Parts(e)})

WithActionSize(e) ==
    LET n == ActionSize(e)
    IN  IF n = 0 THEN e ELSE PeAnd(<<PeAction(PePush(n)), e, PeAction(PePop(n))>>)
\* PeRule finaliseIn:
Finalised(e) ==
    LET sized == WithActionSize(e)
    IN  IF StoreSize(sized) = 0 THEN sized ELSE PeSave(StoreSize(sized), sized)

-----------------------------------------------------------------------------
(* parse: of each expression.  s is the parser, ok the answer.             *)

Yes(s)      == [s EXCEPT !.ok = TRUE]
No(s)       == [s EXCEPT !.ok = FALSE]
AtEnd(s)    == s.position >= Len(s.input)
Peek(s)     == s.input[s.position + 1]
Taken(s)    == [Yes(s) EXCEPT !.position = @ + 1]
Note(s, a)  == [Yes(s) EXCEPT !.actions = Append(@, a)]
WithResult(s, v) == [Yes(s) EXCEPT !.result = v]
ContentsFrom(s, from, to) ==
    LET items == SubSeq(s.input, from + 1, F!Min({to, Len(s.input)}))
    IN  [i \in DOMAIN items |-> items[i].is]

\* Parser readPosition:actionPosition:
Back(s, to) == [No(s) EXCEPT !.position = to.position, !.actions = to.actions]

PushSlots(s, n) == [Yes(s) EXCEPT !.results = [i \in 1 .. n |-> NoValue] \o @]
PopSlots(s, n)  == [s EXCEPT !.results = SubSeq(@, n + 1, Len(@))]
StoreAt(s, i, v) == [Yes(s) EXCEPT !.results[i + 1] = v]
Computed(s, e) ==
    <<e.name, "(">> \o S!FlattenSeq([i \in DOMAIN e.slots |-> s.results[e.slots[i] + 1]])
                   \o (IF e.last THEN s.result ELSE <<>>) \o <<")">>

RECURSIVE Parse(_, _, _)

ParseAnd(g, es, s) ==
    LET r == S!FoldLeft(LAMBDA t, e : IF t.ok THEN Parse(g, e, t) ELSE t, Yes(s), es)
    IN  IF r.ok THEN r ELSE Back(r, s)

ParseOr(g, es, s) == S!FoldLeft(LAMBDA t, e : IF t.ok THEN t ELSE Parse(g, e, t), No(s), es)

\* Mutant: what must not come is taken.
ParseNotTaking(g, e, s) ==
    LET r == Parse(g, e, s) IN IF r.ok THEN No(r) ELSE Yes(r)
ParseNot(g, e, s) ==
    LET r == Parse(g, e, s) IN IF r.ok THEN Back(r, s) ELSE Yes(r)

ParseZeroMore(g, e, s) ==
    LET r == Parse(g, e, s) IN IF r.ok THEN Parse(g, PeZeroMore(e), r) ELSE Yes(r)

ParseOneMore(g, e, s) ==
    LET r == Parse(g, e, s) IN IF r.ok THEN Parse(g, PeZeroMore(e), r) ELSE r

\* The items of the next item are the input meanwhile; that one stays taken.
ParseStructure(g, e, s) ==
    IF AtEnd(s) \/ Peek(s).is # "list" THEN No(s)
    ELSE LET r == Parse(g, e, [s EXCEPT !.input = Peek(s).in, !.position = 0])
         IN  [r EXCEPT !.ok = @ /\ AtEnd(r), !.input = s.input, !.position = s.position + 1]

ParseText(g, e, s) ==
    LET r == Parse(g, e, s) IN IF r.ok THEN WithResult(r, ContentsFrom(r, s.position, r.position)) ELSE r

ParseTextLater(g, e, s) ==
    LET r == Parse(g, e, s) IN IF r.ok THEN Note(r, PeTextValue(s.position, r.position)) ELSE r

ParseItem(g, e, s) ==
    LET r == Parse(g, e, s)
    IN  IF r.ok THEN WithResult(r, ContentsFrom(r, r.position - 1, r.position)) ELSE r

ParseSave(g, n, e, s) == PopSlots(Parse(g, e, PushSlots(s, n)), n)

ParseCollectAll(g, e, i, s) == Parse(g, e, StoreAt(WithResult(s, NoValue), i, NoValue))

Parse(g, e, s) ==
    CASE e.op = "one"        -> IF ~AtEnd(s) /\ Peek(s).is \in e.atoms THEN Taken(s) ELSE No(s)
      [] e.op = "any"        -> IF ~AtEnd(s) THEN Taken(s) ELSE No(s)
      [] e.op = "rest"       -> [Yes(s) EXCEPT !.position = Len(s.input)]
      [] e.op = "and"        -> ParseAnd(g, e.of, s)
      [] e.op = "or"         -> ParseOr(g, e.of, s)
      [] e.op = "not"        -> ParseNot(g, e.of[1], s)
      [] e.op = "zeroOne"    -> Yes(Parse(g, e.of[1], s))
      [] e.op = "zeroMore"   -> ParseZeroMore(g, e.of[1], s)
      [] e.op = "oneMore"    -> ParseOneMore(g, e.of[1], s)
      [] e.op = "structure"  -> ParseStructure(g, e.of[1], s)
      [] e.op = "name"       -> Parse(g, g[e.rule], s)
      [] e.op = "text"       -> ParseText(g, e.of[1], s)
      [] e.op = "textLater"  -> ParseTextLater(g, e.of[1], s)
      [] e.op = "item"       -> ParseItem(g, e.of[1], s)
      [] e.op = "later"      -> Note(s, e.act)
      [] e.op = "save"       -> ParseSave(g, e.size, e.of[1], s)
      [] e.op = "push"       -> PushSlots(s, e.size)
      [] e.op = "pop"        -> Yes(PopSlots(s, e.size))
      [] e.op = "store"      -> StoreAt(s, e.slot, s.result)
      [] e.op = "collect"    -> StoreAt(s, e.slot, s.results[e.slot + 1] \o s.result)
      [] e.op = "collectAll" -> ParseCollectAll(g, e.of[1], e.slot, s)
      [] e.op = "set"        -> WithResult(s, Computed(s, e))
      [] e.op = "copy"       -> WithResult(s, ContentsFrom(s, e.from, e.to))

-----------------------------------------------------------------------------
(* The parser *)

\* Parser on:rule:
ParserInit ==
    /\ grammar \in DOMAIN Grammars
    /\ input \in Inputs
    /\ readPosition = 0 /\ results = <<>> /\ result = NoValue /\ actions = <<>>
    /\ parserAnswer = [ok |-> FALSE, value |-> NoValue]

Rules == [rule \in DOMAIN Grammars[grammar] |-> Finalised(Grammars[grammar][rule])]

Parser == [ok |-> FALSE, input |-> input, position |-> readPosition, results |-> results,
           result |-> result, actions |-> actions]

ParserBecomes(s) ==
    /\ readPosition' = s.position /\ results' = s.results /\ result' = s.result /\ actions' = s.actions
    /\ parserAnswer' = [ok |-> s.ok, value |-> IF s.ok THEN s.result ELSE NoValue]
    /\ UNCHANGED <<grammar, input>>

\* All actions ever noted are run: nothing takes them back.
Commit(s) == S!FoldLeft(LAMBDA t, a : Parse(<<>>, a, t), s, s.actions)

\* Parser next
ParserNext ==
    LET r == Parse(Rules, PeName("start"), [Parser EXCEPT !.result = NoValue])
    IN  ParserBecomes(IF r.ok THEN Commit(r) ELSE r)

\* Grammar parse: aParser, with the grammar that starts at the other rule:
\* sent by a program between two readings of it.
GrammarParse == ParserBecomes(Parse(Rules, PeName("word"), Parser))

ParserStep == Len(actions) < MaxActions /\ (ParserNext \/ GrammarParse)

-----------------------------------------------------------------------------
(* Between messages no frame is left, whatever failed on the way: what     *)
(* commit itself looks for ("parser results not empty before commit").     *)
ParserTypeOK ==
    /\ results = <<>>
    /\ readPosition \in 0 .. Len(input)
    /\ \A i \in DOMAIN actions : actions[i].op \in {"push", "pop", "store", "set", "copy"}

(* Grammars for which the walk is known to deviate: a structure that fails *)
(* has taken an item, which only a sequence around it gives back; and a    *)
(* text in a structure is copied, later, from another input.               *)
RECURSIVE Within(_, _)
Within(e, n) ==
    {e} \cup UNION {Within(Parts(e)[i], n) : i \in DOMAIN Parts(e)}
        \cup IF e.op = "name" /\ n > 0 THEN Within(Grammars[grammar][e.rule], n - 1) ELSE {}
Regular ==
    \A rule \in DOMAIN Grammars[grammar] :
        LET inside == Within(Grammars[grammar][rule], 0)
        IN  /\ Grammars[grammar][rule].op # "structure"
            /\ \A e \in inside : e.op # "and" => \A i \in DOMAIN Parts(e) : Parts(e)[i].op # "structure"
            /\ \A e \in inside : e.op = "structure" => \A d \in Within(e, 2) : d.op # "textLater"

(* What the parser takes and answers is what the grammar means, as if no   *)
(* alternative but the successful ones had ever been tried; once actions   *)
(* were noted, later answers are not what they should be.                  *)
Meaning == INSTANCE Recognition WITH
    rules <- Grammars[grammar], committed <- actions = <<>>, position <- readPosition, answer <- parserAnswer
Recognises ==
    [][parserVars' # parserVars /\ Regular =>
          /\ ParserNext => Meaning!Read
          /\ GrammarParse => Meaning!Apply]_parserVars
=============================================================================
