----------------------------- MODULE Recognition -----------------------------
(***************************************************************************)
(* What a parsing expression grammar means: where an expression ends that  *)
(* begins somewhere, the value it has, and the actions of the parts that   *)
(* it consists of.  An alternative that fails has no part in it; a slot or *)
(* value it touched is unknown until it is stored into again.              *)
(***************************************************************************)
EXTENDS Integers, Sequences
LOCAL S == INSTANCE SequencesExt

VARIABLES rules,      \* the expressions of the rules, not finalised
          committed,  \* no action was noted before
          input, position, result, answer

NoMatch == -1
Unknown == <<"?">>
Slots   == 0 .. 2
Fresh   == [i \in Slots |-> <<>>]

\* d after an attempt from it that came to r and failed.
Blur(v, w) == IF v = w THEN v ELSE Unknown
Despite(d, r) == [d EXCEPT !.env = [i \in Slots |-> Blur(@[i], r.env[i])], !.value = Blur(@, r.value)]
Fails(d, r) == [Despite(d, r) EXCEPT !.end = NoMatch]

Computed(e, env, value) ==
    <<e.name, "(">> \o S!FlattenSeq([i \in DOMAIN e.slots |-> env[e.slots[i]]])
                   \o (IF e.last THEN value ELSE <<>>) \o <<")">>

Acts(e, env, value) ==
    CASE e.op = "store" -> [env |-> [env EXCEPT ![e.slot] = value], value |-> value]
      [] e.op = "set"   -> [env |-> env, value |-> Computed(e, env, value)]

\* d: where to begin, the slots and the value so far, and the actions.
RECURSIVE Derive(_, _, _)
Derive(e, in, d) ==
    LET sub     == Derive(e.of[1], in, d)
        matched == sub.end # NoMatch
        there   == d.end < Len(in)
        words   == [i \in 1 .. sub.end - d.end |-> in[d.end + i].is]
        first(t, f) == IF t.end = NoMatch THEN LET r == Derive(f, in, [t EXCEPT !.end = d.end])
                                               IN  IF r.end = NoMatch THEN Fails(t, r) ELSE r
                       ELSE t
        then(t, f)  == IF t.end = NoMatch THEN t ELSE Derive(f, in, t)
    IN
    CASE e.op = "one"  -> IF there /\ in[d.end + 1].is \in e.atoms THEN [d EXCEPT !.end = @ + 1]
                          ELSE Fails(d, d)
      [] e.op = "any"  -> IF there THEN [d EXCEPT !.end = @ + 1] ELSE Fails(d, d)
      [] e.op = "rest" -> [d EXCEPT !.end = Len(in)]
      [] e.op = "and"  -> LET r == S!FoldLeft(then, d, e.of) IN IF r.end = NoMatch THEN Fails(d, r) ELSE r
      [] e.op = "or"   -> S!FoldLeft(first, [d EXCEPT !.end = NoMatch], e.of)
      [] e.op = "not"  -> IF matched THEN Fails(d, sub) ELSE Despite(d, sub)
      [] e.op = "zeroOne"   -> IF matched THEN sub ELSE Despite(d, sub)
      [] e.op = "zeroMore"  -> IF matched THEN Derive(e, in, sub) ELSE Despite(d, sub)
      [] e.op = "oneMore"   -> IF matched THEN Derive([e EXCEPT !.op = "zeroMore"], in, sub) ELSE Fails(d, sub)
      [] e.op = "structure" ->
            IF ~there \/ in[d.end + 1].is # "list" THEN Fails(d, d)
            ELSE LET r == Derive(e.of[1], in[d.end + 1].in, [d EXCEPT !.end = 0])
                 IN  IF r.end = Len(in[d.end + 1].in) THEN [r EXCEPT !.end = d.end + 1] ELSE Fails(d, r)
      [] e.op = "name"      ->
            LET r == [Derive(rules[e.rule], in, [d EXCEPT !.env = Fresh, !.log = <<>>]) EXCEPT !.env = d.env]
            IN  IF r.end = NoMatch THEN Fails(d, r)
                ELSE [r EXCEPT !.log = Append(d.log, [op |-> "rule", log |-> @])]
      [] e.op = "text"      -> IF matched THEN [sub EXCEPT !.value = words] ELSE Fails(d, sub)
      [] e.op = "item"      -> IF matched THEN [sub EXCEPT !.value = <<in[sub.end].is>>] ELSE Fails(d, sub)
      [] e.op = "textLater" -> IF matched THEN [sub EXCEPT !.log = Append(@, [op |-> "text", text |-> words])]
                               ELSE Fails(d, sub)
      [] e.op = "later"     -> [d EXCEPT !.log = Append(@, [op |-> "act", act |-> e.act])]
      [] e.op \in {"store", "set"} ->
            LET a == Acts(e, d.env, d.value) IN [d EXCEPT !.env = a.env, !.value = a.value]
      [] e.op = "collect"    -> [d EXCEPT !.env[e.slot] = @ \o d.value]
      [] e.op = "collectAll" -> Derive(e.of[1], in, [d EXCEPT !.env[e.slot] = <<>>, !.value = <<>>])

\* The value after the actions of a rule, which has slots of its own.
RECURSIVE Run(_, _)
Run(log, value) ==
    S!FoldLeft(LAMBDA t, a : CASE a.op = "rule" -> [t EXCEPT !.value = Run(a.log, @)]
                               [] a.op = "text" -> [t EXCEPT !.value = a.text]
                               [] a.op = "act"  -> Acts(a.act, t.env, t.value),
               [env |-> Fresh, value |-> value], log).value

-----------------------------------------------------------------------------
Derived(rule, value) ==
    Derive([op |-> "name", rule |-> rule], input, [end |-> position, env |-> Fresh, value |-> value, log |-> <<>>])

Is(v, value) == (\A i \in DOMAIN value : value[i] # "?") => v = value

\* The next of what the grammar describes, and the value it has.
Read ==
    LET d == Derived("start", <<>>)
    IN  /\ answer'.ok = (d.end # NoMatch)
        /\ position' = IF d.end = NoMatch THEN position ELSE d.end
        /\ (d.end # NoMatch /\ committed) => Is(answer'.value, Run(d.log, d.value))

\* The same with another rule, whose actions are left for later.
Apply ==
    LET d == Derived("word", result)
    IN  /\ answer'.ok = (d.end # NoMatch)
        /\ position' = IF d.end = NoMatch THEN position ELSE d.end
        /\ (d.end # NoMatch) => Is(answer'.value, d.value)
=============================================================================
