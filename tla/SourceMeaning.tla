---------------------------- MODULE SourceMeaning ----------------------------
(***************************************************************************)
(* What executing the statements of a method or block means, and that the  *)
(* C that OpenCode makes of them does the same.                            *)
(***************************************************************************)
EXTENDS OpenCode
LOCAL S == INSTANCE SequencesExt

(* The meaning of the source: what executing the statements of a unit      *)
(* sends, assigns and answers if sends are answered as they were in run.   *)

RECURSIVE Eval(_, _)
Sequence(stmts, s) ==
    S!FoldLeft(LAMBDA r, n : IF r.out # <<>> THEN r ELSE Eval(n, r), [s EXCEPT !.v = Nil], stmts)

Message(sel, rcv, args, s) ==
    LET k == Len(s.sent) + 1
    IN  IF k > Len(run.log) THEN [s EXCEPT !.out = <<"more">>]
        ELSE [s EXCEPT !.v = run.log[k].ans,
                       !.sent = Append(@, [sel |-> sel, rcv |-> rcv, args |-> args,
                                           ans |-> run.log[k].ans])]

Arguments(ns, s) ==
    S!FoldLeft(LAMBDA r, n : IF r.s.out # <<>> THEN r
                             ELSE LET x == Eval(n, r.s) IN [s |-> x, vs |-> Append(r.vs, x.v)],
               [s |-> s, vs |-> <<>>], ns)

Sent(sel, rcv, args, s) ==
    LET all == Arguments(args, s)
    IN  IF all.s.out # <<>> THEN all.s ELSE Message(sel, rcv, all.vs, all.s)

RECURSIVE While(_, _, _, _)
While(test, body, sense, s) ==
    LET t == Sequence(test, s)
        b == Sequence(body, t)
    IN  CASE t.out # <<>> -> t
          [] t.out = <<>> /\ (t.v # Nil) # sense -> [t EXCEPT !.v = Nil]
          [] t.tests = MaxTests -> [t EXCEPT !.out = <<"more">>]
          [] b.out # <<>> -> b
          [] OTHER -> While(test, body, sense, [b EXCEPT !.tests = @ + 1])

\* A message to or with literal blocks that the compiler may not send.
Control(n) ==
    /\ n.cascades = <<>>
    /\ CASE n.name \in {"value", "whileTrue", "whileFalse", "whileTrue:", "whileFalse:"} ->
                \A i \in DOMAIN n.sub : n.sub[i].kind = "block" /\ n.sub[i].name = "open"
         [] n.name \in {"ifTrue:", "ifFalse:", "and:", "or:", "ifTrue:ifFalse:", "ifFalse:ifTrue:"} ->
                \A i \in 2 .. Len(n.sub) : n.sub[i].kind = "block" /\ n.sub[i].name = "open"
         [] OTHER -> FALSE

Controlled(n, s) ==
    LET r == Eval(n.sub[1], s)
        block(i) == Sequence(n.sub[i].sub, r)
        holds == r.v # Nil
        either(yes, no) == IF holds THEN yes ELSE no
        none == [r EXCEPT !.v = Nil]
        loop(body, sense) == While(n.sub[1].sub, body, sense, s)
    IN  CASE n.name = "value"       -> Sequence(n.sub[1].sub, s)
          [] n.name = "whileTrue"   -> loop(<<>>, TRUE)
          [] n.name = "whileFalse"  -> loop(<<>>, FALSE)
          [] n.name = "whileTrue:"  -> loop(n.sub[2].sub, TRUE)
          [] n.name = "whileFalse:" -> loop(n.sub[2].sub, FALSE)
          [] r.out # <<>>           -> r
          [] n.name = "ifTrue:"     -> either(block(2), none)
          [] n.name = "ifFalse:"    -> either(none, block(2))
          [] n.name = "and:"        -> either(block(2), r)
          [] n.name = "or:"         -> either(r, block(2))
          [] n.name = "ifTrue:ifFalse:" -> either(block(2), block(3))
          [] n.name = "ifFalse:ifTrue:" -> either(block(3), block(2))

Binary(n, s) ==
    LET l == Eval(n.sub[1], s)
        r == Eval(n.sub[2], l)
        sum == l.v[2] + r.v[2]
    IN  CASE l.out # <<>> -> l
          [] r.out # <<>> -> r
          [] n.name = "==" -> [r EXCEPT !.v = Boolean(l.v = r.v)]
          [] n.name = "~~" -> [r EXCEPT !.v = Boolean(l.v # r.v)]
          [] OTHER -> IF IsInt(l.v) /\ IsInt(r.v) /\ sum \in SmallInt
                      THEN [r EXCEPT !.v = <<"int", sum>>]
                      ELSE Message(n.name, l.v, <<r.v>>, r)

Cascade(n, s) ==
    LET rcv == Eval(n.sub[1], s)
        first == Sent(n.name, rcv.v, Tail(n.sub), rcv)
    IN  IF rcv.out # <<>> THEN rcv
        ELSE S!FoldLeft(LAMBDA r, c : IF r.out # <<>> THEN r ELSE Sent(c.name, rcv.v, c.sub, r),
                        first, n.cascades)

Eval(n, s) ==
    LET value == Eval(n.sub[1], s)
    IN  CASE n.kind = "variable" -> [s EXCEPT !.v = IF n.name = "nil" THEN Nil ELSE s.vars[n.name]]
          [] n.kind = "literal"  -> [s EXCEPT !.v = <<"int", n.value>>]
          [] n.kind = "block"    -> [s EXCEPT !.v = <<"block", n.sub>>]
          [] n.kind = "assign"   -> IF value.out # <<>> THEN value
                                    ELSE [value EXCEPT !.vars[n.name] = value.v]
          [] n.kind = "return"   -> IF value.out # <<>> THEN value
                                    ELSE [value EXCEPT !.out =
                                            <<IF s.level > 1 THEN "nonlocal" ELSE "local", value.v>>]
          [] OTHER -> CASE Control(n) -> Controlled(n, s)
                        [] n.name \in {"==", "~~", "+"} /\ n.cascades = <<>> -> Binary(n, s)
                        [] OTHER -> Cascade(n, s)

-----------------------------------------------------------------------------
(* A unit does what its source says: the same sends in the same order, with *)
(* the same receivers and arguments, the same variables in the end and the  *)
(* same answer, to the same place.                                          *)
CodeAgrees ==
    run.out \notin {<<>>, <<"cut">>} =>
        LET u == units[run.unit]
            s == Sequence(u.source, [v |-> Nil, vars |-> run.start, sent |-> <<>>, tests |-> 0,
                                     level |-> u.level, out |-> <<>>])
            falls == <<"local", IF u.level > 1 THEN s.v ELSE s.vars["self"]>>
        IN  /\ run.out = IF s.out = <<>> THEN falls ELSE s.out
            /\ run.vars = s.vars
            /\ run.log = s.sent
=============================================================================
