------------------------------ MODULE OpenCode ------------------------------
(***************************************************************************)
(* The translation of a method by idc, and the execution of the C it emits.*)
(* Encoding (idc/Encoder.st, and encode: of the parse nodes) gives every   *)
(* node the C variable _1, _2, ... that will hold its value, as on a stack;*)
(* sends of and:, whileTrue: ... to literal blocks, of == and of tagged    *)
(* arithmetic are opened out instead of sent (idc/SendNode.st).  Generation*)
(* (generate: of the nodes, idc/CCodeGenerator.st) emits the C.            *)
(*                                                                         *)
(* The units of a method are its own body and that of every literal block  *)
(* in it.  One of them is executed, its sends answered by anything; what   *)
(* it should do is in module SourceMeaning.                                *)
(***************************************************************************)
EXTENDS TaggedArithmetic, Sequences

CONSTANTS Names,      \* of variables and messages
          Methods,    \* the statement sequences that are translated
          Levels,     \* bound: how deep their nodes are inside one another
          Variables,  \* the variables in them; self is one
          MaxSends,   \* sends of an execution
          MaxTests    \* loop tests of an execution

VARIABLES method,   \* the statements of the method
          units,    \* what has been translated: <<>> before that
          fault,    \* the internal compiler errors raised by translating it
          run       \* the execution of a unit

codeVars == <<method, units, fault, run>>

-----------------------------------------------------------------------------
(* Parse nodes.  sub are the parts: the value of an assignment or return,  *)
(* the receiver and arguments of a send, the statements of a block.  loc   *)
(* and gen are assigned by encoding.                                       *)

Node(kind, name, sub) ==
    [kind |-> kind, name |-> name, value |-> 0, sub |-> sub, cascades |-> <<>>, loc |-> 0, gen |-> "send"]
Var(x)           == Node("variable", x, <<>>)
Num(i)           == [Node("literal", "", <<>>) EXCEPT !.value = i]
Assign(x, v)     == Node("assign", x, <<v>>)
Return(v)        == Node("return", "^", <<v>>)
LocalReturn(v)   == Node("localReturn", "^", <<v>>)
Send(sel, parts) == Node("send", sel, parts)
Cascaded(sel, args) == [name |-> sel, sub |-> args]    \* a further message to the receiver
Block(stmts)     == Node("block", "open", stmts)       \* no arguments or temporaries
ClosedBlock(stmts) == Node("block", "closed", stmts)   \* with arguments or temporaries

IsOpenCodable(n) == n.kind = "block" /\ n.name = "open"
Last(s)          == s[Len(s)]

(* The forms of the selectors that are opened out, and how many parts they *)
(* have.                                                                   *)
Opens(sel) ==
    CASE sel \in {"ifTrue:", "ifFalse:"}               -> "if"
      [] sel \in {"and:", "or:"}                       -> "and"
      [] sel \in {"ifTrue:ifFalse:", "ifFalse:ifTrue:"} -> "ifElse"
      [] sel = "value"                                 -> "value"
      [] sel \in {"whileTrue", "whileFalse"}           -> "loop"
      [] sel \in {"whileTrue:", "whileFalse:"}         -> "loopBody"
      [] sel \in {"==", "~~"}                          -> "identity"
      [] sel = "+"                                     -> "tagged"
      [] OTHER                                         -> "send"
Arity(form) == CASE form \in {"value", "loop"} -> 1 [] form = "ifElse" -> 3 [] OTHER -> 2
OnTrue == {"ifTrue:", "and:", "ifTrue:ifFalse:", "whileTrue", "whileTrue:", "=="}

(* encodeSpecial: the form of a send, if the receiver and the arguments    *)
(* are as the form needs them and no cascade follows.                      *)
AllOpen(s) == \A i \in DOMAIN s : IsOpenCodable(s[i])
FormOf(n) ==
    LET form == Opens(n.name)
    IN  IF /\ n.cascades = <<>>
           /\ form \in {"if", "and", "ifElse"} => AllOpen(Tail(n.sub))
           /\ form \in {"value", "loop", "loopBody"} => AllOpen(n.sub)
        THEN form ELSE "send"

(* The nodes the parser makes, of n levels at most; and what encoding may  *)
(* say of how their code is generated.                                     *)
Kinds == {"variable", "literal", "assign", "return", "localReturn", "send", "block"}
Forms == {"if", "and", "ifElse", "value", "loop", "loopBody", "identity", "tagged", "send"}
Gens  == Forms \cup {"open", "leaf", "assign", "return", "nonlocal"}
Parsed(n) ==
    CASE n.kind \in {"variable", "literal"}             -> n.sub = <<>>
      [] n.kind \in {"assign", "return", "localReturn"} -> Len(n.sub) = 1
      [] n.kind = "send"                                ->
             n.sub # <<>> /\ (Opens(n.name) # "send" => Len(n.sub) = Arity(Opens(n.name)))
      [] OTHER                                          -> n.kind = "block"
Over(below) ==
    [kind: Kinds, name: Names, value: Int, sub: Seq(below),
     cascades: Seq([name: Names, sub: Seq(below)]), loc: Nat, gen: Gens]
Nodes[n \in Nat] ==
    IF n = 0 THEN {r \in Over({}) : r.kind \in {"variable", "literal"}}
    ELSE {r \in Over(Nodes[n - 1]) : Parsed(r)}
AnyNode == Nodes[Levels]

ASSUME MethodsAssumption ==
    {"nil", "self", "^"} \subseteq Names /\ Levels \in Nat \ {0} /\ Methods \subseteq Seq(AnyNode)

-----------------------------------------------------------------------------
(* Encoding.  The encoder counts the C variables in use and the most that  *)
(* were; blocks are the literal blocks to be translated after the          *)
(* statements that hold them.                                              *)

NewEncoder == [count |-> 0, max |-> 0, level |-> 0, blocks |-> <<>>, units |-> <<>>, errors |-> {}]
Faults   == Forms \cup {"underflow"}
Units    == [code: Seq(AnyNode), stack: Nat, level: Nat, source: Seq(AnyNode)]
Encoders == [count: Nat, max: Nat, level: Nat, blocks: Seq(AnyNode), units: Seq(Units),
             errors: SUBSET Faults]

Push(e)   == [e EXCEPT !.count = @ + 1, !.max = IF e.count + 1 > @ THEN e.count + 1 ELSE @]
Pop(e, n) == IF e.count < n THEN [e EXCEPT !.errors = @ \cup {"underflow"}]
                            ELSE [e EXCEPT !.count = @ - n]

(* The order in which a form encodes the parts of its send: the number of  *)
(* a part, or to push a variable or pop one.                               *)
PUSH == -1
POP  == 0
PartsInOrder(form) ==
    CASE form \in {"value", "loop"}   -> <<1>>
      [] form \in {"and", "loopBody"} -> <<1, POP, 2>>
      [] OTHER                        -> <<1, 2, POP>>
\* Mutants: a receiver in the variable of the answer, a branch not popped.
OrderReusing(form) ==
    CASE form = "if"     -> <<PUSH, POP, 1, POP, 2>>
      [] form = "ifElse" -> <<1, POP, 2, POP, 3>>
      [] OTHER           -> PartsInOrder(form)
OrderUnpopped(form) ==
    CASE form = "if"     -> <<PUSH, 1, POP, POP, 2>>
      [] form = "ifElse" -> <<1, POP, 2, 3>>
      [] OTHER           -> PartsInOrder(form)
Order(form) ==
    CASE form = "if"     -> <<PUSH, 1, POP, POP, 2>>
      [] form = "ifElse" -> <<1, POP, 2, POP, 3>>
      [] OTHER           -> PartsInOrder(form)

(* The parts a form compiles in line.                                      *)
InLine(form) ==
    CASE form \in {"if", "and", "ifElse"}       -> {2, 3}
      [] form \in {"value", "loop", "loopBody"} -> {1, 2}
      [] OTHER                                  -> {}

(* Statements or arguments one after the other, popping a variable after   *)
(* each but the last `kept'.  enc encodes the nodes one level below.       *)
EncodeAll(enc, ns, e, kept) ==
    LET done[i \in 0 .. Len(ns)] ==
          IF i = 0 THEN [n |-> <<>>, e |-> e]
          ELSE LET r == done[i - 1]
                   x == enc[<<ns[i], r.e>>]
               IN  [n |-> Append(r.n, x.n), e |-> IF i <= Len(ns) - kept THEN Pop(x.e, 1) ELSE x.e]
    IN  done[Len(ns)]

Statements(b) == IF b.sub = <<>> THEN <<Var("nil")>> ELSE b.sub

EncodeOpen(enc, b, e) ==
    LET all == EncodeAll(enc, Statements(b), e, 1)
    IN  [n |-> [b EXCEPT !.sub = all.n, !.loc = Last(all.n).loc, !.gen = "open"], e |-> all.e]

(* The parts of a send that is opened out, in their order.                 *)
EncodePart(enc, form, i, r) ==
    LET part == r.n.sub[i]
        x == IF i \in InLine(form) THEN EncodeOpen(enc, part, r.e) ELSE enc[<<part, r.e>>]
    IN  [n |-> [r.n EXCEPT !.sub[i] = x.n], e |-> x.e]
EncodeStep(enc, form, i, r) ==
    CASE i = PUSH -> [r EXCEPT !.e = Push(@)]
      [] i = POP  -> [r EXCEPT !.e = Pop(@, 1)]
      [] OTHER    -> EncodePart(enc, form, i, r)
EncodeParts(enc, n, e, form) ==
    LET order == Order(form)
        done[i \in 0 .. Len(order)] ==
          IF i = 0 THEN [n |-> n, e |-> e] ELSE EncodeStep(enc, form, order[i], done[i - 1])
    IN  done[Len(order)]

(* The variable of a send is that of a part; the parts compiled in line    *)
(* must have it too.                                                       *)
EncodeOpened(enc, n, e, form) ==
    LET parts == EncodeParts(enc, n, e, form)
        loc == IF form = "if" THEN e.count + 1
               ELSE parts.n.sub[IF form = "loopBody" THEN 2 ELSE 1].loc
        ice == {i \in InLine(form) \cap 2 .. Len(n.sub) : parts.n.sub[i].loc # loc}
    IN  [n |-> [parts.n EXCEPT !.loc = loc, !.gen = form],
         e |-> [parts.e EXCEPT !.errors = @ \cup {form : i \in ice}]]

(* A send that remains one, and the cascades that follow it.               *)
EncodeArguments(enc, ns, e, left) ==
    LET all == EncodeAll(enc, ns, e, Len(ns)) IN [all EXCEPT !.e = Pop(@, Len(ns) - left)]
EncodeCascades(enc, cs, e) ==
    LET done[i \in 0 .. Len(cs)] ==
          IF i = 0 THEN [n |-> <<>>, e |-> e]
          ELSE LET r == done[i - 1]
                   x == EncodeArguments(enc, cs[i].sub, r.e, 0)
               IN  [n |-> Append(r.n, Cascaded(cs[i].name, x.n)), e |-> x.e]
    IN  done[Len(cs)]
EncodeSent(enc, n, e) ==
    LET parts == EncodeArguments(enc, n.sub, e, 1)
        more  == EncodeCascades(enc, n.cascades, parts.e)
    IN  [n |-> [n EXCEPT !.sub = parts.n, !.loc = parts.n[1].loc, !.gen = "send", !.cascades = more.n],
         e |-> more.e]

(* An assignment or a return, in the variable of its value.                *)
EncodeHolder(enc, n, e) ==
    LET x == enc[<<n.sub[1], e>>]
        gen == CASE n.kind = "assign"                -> "assign"
                 [] n.kind = "return" /\ e.level > 1 -> "nonlocal"
                 [] OTHER                            -> "return"
    IN  [n |-> [n EXCEPT !.sub = <<x.n>>, !.loc = x.n.loc, !.gen = gen], e |-> x.e]

\* A block waits to be translated after the statements that hold it.
EncodeLeaf(n, e) ==
    [n |-> [n EXCEPT !.loc = e.count + 1, !.gen = "leaf"],
     e |-> IF n.kind = "block" THEN [Push(e) EXCEPT !.blocks = Append(@, n)] ELSE Push(e)]

EncodeNode(enc, n, e) ==
    CASE n.kind \in {"variable", "literal", "block"}    -> EncodeLeaf(n, e)
      [] n.kind = "send" /\ FormOf(n) = "send"          -> EncodeSent(enc, n, e)
      [] n.kind = "send" /\ FormOf(n) # "send"          -> EncodeOpened(enc, n, e, FormOf(n))
      [] n.kind \in {"assign", "return", "localReturn"} -> EncodeHolder(enc, n, e)

NodeEncoding[d \in Nat] ==
    [x \in Nodes[d] \X Encoders |-> EncodeNode(IF d = 0 THEN <<>> ELSE NodeEncoding[d - 1], x[1], x[2])]

(* A method's body ends in ^self if not in a return, a block's in a return *)
(* of its last statement to the sender of value.                           *)
MethodBody(stmts) ==
    IF stmts # <<>> /\ Last(stmts).kind = "return" THEN stmts
    ELSE Append(stmts, Return(Var("self")))
BlockBody(b) ==
    LET stmts == Statements(b)
    IN  IF Last(stmts).kind = "return" THEN stmts
        ELSE [i \in DOMAIN stmts |-> IF i = Len(stmts) THEN LocalReturn(stmts[i]) ELSE stmts[i]]

BeginBlock(e) == [e EXCEPT !.count = 0, !.max = 0, !.level = @ + 1, !.blocks = <<>>]
EndBlockDeclaringLast(inner, outer) ==       \* mutant: tempMax not restored
    [inner EXCEPT !.count = outer.count, !.level = outer.level, !.blocks = outer.blocks]
EndBlock(inner, outer) ==
    [inner EXCEPT !.count = outer.count, !.max = outer.max, !.level = outer.level,
                  !.blocks = outer.blocks]

(* A unit: its statements, then the bodies of the blocks in it, of which   *)
(* bodies encodes one level.                                               *)
EncodeBlocks(bodies, e) ==
    LET done[i \in 0 .. Len(e.blocks)] == IF i = 0 THEN e ELSE bodies[<<e.blocks[i], done[i - 1]>>]
    IN  done[Len(e.blocks)]
Emitted(code, source, inner, e) ==
    LET unit == [code |-> code, stack |-> inner.max, level |-> inner.level, source |-> source]
    IN  [EndBlock(inner, e) EXCEPT !.units = Append(@, unit)]
EncodeUnit(bodies, body, source, e) ==
    LET own == EncodeAll(NodeEncoding[Levels], body, BeginBlock(e), 0)
    IN  Emitted(own.n, source, EncodeBlocks(bodies, own.e), e)

BlockEncoding[d \in Nat] ==
    [x \in {n \in Nodes[d] : n.kind = "block"} \X Encoders |->
        EncodeUnit(IF d = 0 THEN <<>> ELSE BlockEncoding[d - 1], BlockBody(x[1]), x[1].sub, x[2])]

-----------------------------------------------------------------------------
(* Generation: the C statements of a unit.                                 *)

\* op, the C variable it sets or uses, its argument; the other variables it
\* uses, the outcome it tests for or whether it keeps an answer, tags tested.
Instr(op, loc, arg) == [op |-> op, loc |-> loc, arg |-> arg, locs |-> <<>>, flag |-> TRUE, check |-> {}]

(* Which operands are tested for a tag at run time: a literal small        *)
(* integer is not.                                                         *)
TagCheck(l, r) ==
    {i \in 1 .. 2 : LET n == <<l, r>>[i] IN ~(n.kind = "literal" /\ n.value \in SmallInt)}

(* Labels are numbered on through a method; k is the last one given out.   *)
(* gen generates the nodes one level below.                                *)
GenAll(gen, ns, k) ==
    LET done[i \in 0 .. Len(ns)] ==
          IF i = 0 THEN [c |-> <<>>, each |-> <<>>, k |-> k]
          ELSE LET r == done[i - 1]
                   x == gen[<<ns[i], r.k>>]
               IN  [c |-> r.c \o x.c, each |-> Append(r.each, x.c), k |-> x.k]
    IN  done[Len(ns)]

GenSend(rcv, sel, args, last) ==
    <<[Instr("send", rcv, sel) EXCEPT !.locs = [i \in DOMAIN args |-> args[i].loc], !.flag = last]>>
GenSent(gen, n, k) ==
    LET rcv == n.sub[1].loc
        g   == GenAll(gen, n.sub, k)
        done[i \in 0 .. Len(n.cascades)] ==
          IF i = 0 THEN [c |-> g.c \o GenSend(rcv, n.name, Tail(n.sub), n.cascades = <<>>), k |-> g.k]
          ELSE LET r == done[i - 1]
                   m == n.cascades[i]
                   x == GenAll(gen, m.sub, r.k)
               IN  [c |-> r.c \o x.c \o GenSend(rcv, m.name, m.sub, i = Len(n.cascades)), k |-> x.k]
    IN  done[Len(n.cascades)]

GenLeaf(n) ==
    CASE n.kind = "variable" -> <<Instr("read", n.loc, n.name)>>
      [] n.kind = "literal"  -> <<Instr("load", n.loc, <<"int", n.value>>)>>
      [] OTHER               -> <<Instr("load", n.loc, <<"block", n.sub>>)>>

\* each is the code of each part; labels are numbered from k + 1.
GenForm(n, each, all, k) ==
    LET rcv  == n.sub[1].loc
        loop == k + 1
        past == k + 2
        on   == n.name \in OnTrue
        label(i) == <<Instr("label", 0, i)>>
        jump(i)  == <<Instr("jump", 0, i)>>
        test(sense, i) == <<[Instr("jump", rcv, i) EXCEPT !.flag = sense]>>
        setNil == <<Instr("load", n.loc, <<"nil">>)>>
        two(op, check) == <<[Instr(op, n.loc, n.name) EXCEPT !.locs = <<rcv, n.sub[2].loc>>,
                                                            !.flag = on, !.check = check]>>
    IN  CASE n.gen \in {"open", "value"} -> all
          [] n.gen = "assign"   -> all \o <<Instr("write", n.loc, n.name)>>
          [] n.gen = "return"   -> all \o <<Instr("return", rcv, "local")>>
          [] n.gen = "nonlocal" -> all \o <<Instr("return", rcv, "nonlocal")>>
          [] n.gen = "if"       -> setNil \o each[1] \o test(~on, past) \o each[2] \o label(past)
          [] n.gen = "and"      -> each[1] \o test(~on, past) \o each[2] \o label(past)
          [] n.gen = "ifElse"   -> each[1] \o test(~on, loop) \o each[2] \o jump(past)
                                   \o label(loop) \o each[3] \o label(past)
          [] n.gen = "loop"     -> label(loop) \o all \o test(on, loop) \o setNil
          [] n.gen = "loopBody" -> jump(past) \o label(loop) \o each[2] \o label(past)
                                   \o each[1] \o test(on, loop) \o setNil
          [] n.gen = "identity" -> all \o two("compare", {})
          [] n.gen = "tagged"   -> all \o two("tagged", TagCheck(n.sub[1], n.sub[2]))

GenNode(gen, n, k) ==
    CASE n.gen = "leaf" -> [c |-> GenLeaf(n), k |-> k]
      [] n.gen = "send" -> GenSent(gen, n, k)
      [] OTHER          -> LET g == GenAll(gen, n.sub, k + 2)
                           IN  [c |-> GenForm(n, g.each, g.c, k), k |-> g.k]

NodeCode[d \in Nat] ==
    [x \in Nodes[d] \X Nat |-> GenNode(IF d = 0 THEN <<>> ELSE NodeCode[d - 1], x[1], x[2])]

-----------------------------------------------------------------------------
(* The C program.  A unit is executed with any values of the variables.    *)

Nil       == <<"nil">>       \* also false: both are the null pointer
True      == <<"true">>
IsInt(v)  == v[1] = "int" /\ v[2] \in SmallInt
Boolean(b) == IF b THEN True ELSE Nil

Idle == [unit |-> 0, pc |-> 0, frame |-> <<>>, vars |-> <<>>, start |-> <<>>, tests |-> 0, log |-> <<>>,
         out |-> <<>>]

CodeInit == /\ method \in Methods
        /\ units = <<>>
        /\ fault = {}
        /\ run = Idle

\* The encoder is bound by \E for TLC to evaluate it once.
Compile ==
    \E e \in {EncodeUnit(BlockEncoding[Levels], MethodBody(method), method, NewEncoder)} :
        LET done[i \in 0 .. Len(e.units)] ==
              IF i = 0 THEN [k |-> 0, u |-> <<>>]
              ELSE LET r == done[i - 1]
                       g == GenAll(NodeCode[Levels], e.units[i].code, r.k)
                   IN  [k |-> g.k, u |-> Append(r.u, [e.units[i] EXCEPT !.code = g.c])]
        IN  /\ units = <<>>
            /\ units' = done[Len(e.units)].u
            /\ fault' = e.errors
            /\ UNCHANGED <<method, run>>

Enter ==
    /\ run.unit = 0
    /\ \E i \in DOMAIN units, vs \in [Variables -> {Nil, <<"int", 1>>}] :
          LET start == [v \in Variables \cup {"self"} |-> IF v = "self" THEN <<"self">> ELSE vs[v]]
          IN  run' = [Idle EXCEPT !.unit = i, !.pc = 1, !.vars = start, !.start = start,
                                  !.frame = [l \in 1 .. units[i].stack |-> Nil]]
    /\ UNCHANGED <<method, units, fault>>

Code      == units[run.unit].code
At(l)     == IF l \in DOMAIN run.frame THEN run.frame[l] ELSE <<"undeclared", l>>
Set(l, v) == [i \in DOMAIN run.frame \cup {l} |-> IF i = l THEN v ELSE run.frame[i]]
Value(x)  == IF x = "nil" THEN Nil ELSE run.vars[x]
Next_     == [run EXCEPT !.pc = @ + 1]

Execute(op) ==
    /\ run.unit # 0 /\ run.out = <<>>
    /\ Code[run.pc].op = op
    /\ UNCHANGED <<method, units, fault>>

Label == Execute("label") /\ run' = Next_

Load == /\ Execute("load")
        /\ run' = [Next_ EXCEPT !.frame = Set(Code[run.pc].loc, Code[run.pc].arg)]

Read == /\ Execute("read")
        /\ run' = [Next_ EXCEPT !.frame = Set(Code[run.pc].loc, Value(Code[run.pc].arg))]

Write == /\ Execute("write")
         /\ run' = [Next_ EXCEPT !.vars[Code[run.pc].arg] = At(Code[run.pc].loc)]

\* The answer of a send goes to loc, if keep.  Sends are cut at MaxSends.
Answered(sel, rcv, args, loc, keep) ==
    IF Len(run.log) = MaxSends THEN run' = [run EXCEPT !.out = <<"cut">>]
    ELSE \E ans \in {Nil, <<"int", 1>>, <<"answer", Len(run.log)>>} :
            run' = [Next_ EXCEPT
                !.log = Append(@, [sel |-> sel, rcv |-> rcv, args |-> args, ans |-> ans]),
                !.frame = IF keep THEN Set(loc, ans) ELSE @]

Sends ==
    LET i == Code[run.pc]
    IN  /\ Execute("send")
        /\ Answered(i.arg, At(i.loc), [k \in DOMAIN i.locs |-> At(i.locs[k])], i.loc, i.flag)

\* if (loc) goto: a jump back is a test of a loop, cut at MaxTests.
Jump ==
    LET i  == Code[run.pc]
        to == CHOOSE k \in DOMAIN Code : Code[k].op = "label" /\ Code[k].arg = i.arg
        taken == i.loc = 0 \/ ((At(i.loc) # Nil) <=> i.flag)
    IN  /\ Execute("jump")
        /\ run' = CASE ~taken -> Next_
                    [] taken /\ to > run.pc -> [run EXCEPT !.pc = to]
                    [] taken /\ to < run.pc /\ run.tests < MaxTests ->
                           [run EXCEPT !.pc = to, !.tests = @ + 1]
                    [] OTHER -> [run EXCEPT !.out = <<"cut">>]

Compare ==
    LET i == Code[run.pc]
    IN  /\ Execute("compare")
        /\ run' = [Next_ EXCEPT
               !.frame = Set(i.loc, Boolean((At(i.locs[1]) = At(i.locs[2])) <=> i.flag))]

\* The fast path if the tags that are tested are there and the sum fits.
\* An operand that is not tested and no integer adds up to anything.
TaggedAdd ==
    LET i == Code[run.pc]
        l == At(i.locs[1])
        r == At(i.locs[2])
        tested == \A k \in i.check : IsInt(At(i.locs[k]))
        sum == IF IsInt(l) /\ IsInt(r) THEN {<<"int", s>> : s \in FastAdd(l[2], r[2])}
               ELSE {<<"junk">>}
    IN  /\ Execute("tagged")
        /\ IF tested /\ sum # {}
           THEN \E s \in sum : run' = [Next_ EXCEPT !.frame = Set(i.loc, s)]
           ELSE Answered(i.arg, l, <<r>>, i.loc, TRUE)

Returns ==
    /\ Execute("return")
    /\ run' = [run EXCEPT !.out = <<Code[run.pc].arg, At(Code[run.pc].loc)>>]

CodeNext == \/ Compile \/ Enter \/ Label \/ Load \/ Read \/ Write \/ Sends \/ Jump
            \/ Compare \/ TaggedAdd \/ Returns

CodeSpec == CodeInit /\ [][CodeNext]_codeVars

-----------------------------------------------------------------------------
(* The C compiler accepts the code: a unit declares every variable _n that *)
(* it mentions, and every label of a file is defined once.                  *)
CompilesAsC ==
    \A i \in DOMAIN units :
        LET c == units[i].code
            labels == {k \in DOMAIN c : c[k].op = "label"}
        IN  \A k \in DOMAIN c :
                /\ ({c[k].loc} \cup {c[k].locs[j] : j \in DOMAIN c[k].locs}) \ {0} \subseteq 1 .. units[i].stack
                /\ c[k].op \in {"label", "jump"} =>
                       \E l \in labels : {m \in labels : c[m].arg = c[k].arg} = {l}

(* The compiler's own assertions hold: a part compiled in line leaves its  *)
(* value in the variable of the whole, and no more is popped than pushed.  *)
NoInternalError == fault = {}
=============================================================================
