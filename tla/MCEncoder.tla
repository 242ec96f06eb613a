----------------------------- MODULE MCEncoder -----------------------------
(* The two halves of the encoder, each on its own methods: the scopes and  *)
(* closures of ClosureScope, or the C variables and the code of OpenCode.  *)
(* They share no state, so each behaviour takes steps of one of them.      *)
EXTENDS ClosureScope, SourceMeaning

CONSTANTS name1, slot1, self, stateful_self
VARIABLE part

encoderVars == <<part, vars, codeVars>>

EncoderInit ==
    \/ /\ part = "scopes" /\ Init
       /\ method = <<>> /\ units = <<>> /\ fault = {} /\ run = Idle
    \/ /\ part = "code" /\ CodeInit
       /\ Init /\ kind = "exec" /\ declared = <<{}>>

EncoderNext ==
    \/ part = "scopes" /\ Next /\ UNCHANGED <<part, codeVars>>
    \/ part = "code" /\ CodeNext /\ UNCHANGED <<part, vars>>

EncoderSpec == EncoderInit /\ [][EncoderNext]_encoderVars

-----------------------------------------------------------------------------
(* Methods for OpenCode: every form with small parts, and the forms inside *)
(* one another, in each of their parts.                                    *)
X      == Var("x")
Foo(r) == Send("foo", <<r>>)
Most   == Num(Quarter - 1)
Large  == Num(Quarter)       \* a literal beyond the tagged integers

Conditions(rcvs, bs) ==
    {Send(s, <<r, b>>) : s \in {"ifTrue:", "ifFalse:", "and:", "or:"}, r \in rcvs, b \in bs}
Alternatives(rcvs, bs) ==
    {Send(s, <<r, b, c>>) :
        s \in {"ifTrue:ifFalse:", "ifFalse:ifTrue:"}, r \in rcvs, b \in bs, c \in bs}
Loops(tests, bs) ==
    {Send(s, <<t>>) : s \in {"value", "whileTrue", "whileFalse"}, t \in tests}
    \cup {Send(s, <<t, b>>) : s \in {"whileTrue:", "whileFalse:"}, t \in tests, b \in bs}
Operations(ls, rs) ==
    {Send(s, <<l, r>>) : s \in {"==", "~~", "+", "bar:"}, l \in ls, r \in rs}
Cascades(rcvs, args) ==
    {[Send("bar:", <<r, arg>>) EXCEPT
        !.cascades = <<Cascaded("baz", <<>>), Cascaded("bar:", <<arg>>)>>] : r \in rcvs, arg \in args}

Parts   == {X, Most, Foo(X), Assign("x", Foo(X)), Send("+", <<X, Most>>)}
Returning == {Block(<<Foo(X)>>), Block(<<Return(X)>>)}
Bodies  == {Block(<<>>), Block(<<X>>), Block(<<Assign("x", Num(1)), Foo(X)>>),
            Block(<<Foo(X), Return(X)>>)}
Inner   == Conditions({X, Foo(X)}, Returning \cup {ClosedBlock(<<X>>)})
           \cup Alternatives({X}, Returning)
           \cup Loops({Block(<<Foo(X)>>)}, Returning)
           \cup Operations({Foo(X), Most}, {X, Most, Large})
           \cup Cascades({X}, {Foo(X)})
InBlock == {Block(<<i>>) : i \in Inner}
Flat    == Conditions(Parts, Bodies) \cup Alternatives(Parts, Returning) \cup Loops(Bodies, Bodies)
           \cup Operations(Parts, Parts \cup Returning \cup {ClosedBlock(<<Return(X)>>)})
           \cup Cascades(Parts, Parts)
Nested(is, bs) ==
    Conditions(is \cup {X}, {Block(<<Foo(X)>>)}) \cup Conditions({X}, bs)
    \cup Alternatives({X}, {Block(<<i>>) : i \in Conditions({X}, Returning)})
    \cup Loops({Block(<<X>>)}, bs) \cup Loops(bs, {Block(<<X>>)})
    \cup Operations({X}, is) \cup Operations(is, {X}) \cup Cascades({X}, is) \cup bs

MCNames   == STRING
MCMethods == {<<e>> : e \in Flat} \cup {<<Return(e)>> : e \in Nested(Inner, InBlock)}
             \cup {<<Foo(b), Assign("x", b)>> : b \in InBlock}
=============================================================================
