----------------------------- MODULE LinkageProofs -----------------------------
(***************************************************************************)
(* Proofs about Linkage.  The compiler leaves the loading of a library to  *)
(* the one in whose text it met the library first; the proofs follow that  *)
(* chain.  While a file is compiled, every node that stands for something  *)
(* of another file comes after an import of its own through which that     *)
(* file is reached; while the program runs, the libraries whose            *)
(* initialisers have returned are closed under imports, as no file on the  *)
(* stack of initialisers can be imported again without a circle.           *)
(***************************************************************************)
EXTENDS Linkage, SequenceTheorems, TLAPS

(***************************************************************************)
(* What can be said of the sources t, of a program P compiled for file f,  *)
(* and of a set of files, whatever the state.                              *)
(***************************************************************************)
Says(t, f, op, a) == \E i \in DOMAIN t[f] : t[f][i].op = op /\ t[f][i].arg = a
Defines(t, f, n) == \E op \in Definitions : Says(t, f, op, n)

\* Imports lead from f into s.
Closed(t, s) == \A f \in s, g \in File : Says(t, f, "import", g) => g \in s
Reaches(t, f, s) == \A c \in SUBSET File : f \in c /\ Closed(t, c) => c \cap s # {}

DirectImport(P, j) == P[j].op = "import" /\ ~P[j].foreign

\* Before its node i, P imports a file from which s is reached.
Through(t, P, i, s) == \E j \in DOMAIN P : j < i /\ DirectImport(P, j) /\ Reaches(t, P[j].arg, s)

SoundNode(t, P, f, i) ==
  /\ DirectImport(P, i) => Says(t, f, "import", P[i].arg)
  /\ P[i].foreign /\ P[i].op = "import" => Through(t, P, i, {P[i].arg})
  /\ P[i].foreign /\ P[i].op \in Definitions =>
       Through(t, P, i, {g \in File : Defines(t, g, P[i].arg)})
Sound(t, P, f) == \A i \in DOMAIN P : SoundNode(t, P, f, i)

HasNode(P, ops, a) == \E j \in DOMAIN P : P[j].op \in ops /\ P[j].arg = a

\* P has a node for what each of the first forms of f, up to m, says.
Covers(t, P, f, m) ==
  \A i \in DOMAIN t[f] : i < m =>
    /\ t[f][i].op = "import" => HasNode(P, {"import"}, t[f][i].arg)
    /\ t[f][i].op \in Definitions => HasNode(P, Definitions, t[f][i].arg)

-----------------------------------------------------------------------------
TypedNode == [op : {"import"}, arg : File, foreign : BOOLEAN]
               \cup [op : Definitions \cup Imperatives, arg : Name, foreign : BOOLEAN]

LinkageTyped ==
  /\ text \in Texts
  /\ parsers \in Seq(Parser) /\ \A k \in DOMAIN parsers : parsers[k].next > 0
  /\ scanned \subseteq File /\ imports \subseteq File
  /\ program \in Seq(TypedNode) /\ made \in Seq(Seq(TypedNode))
  /\ Len(made) <= Len(Build)
  /\ Len(made) < Len(Build) => parsers # <<>> /\ Root \in File
  /\ stack \in Seq(Frame) /\ \A k \in DOMAIN stack : stack[k].next > 0
  /\ started \subseteq File
  /\ bound \in [File -> [Name -> Nat]] /\ globals \in [Name -> Nat] /\ objects \in Nat
  /\ outcome \in {"building", "rejected", "running", "fatal", "done"}
  /\ outcome \in {"running", "done", "fatal"} => Len(made) = Len(Build)
  /\ outcome \in {"building", "rejected"} => started = {}
  /\ outcome = "running" => stack # <<>>
  /\ outcome \in {"building", "rejected", "done"} => stack = <<>>

(***************************************************************************)
(* Compiling, of files that only import: everything met in another file is *)
(* reached through an import of the file being compiled.                   *)
(***************************************************************************)
CompiledSoundly ==
  /\ \A i \in DOMAIN made :
       /\ Sound(text, made[i], Build[i])
       /\ Covers(text, made[i], Build[i], Len(text[Build[i]]) + 1)
  /\ Len(made) < Len(Build) =>
       /\ Sound(text, program, Root)
       /\ Covers(text, program, Root, parsers[1].next)
       /\ parsers[1].file = Root /\ ~parsers[1].including /\ Root \in scanned
       /\ \A k \in 2 .. Len(parsers) :
            /\ parsers[k].including
            /\ Through(text, program, Len(program) + 1, {parsers[k].file})
       /\ imports \subseteq scanned
       /\ \A g \in imports : HasNode(program, {"import"}, g)

(***************************************************************************)
(* Running, of files that only import and not in a circle.                 *)
(***************************************************************************)
Completed == {f \in started : \A k \in DOMAIN stack : stack[k].file # f}

\* Initialiser k has passed its node j: the library is there, or is the one
\* being loaded; the global has been exported.
PassedNode(k, j) ==
  LET node == Code(stack[k].file)[j]
  IN /\ node.op = "import" /\ ~node.foreign =>
          \/ node.arg \in Completed
          \/ k < Len(stack) /\ j = stack[k].next - 1 /\ node.arg = stack[k + 1].file
     /\ node.op \in Definitions => globals[node.arg] # Nil

StackInOrder ==
  /\ stack # <<>> => stack[1].file = Main
  /\ \A k \in DOMAIN stack : stack[k].file \in started
  /\ \A k, l \in DOMAIN stack : stack[k].file = stack[l].file => k = l
  /\ \A k \in 1 .. Len(stack) - 1 : Says(text, stack[k].file, "import", stack[k + 1].file)

CompletedClosed ==
  /\ Closed(text, Completed)
  /\ \A f \in Completed, n \in Name : Defines(text, f, n) => globals[n] # Nil

LoadedSoundly ==
  /\ StackInOrder
  /\ \A k \in DOMAIN stack : \A j \in DOMAIN Code(stack[k].file) :
       j < stack[k].next => PassedNode(k, j)
  /\ CompletedClosed
  /\ outcome # "fatal"

LinkInv ==
  /\ LinkageTyped
  /\ OnlyImports => CompiledSoundly
  /\ OnlyImports /\ Acyclic => LoadedSoundly

(***************************************************************************)
(* One object for a global, for any sources: of the nodes for it, only the *)
(* definer has one that makes it, and the definer runs once.               *)
(***************************************************************************)
Sole(t, n) ==
  /\ \A f, g \in File : Defines(t, f, n) /\ Defines(t, g, n) => f = g
  /\ \A f \in File : ~Says(t, f, "assign", n)
  /\ \A f, g \in File : Defines(t, g, n) => ~Says(t, f, "input", g)

OneMaker(t, P, f, n) ==
  /\ \A i \in DOMAIN P : P[i].op \in Definitions /\ P[i].arg = n /\ ~P[i].foreign => Defines(t, f, n)
  /\ \A i, j \in DOMAIN P :
       P[i].op \in Definitions /\ P[j].op \in Definitions /\ P[i].arg = n /\ P[j].arg = n => i = j
  /\ \A i \in DOMAIN P : ~(P[i].op = "assign" /\ P[i].arg = n)

SoleGlobal(n) ==
  /\ \A i \in DOMAIN made : OneMaker(text, made[i], Build[i], n)
  /\ Len(made) < Len(Build) => OneMaker(text, program, Root, n)
  /\ \A k, l \in DOMAIN stack : stack[k].file = stack[l].file => k = l
  /\ \A k \in DOMAIN stack : stack[k].file \in started
  /\ globals[n] # Nil => \A f \in File : Defines(text, f, n) =>
       /\ f \in started
       /\ \A k \in DOMAIN stack : stack[k].file = f =>
            \A j \in DOMAIN Code(f) :
              Code(f)[j].op \in Definitions /\ Code(f)[j].arg = n => j < stack[k].next
  /\ \A f \in File : bound[f][n] \in {Nil, globals[n]}

InputsOnly ==
  Len(made) < Len(Build) =>
    \A k \in DOMAIN parsers : ~parsers[k].including =>
      parsers[k].file = Root \/ \E f \in File : Says(text, f, "input", parsers[k].file)

ObjectInv == LinkageTyped /\ InputsOnly /\ \A n \in Name : Sole(text, n) => SoleGlobal(n)

-----------------------------------------------------------------------------
(* Sources, reachability, and programs that get another node.              *)

LEMMA HasSays == \A f, op, a : Has(f, op, a) <=> Says(text, f, op, a)
BY DEF Has, Says

LEMMA DefinerDefines == \A f, n : Definer(f, n) <=> Defines(text, f, n)
BY DEF Definer, Defines, Has, Says

LEMMA ReachesItself ==
  ASSUME NEW t, NEW f
  PROVE  Reaches(t, f, {f})
BY DEF Reaches

LEMMA ReachesImport ==
  ASSUME NEW t, NEW f, NEW g \in File, NEW h \in File,
         Reaches(t, f, {g}), Says(t, g, "import", h)
  PROVE  Reaches(t, f, {h})
<1> SUFFICES ASSUME NEW c \in SUBSET File, f \in c, Closed(t, c)
             PROVE  c \cap {h} # {}
  BY DEF Reaches
<1>1. g \in c
  BY DEF Reaches
<1>2. h \in c
  BY <1>1 DEF Closed
<1> QED BY <1>2

LEMMA ReachesWithin ==
  ASSUME NEW t, NEW f, NEW g, NEW s, Reaches(t, f, {g}), g \in s
  PROVE  Reaches(t, f, s)
BY DEF Reaches

LEMMA ThroughImport ==
  ASSUME NEW t, NEW P, NEW i, NEW g \in File, NEW h \in File,
         Through(t, P, i, {g}), Says(t, g, "import", h)
  PROVE  Through(t, P, i, {h})
BY ReachesImport DEF Through

LEMMA ThroughWithin ==
  ASSUME NEW t, NEW P, NEW i, NEW g, NEW s, Through(t, P, i, {g}), g \in s
  PROVE  Through(t, P, i, s)
BY ReachesWithin DEF Through

LEMMA Longer ==
  ASSUME NEW P \in Seq(TypedNode), NEW x \in TypedNode
  PROVE  /\ Append(P, x) \in Seq(TypedNode) /\ Len(P) \in Nat
         /\ DOMAIN P = 1 .. Len(P) /\ DOMAIN Append(P, x) = 1 .. (Len(P) + 1)
         /\ Len(Append(P, x)) = Len(P) + 1
         /\ \A i \in DOMAIN P : Append(P, x)[i] = P[i]
         /\ Append(P, x)[Len(P) + 1] = x
BY AppendProperties

LEMMA ThroughLonger ==
  ASSUME NEW t, NEW P \in Seq(TypedNode), NEW x \in TypedNode, NEW i \in Nat, NEW k \in Nat, NEW s,
         Through(t, P, i, s), i <= k
  PROVE  Through(t, Append(P, x), k, s)
<1>1. PICK j \in DOMAIN P : j < i /\ DirectImport(P, j) /\ Reaches(t, P[j].arg, s)
  BY DEF Through
<1>2. j \in DOMAIN Append(P, x) /\ Append(P, x)[j] = P[j] /\ j \in Nat
  BY Longer
<1>3. j < k
  BY <1>1, <1>2
<1> QED BY <1>1, <1>2, <1>3 DEF Through, DirectImport

LEMMA SoundLonger ==
  ASSUME NEW t, NEW P \in Seq(TypedNode), NEW x \in TypedNode, NEW f, Sound(t, P, f),
         x.op = "import" /\ ~x.foreign => Says(t, f, "import", x.arg),
         x.op = "import" /\ x.foreign => Through(t, P, Len(P) + 1, {x.arg}),
         x.op \in Definitions /\ x.foreign =>
           Through(t, P, Len(P) + 1, {g \in File : Defines(t, g, x.arg)})
  PROVE  Sound(t, Append(P, x), f)
<1> DEFINE Q == Append(P, x)
<1>1. /\ Len(P) \in Nat /\ DOMAIN P = 1 .. Len(P) /\ DOMAIN Q = 1 .. (Len(P) + 1)
      /\ \A i \in DOMAIN P : Q[i] = P[i]
      /\ Q[Len(P) + 1] = x
  BY Longer
<1> SUFFICES ASSUME NEW i \in DOMAIN Q PROVE SoundNode(t, Q, f, i)
  BY DEF Sound
<1>2. CASE i = Len(P) + 1
  <2>1. Q[i] = x /\ i \in Nat
    BY <1>1, <1>2
  <2>2. ASSUME NEW s, Through(t, P, Len(P) + 1, s) PROVE Through(t, Q, i, s)
    BY <1>2, <2>1, <2>2, ThroughLonger
  <2> HIDE DEF Q
  <2> QED BY <2>1, <2>2 DEF SoundNode, DirectImport
<1>3. CASE i \in DOMAIN P
  <2>1. SoundNode(t, P, f, i) /\ Q[i] = P[i] /\ i \in Nat
    BY <1>1, <1>3 DEF Sound
  <2>2. ASSUME NEW s, Through(t, P, i, s) PROVE Through(t, Q, i, s)
    BY <2>1, <2>2, ThroughLonger
  <2> HIDE DEF Q
  <2> QED BY <2>1, <2>2 DEF SoundNode, DirectImport
<1> QED BY <1>1, <1>2, <1>3

LEMMA NodesKept ==
  ASSUME NEW P \in Seq(TypedNode), NEW x \in TypedNode
  PROVE  /\ \A ops, a : HasNode(P, ops, a) => HasNode(Append(P, x), ops, a)
         /\ \A ops : x.op \in ops => HasNode(Append(P, x), ops, x.arg)
<1>1. ASSUME NEW ops, NEW a, HasNode(P, ops, a) PROVE HasNode(Append(P, x), ops, a)
  BY <1>1, Longer DEF HasNode
<1>2. ASSUME NEW ops, x.op \in ops PROVE HasNode(Append(P, x), ops, x.arg)
  <2>1. Len(P) + 1 \in DOMAIN Append(P, x) /\ Append(P, x)[Len(P) + 1] = x
    BY Longer
  <2> QED BY <1>2, <2>1 DEF HasNode
<1> QED BY <1>1, <1>2

LEMMA CoversLonger ==
  ASSUME NEW t, NEW P \in Seq(TypedNode), NEW x \in TypedNode, NEW f, NEW m, Covers(t, P, f, m)
  PROVE  Covers(t, Append(P, x), f, m)
BY NodesKept DEF Covers

LEMMA CoversOneMore ==
  ASSUME NEW t, NEW P, NEW f, NEW m \in Nat, t[f] \in Seq(Form), Covers(t, P, f, m),
         m \in DOMAIN t[f] => /\ t[f][m].op = "import" => HasNode(P, {"import"}, t[f][m].arg)
                              /\ t[f][m].op \in Definitions => HasNode(P, Definitions, t[f][m].arg)
  PROVE  Covers(t, P, f, m + 1)
<1>1. \A i \in DOMAIN t[f] : i < m + 1 => i < m \/ i = m
  OBVIOUS
<1> QED BY <1>1 DEF Covers

-----------------------------------------------------------------------------
(* Types.                                                                  *)

LEMMA Files ==
  ASSUME LinkageTyped
  PROVE  /\ Len(Build) \in Nat /\ DOMAIN Build = 1 .. Len(Build)
         /\ \A i \in DOMAIN Build : Build[i] \in File
         /\ \A f \in File : text[f] \in Seq(Form)
         /\ Len(made) \in Nat /\ DOMAIN made = 1 .. Len(made)
         /\ Len(parsers) \in Nat /\ DOMAIN parsers = 1 .. Len(parsers)
         /\ Len(program) \in Nat /\ DOMAIN program = 1 .. Len(program)
         /\ Len(stack) \in Nat /\ DOMAIN stack = 1 .. Len(stack)
<1>1. Len(Build) \in Nat /\ DOMAIN Build = 1 .. Len(Build)
      /\ \A i \in DOMAIN Build : Build[i] \in File
  BY LinkageAssumption
<1>2. \A f \in File : text[f] \in Seq(Form)
  BY LinkageAssumption DEF LinkageTyped
<1> QED BY <1>1, <1>2 DEF LinkageTyped

(***************************************************************************)
(* The innermost parser, and the parsers once it has passed a form.        *)
(***************************************************************************)
LEMMA AtParser ==
  ASSUME LinkageTyped, Building
  PROVE  /\ Len(made) < Len(Build) /\ Root \in File
         /\ Len(parsers) \in Nat \ {0} /\ Top(parsers) \in Parser
         /\ Top(parsers) = parsers[Len(parsers)] /\ Top(parsers).next \in Nat \ {0}
         /\ Top(parsers).file \in File /\ text[Top(parsers).file] \in Seq(Form)
         /\ Past \in Seq(Parser) /\ Len(Past) = Len(parsers)
         /\ \A k \in 1 .. Len(parsers) : Past[k].file = parsers[k].file
                                       /\ Past[k].including = parsers[k].including
                                       /\ Past[k].next > 0
         /\ \A k \in 1 .. (Len(parsers) - 1) : Past[k] = parsers[k]
         /\ Past[Len(parsers)].next = parsers[Len(parsers)].next + 1
<1>1. Len(made) < Len(Build) /\ parsers # <<>> /\ Root \in File
  BY DEF Building, LinkageTyped
<1>2. parsers \in Seq(Parser) /\ Len(parsers) \in Nat \ {0} /\ DOMAIN parsers = 1 .. Len(parsers)
  BY <1>1, EmptySeq DEF LinkageTyped
<1>3. Top(parsers) \in Parser /\ Top(parsers) = parsers[Len(parsers)]
      /\ Top(parsers).next \in Nat \ {0} /\ Top(parsers).file \in File
  <2>1. Top(parsers) = parsers[Len(parsers)] /\ Len(parsers) \in DOMAIN parsers
    BY <1>2 DEF Top
  <2>2. Top(parsers) \in Parser
    BY <1>2, <2>1
  <2>3. Top(parsers).next > 0
    BY <2>1 DEF LinkageTyped
  <2> QED BY <2>1, <2>2, <2>3 DEF Parser
<1>4. text[Top(parsers).file] \in Seq(Form)
  BY <1>3, Files
<1>a. PICK n \in Nat : n = Len(parsers)
  BY <1>2
<1>b. n > 0
  BY <1>2, <1>a
<1> DEFINE b == Below(parsers)
           x == [Top(parsers) EXCEPT !.next = @ + 1]
<1>5. b \in Seq(Parser) /\ Len(b) = n - 1 /\ \A k \in 1 .. (n - 1) : b[k] = parsers[k]
  BY <1>2, <1>a, SubSeqProperties DEF Below
<1>6. x \in Parser /\ x.file = Top(parsers).file /\ x.including = Top(parsers).including
      /\ x.next = Top(parsers).next + 1
  BY <1>3 DEF Parser
<1>7. Past = Append(b, x)
  BY DEF Past
<1> HIDE DEF b, x
<1>8. /\ Past \in Seq(Parser) /\ Len(Past) = n
      /\ \A k \in 1 .. (n - 1) : Past[k] = parsers[k]
      /\ Past[n] = x
  <2>1. /\ Append(b, x) \in Seq(Parser) /\ Len(Append(b, x)) = Len(b) + 1
        /\ \A k \in 1 .. Len(b) : Append(b, x)[k] = b[k]
        /\ Append(b, x)[Len(b) + 1] = x
    BY <1>5, <1>6, AppendProperties
  <2> QED BY <1>a, <1>b, <1>5, <1>7, <2>1
<1>9. \A k \in 1 .. n : Past[k].file = parsers[k].file /\ Past[k].including = parsers[k].including
                        /\ Past[k].next > 0
  <2> SUFFICES ASSUME NEW k \in 1 .. n
               PROVE  Past[k].file = parsers[k].file /\ Past[k].including = parsers[k].including
                      /\ Past[k].next > 0
    OBVIOUS
  <2>1. CASE k = n
    BY <1>3, <1>6, <1>8, <1>a, <2>1
  <2>2. CASE k # n
    <3>1. k \in 1 .. (n - 1) /\ k \in DOMAIN parsers
      <4>1. k \in 1 .. (n - 1)
        BY <2>2
      <4> QED BY <1>2, <1>a, <4>1
    <3>2. Past[k] = parsers[k] /\ parsers[k].next > 0
      BY <1>8, <3>1 DEF LinkageTyped
    <3> QED BY <3>2
  <2> QED BY <2>1, <2>2
<1> QED BY <1>1, <1>2, <1>3, <1>4, <1>6, <1>8, <1>9, <1>a

LEMMA AtFormOf ==
  ASSUME LinkageTyped, NEW op, AtForm(op)
  PROVE  /\ Top(parsers).next \in DOMAIN text[Top(parsers).file]
         /\ text[Top(parsers).file][Top(parsers).next].op = op
         /\ op \in Directives => Argument \in File
         /\ op \in Definitions \cup Imperatives => Argument \in Name
         /\ Says(text, Top(parsers).file, op, Argument)
         /\ Including \in BOOLEAN
<1>1. Building /\ Top(parsers).next <= Len(text[Top(parsers).file])
      /\ text[Top(parsers).file][Top(parsers).next].op = op
  BY DEF AtForm
<1>2. Top(parsers).next \in Nat \ {0} /\ text[Top(parsers).file] \in Seq(Form) /\ Top(parsers) \in Parser
  BY <1>1, AtParser
<1>3. Top(parsers).next \in DOMAIN text[Top(parsers).file]
      /\ text[Top(parsers).file][Top(parsers).next] \in Form
  BY <1>1, <1>2
<1>4. (op \in Directives => Argument \in File)
      /\ (op \in Definitions \cup Imperatives => Argument \in Name)
  BY <1>1, <1>3 DEF Form, Argument, Directives, Definitions, Imperatives
<1>5. Says(text, Top(parsers).file, op, Argument)
  BY <1>1, <1>3 DEF Says, Argument
<1>6. Including \in BOOLEAN
  BY <1>2 DEF Including, Parser
<1> QED BY <1>1, <1>3, <1>4, <1>5, <1>6

(***************************************************************************)
(* A step of a parser, from the parts that it may change.                  *)
(***************************************************************************)
LEMMA ParserStepTyped ==
  ASSUME LinkageTyped, Building, UNCHANGED <<text, made, running, outcome>>,
         scanned' \subseteq File, imports' \subseteq File, program' \in Seq(TypedNode),
         parsers' \in Seq(Parser), parsers' # <<>>,
         \A k \in DOMAIN parsers' : parsers'[k].next > 0
  PROVE  LinkageTyped'
<1>1. Len(made)' = Len(made) /\ Root' = Root
  BY DEF Root
<1> QED BY <1>1 DEF LinkageTyped, running

LEMMA RejectsTyped == LinkageTyped /\ Building /\ Rejects => LinkageTyped'
<1> SUFFICES ASSUME LinkageTyped, Building, Rejects PROVE LinkageTyped'
  OBVIOUS
<1>1. Root' = Root
  BY DEF Rejects, compiling, Root
<1> QED BY <1>1 DEF LinkageTyped, Building, running, compiling, Rejects

LEMMA PastTyped ==
  ASSUME LinkageTyped, Building
  PROVE  Past \in Seq(Parser) /\ Past # <<>> /\ \A k \in DOMAIN Past : Past[k].next > 0
<1>1. PICK n \in Nat \ {0} : n = Len(parsers)
  BY AtParser
<1>2. Past \in Seq(Parser) /\ Len(Past) = n /\ \A k \in 1 .. n : Past[k].next > 0
  BY AtParser, <1>1
<1>3. DOMAIN Past = 1 .. n
  BY <1>2
<1>4. Past # <<>>
  BY <1>2, <1>1
<1> QED BY <1>2, <1>3, <1>4

LEMMA ReadFromTyped ==
  ASSUME LinkageTyped, Building, NEW f \in File, NEW b \in BOOLEAN, ReadFrom(f, b)
  PROVE  /\ scanned' \subseteq File
         /\ parsers' \in Seq(Parser) /\ parsers' # <<>>
         /\ \A k \in DOMAIN parsers' : parsers'[k].next > 0
         /\ f \in scanned => parsers' = Past
         /\ f \notin scanned =>
              /\ Len(parsers') = Len(parsers) + 1
              /\ parsers'[Len(parsers) + 1] = Parsing(f, 1, b)
              /\ \A k \in 1 .. Len(parsers) : parsers'[k] = Past[k]
<1>1. scanned' \subseteq File
  BY DEF ReadFrom, LinkageTyped
<1>2. CASE f \in scanned
  BY <1>1, <1>2, PastTyped DEF ReadFrom
<1>3. CASE f \notin scanned
  <2> DEFINE p == Parsing(f, 1, b)
  <2>1. p \in Parser /\ p.next = 1
    BY DEF Parsing, Parser
  <2> HIDE DEF p
  <2>2. PICK q \in Seq(Parser) : q = Past
    BY PastTyped
  <2>3. PICK n \in Nat \ {0} : n = Len(parsers)
    BY AtParser
  <2>4. Len(q) = n /\ \A k \in 1 .. n : q[k].next > 0
    BY AtParser, <2>2, <2>3
  <2>5. parsers' = Append(q, p)
    BY <1>3, <2>2 DEF ReadFrom, p
  <2>6. /\ Append(q, p) \in Seq(Parser) /\ Len(Append(q, p)) = n + 1
        /\ \A k \in 1 .. n : Append(q, p)[k] = q[k]
        /\ Append(q, p)[n + 1] = p
    BY <2>1, <2>4, AppendProperties
  <2>7. DOMAIN parsers' = 1 .. (n + 1)
    BY <2>5, <2>6
  <2>8. \A k \in 1 .. (n + 1) : k \in 1 .. n \/ k = n + 1
    OBVIOUS
  <2>9. parsers' # <<>>
    BY <2>5, <2>6
  <2> QED BY <1>1, <1>3, <2>1, <2>2, <2>3, <2>4, <2>5, <2>6, <2>7, <2>8, <2>9 DEF p
<1> QED BY <1>2, <1>3

LEMMA NodeTyped ==
  ASSUME LinkageTyped, NEW op, AtForm(op), NEW b \in BOOLEAN,
         op \in Definitions \cup Imperatives \cup {"import"}
  PROVE  /\ Noded(op, Argument, b) \in TypedNode
         /\ Append(program, Noded(op, Argument, b)) \in Seq(TypedNode)
<1>1. Noded(op, Argument, b) \in TypedNode
  BY AtFormOf DEF Noded, TypedNode, Directives
<1> QED BY <1>1 DEF LinkageTyped

LEMMA BackTyped ==
  ASSUME LinkageTyped, Building, Len(parsers) > 1
  PROVE  /\ Below(parsers) \in Seq(Parser) /\ Below(parsers) # <<>>
         /\ Len(Below(parsers)) = Len(parsers) - 1
         /\ \A k \in 1 .. (Len(parsers) - 1) : Below(parsers)[k] = parsers[k]
         /\ \A k \in DOMAIN Below(parsers) : Below(parsers)[k].next > 0
<1>1. PICK n \in Nat : n = Len(parsers)
  BY AtParser
<1>2. parsers \in Seq(Parser) /\ n > 1
  BY <1>1 DEF LinkageTyped
<1>3. /\ Below(parsers) \in Seq(Parser) /\ Len(Below(parsers)) = n - 1
      /\ \A k \in 1 .. (n - 1) : Below(parsers)[k] = parsers[k]
  BY <1>1, <1>2, SubSeqProperties DEF Below
<1>4. DOMAIN Below(parsers) = 1 .. (n - 1) /\ Below(parsers) # <<>>
  BY <1>2, <1>3
<1>5. \A k \in 1 .. (n - 1) : k \in DOMAIN parsers
  BY <1>1, <1>2
<1> QED BY <1>1, <1>3, <1>4, <1>5 DEF LinkageTyped

LEMMA CompiledTyped == LinkageTyped /\ Compiled => LinkageTyped'
<1> SUFFICES ASSUME LinkageTyped, Compiled PROVE LinkageTyped'
  OBVIOUS
<1>1. Building
  BY DEF Compiled, AtEnd
<1>2. CASE Names(program, Imperatives) \subseteq Names(program, Definitions)
  <2> DEFINE more == Len(made) + 1 < Len(Build)
  <2>1. PICK n \in Nat : n = Len(made)
    BY Files
  <2>2. n < Len(Build) /\ outcome = "building"
    BY <1>1, <2>1 DEF Building
  <2>3. /\ made' = Append(made, program) /\ program' = <<>> /\ imports' = {}
        /\ parsers' = IF more THEN << Parsing(Build[Len(made) + 2], 1, FALSE) >> ELSE <<>>
        /\ scanned' = IF more THEN {Build[Len(made) + 2]} ELSE {}
        /\ UNCHANGED <<text, running, outcome>>
    BY <1>2 DEF Compiled
  <2>4. made' \in Seq(Seq(TypedNode)) /\ Len(made') = n + 1
    BY <2>1, <2>3, AppendProperties DEF LinkageTyped
  <2>5. Len(made') <= Len(Build)
    BY <2>2, <2>4, Files
  <2>6. /\ parsers' \in Seq(Parser) /\ \A k \in DOMAIN parsers' : parsers'[k].next > 0
        /\ scanned' \subseteq File
        /\ Len(made') < Len(Build) => parsers' # <<>> /\ Root' \in File
    <3>1. CASE more
      <4>1. n + 2 \in DOMAIN Build /\ Build[n + 2] \in File
        BY <2>1, <3>1, Files
      <4> DEFINE p == Parsing(Build[n + 2], 1, FALSE)
      <4>2. p \in Parser /\ p.next = 1
        BY <4>1 DEF Parsing, Parser
      <4> HIDE DEF p
      <4>3. parsers' = <<p>> /\ scanned' = {Build[n + 2]}
        BY <2>1, <2>3, <3>1 DEF p
      <4>4. Root' = Build[n + 2]
        BY <2>1, <2>4 DEF Root
      <4>5. DOMAIN parsers' = {1} /\ parsers'[1] = p /\ parsers' # <<>>
        BY <4>3
      <4> QED BY <4>1, <4>2, <4>3, <4>4, <4>5
    <3>2. CASE ~more
      <4>1. parsers' = <<>> /\ scanned' = {}
        BY <2>3, <3>2
      <4>2. ~(Len(made') < Len(Build))
        BY <2>1, <2>4, <3>2, Files
      <4> QED BY <4>1, <4>2
    <3> QED BY <3>1, <3>2
  <2>7. program' \in Seq(TypedNode)
    BY <2>3
  <2> HIDE DEF more
  <2> QED BY <2>2, <2>3, <2>4, <2>5, <2>6, <2>7 DEF LinkageTyped, running
<1>3. CASE ~(Names(program, Imperatives) \subseteq Names(program, Definitions))
  BY <1>1, <1>3, RejectsTyped DEF Compiled
<1> QED BY <1>2, <1>3

LEMMA CompilerTyped ==
  ASSUME LinkageTyped,
         Import \/ Include \/ Input \/ Prototype \/ Variable \/ Imperative \/ EndOfFile \/ Compiled
  PROVE  LinkageTyped'
<1>1. CASE Import
  <2>1. AtForm("import") /\ Building /\ Argument \in File
    BY <1>1, AtFormOf DEF Import, AtForm, Directives
  <2>2. program' \in Seq(TypedNode)
    BY <1>1, <2>1, NodeTyped, AtFormOf DEF Import, Adds, LinkageTyped
  <2>3. imports' \subseteq File
    BY <1>1, <2>1 DEF Import, LinkageTyped
  <2> QED BY <1>1, <2>1, <2>2, <2>3, ReadFromTyped, ParserStepTyped DEF Import
<1>2. CASE Include
  <2>1. AtForm("include") /\ Building /\ Argument \in File
    BY <1>2, AtFormOf DEF Include, AtForm, Directives
  <2>2. program' \in Seq(TypedNode) /\ imports' \subseteq File
    BY <1>2 DEF Include, LinkageTyped
  <2> QED BY <1>2, <2>1, <2>2, ReadFromTyped, ParserStepTyped DEF Include
<1>3. CASE Input
  <2>1. AtForm("input") /\ Building /\ Argument \in File /\ Including \in BOOLEAN
    BY <1>3, AtFormOf DEF Input, AtForm, Directives
  <2>2. program' \in Seq(TypedNode) /\ imports' \subseteq File
    BY <1>3 DEF Input, LinkageTyped
  <2> QED BY <1>3, <2>1, <2>2, ReadFromTyped, ParserStepTyped DEF Input
<1>4. CASE Prototype
  <2>1. AtForm("prototype") /\ Building
    BY <1>4 DEF Prototype, AtForm
  <2>2. CASE Declared({"variable"})
    BY <1>4, <2>1, <2>2, RejectsTyped DEF Prototype
  <2>3. CASE ~Declared({"variable"})
    <3>1. program' \in Seq(TypedNode) /\ scanned' \subseteq File /\ imports' \subseteq File
      BY <1>4, <2>1, <2>3, NodeTyped, AtFormOf DEF Prototype, Adds, LinkageTyped, Definitions
    <3> QED BY <1>4, <2>1, <2>3, <3>1, PastTyped, ParserStepTyped DEF Prototype
  <2> QED BY <2>2, <2>3
<1>5. CASE Variable
  <2>1. AtForm("variable") /\ Building
    BY <1>5 DEF Variable, AtForm
  <2>2. CASE Declared(Definitions)
    BY <1>5, <2>1, <2>2, RejectsTyped DEF Variable
  <2>3. CASE ~Declared(Definitions)
    <3>1. program' \in Seq(TypedNode) /\ scanned' \subseteq File /\ imports' \subseteq File
      BY <1>5, <2>1, <2>3, NodeTyped, AtFormOf DEF Variable, Adds, LinkageTyped, Definitions
    <3> QED BY <1>5, <2>1, <2>3, <3>1, PastTyped, ParserStepTyped DEF Variable
  <2> QED BY <2>2, <2>3
<1>6. CASE Imperative
  <2>1. PICK op \in Imperatives :
          AtForm(op) /\ IF Including THEN UNCHANGED program ELSE Adds(Noded(op, Argument, FALSE))
    BY <1>6 DEF Imperative
  <2>2. Building
    BY <2>1 DEF AtForm
  <2>3. program' \in Seq(TypedNode) /\ scanned' \subseteq File /\ imports' \subseteq File
    BY <1>6, <2>1, NodeTyped DEF Imperative, Adds, LinkageTyped
  <2> QED BY <1>6, <2>2, <2>3, PastTyped, ParserStepTyped DEF Imperative
<1>7. CASE EndOfFile
  <2>1. Building /\ Len(parsers) > 1
    BY <1>7 DEF EndOfFile, AtEnd
  <2>2. program' \in Seq(TypedNode) /\ scanned' \subseteq File /\ imports' \subseteq File
    BY <1>7 DEF EndOfFile, LinkageTyped
  <2> QED BY <1>7, <2>1, <2>2, BackTyped, ParserStepTyped DEF EndOfFile
<1>8. CASE Compiled
  BY <1>8, CompiledTyped
<1> QED BY <1>1, <1>2, <1>3, <1>4, <1>5, <1>6, <1>7, <1>8

-----------------------------------------------------------------------------
(* The running initialisers.                                               *)

\* The file's place in the build is the one CHOOSE finds.
LEMMA CodeOf ==
  ASSUME LinkageTyped, Len(made) = Len(Build)
  PROVE  /\ \A i \in DOMAIN Build : Code(Build[i]) = made[i]
         /\ \A f \in File : \E i \in DOMAIN Build : Build[i] = f /\ Code(f) = made[i] /\ i \in DOMAIN made
         /\ \A f \in File : Code(f) \in Seq(TypedNode)
<1>1. \A i \in DOMAIN Build : Code(Build[i]) = made[i]
  <2> SUFFICES ASSUME NEW i \in DOMAIN Build PROVE Code(Build[i]) = made[i]
    OBVIOUS
  <2>1. \A j \in DOMAIN Build : Build[j] = Build[i] => j = i
    BY LinkageAssumption
  <2>2. (CHOOSE j \in DOMAIN Build : Build[j] = Build[i]) = i
    BY <2>1
  <2> QED BY <2>2 DEF Code
<1>2. DOMAIN made = DOMAIN Build
  BY Files
<1>3. \A f \in File : \E i \in DOMAIN Build : Build[i] = f /\ Code(f) = made[i] /\ i \in DOMAIN made
  BY <1>1, <1>2, LinkageAssumption
<1>4. \A i \in DOMAIN made : made[i] \in Seq(TypedNode)
  BY DEF LinkageTyped
<1> QED BY <1>1, <1>3, <1>4

(***************************************************************************)
(* The innermost initialiser, and the stack once it has passed a node.     *)
(***************************************************************************)
LEMMA AtFrame ==
  ASSUME LinkageTyped, outcome = "running"
  PROVE  /\ Len(made) = Len(Build)
         /\ Len(stack) \in Nat \ {0} /\ DOMAIN stack = 1 .. Len(stack)
         /\ Top(stack) = stack[Len(stack)] /\ Top(stack).next \in Nat \ {0}
         /\ Here \in File /\ Here = stack[Len(stack)].file /\ Code(Here) \in Seq(TypedNode)
         /\ On \in Seq(Frame) /\ Len(On) = Len(stack) /\ DOMAIN On = 1 .. Len(stack)
         /\ \A k \in 1 .. Len(stack) : On[k].file = stack[k].file /\ On[k].next > 0
         /\ \A k \in 1 .. (Len(stack) - 1) : On[k] = stack[k]
         /\ On[Len(stack)].next = stack[Len(stack)].next + 1
<1>1. PICK n \in Nat : n = Len(stack)
  BY Files
<1>2. stack \in Seq(Frame) /\ n > 0 /\ DOMAIN stack = 1 .. n /\ Len(made) = Len(Build)
  <2>1. stack \in Seq(Frame) /\ stack # <<>> /\ Len(made) = Len(Build)
    BY DEF LinkageTyped
  <2> QED BY <1>1, <2>1, EmptySeq
<1>3. /\ Top(stack) = stack[n] /\ n \in DOMAIN stack /\ Top(stack) \in Frame
      /\ Top(stack).next \in Nat \ {0} /\ Top(stack).file \in File
  <2>1. Top(stack) = stack[n] /\ n \in DOMAIN stack
    BY <1>1, <1>2 DEF Top
  <2>2. Top(stack) \in Frame
    BY <1>2, <2>1
  <2>3. Top(stack).next > 0
    BY <2>1 DEF LinkageTyped
  <2> QED BY <2>1, <2>2, <2>3 DEF Frame
<1>4. Here \in File /\ Here = stack[n].file /\ Code(Here) \in Seq(TypedNode)
  BY <1>2, <1>3, CodeOf DEF Here
<1> DEFINE b == Below(stack)
           x == [Top(stack) EXCEPT !.next = @ + 1]
<1>5. b \in Seq(Frame) /\ Len(b) = n - 1 /\ \A k \in 1 .. (n - 1) : b[k] = stack[k]
  BY <1>1, <1>2, SubSeqProperties DEF Below
<1>6. x \in Frame /\ x.file = Top(stack).file /\ x.next = Top(stack).next + 1
  BY <1>3 DEF Frame
<1>7. On = Append(b, x)
  BY DEF On
<1> HIDE DEF b, x
<1>8. /\ On \in Seq(Frame) /\ Len(On) = n
      /\ \A k \in 1 .. (n - 1) : On[k] = stack[k]
      /\ On[n] = x
  <2>1. /\ Append(b, x) \in Seq(Frame) /\ Len(Append(b, x)) = Len(b) + 1
        /\ \A k \in 1 .. Len(b) : Append(b, x)[k] = b[k]
        /\ Append(b, x)[Len(b) + 1] = x
    BY <1>5, <1>6, AppendProperties
  <2> QED BY <1>2, <1>5, <1>7, <2>1
<1>9. \A k \in 1 .. n : On[k].file = stack[k].file /\ On[k].next > 0
  <2> SUFFICES ASSUME NEW k \in 1 .. n
               PROVE  On[k].file = stack[k].file /\ On[k].next > 0
    OBVIOUS
  <2>1. CASE k = n
    BY <1>3, <1>6, <1>8, <2>1
  <2>2. CASE k # n
    <3>1. k \in 1 .. (n - 1) /\ k \in DOMAIN stack
      <4>1. k \in 1 .. (n - 1)
        BY <2>2
      <4> QED BY <1>2, <4>1
    <3>2. On[k] = stack[k] /\ stack[k].next > 0
      BY <1>8, <3>1 DEF LinkageTyped
    <3> QED BY <3>2
  <2> QED BY <2>1, <2>2
<1>10. DOMAIN On = 1 .. n
  BY <1>8
<1> QED BY <1>1, <1>2, <1>3, <1>4, <1>6, <1>8, <1>9, <1>10

LEMMA AtNodeOf ==
  ASSUME LinkageTyped, NEW ops, AtNode(ops)
  PROVE  /\ Top(stack).next \in DOMAIN Code(Here) /\ ThisNode = Code(Here)[Top(stack).next]
         /\ ThisNode \in TypedNode /\ ThisNode.op \in ops /\ ThisNode.foreign \in BOOLEAN
         /\ ThisNode.op = "import" => ThisNode.arg \in File
         /\ ThisNode.op \in Definitions \cup Imperatives => ThisNode.arg \in Name
<1>1. outcome = "running" /\ Top(stack).next <= Len(Code(Here))
      /\ Code(Here)[Top(stack).next].op \in ops
  BY DEF AtNode
<1>2. Top(stack).next \in Nat \ {0} /\ Code(Here) \in Seq(TypedNode)
  BY <1>1, AtFrame
<1>3. Top(stack).next \in DOMAIN Code(Here) /\ Code(Here)[Top(stack).next] \in TypedNode
  BY <1>1, <1>2
<1>4. ThisNode = Code(Here)[Top(stack).next]
  BY DEF ThisNode
<1> HIDE DEF ThisNode
<1> QED BY <1>1, <1>3, <1>4 DEF TypedNode, Definitions, Imperatives

LEMMA Called ==
  ASSUME LinkageTyped, outcome = "running", NEW f \in File, Call(f)
  PROVE  /\ started' = started \cup {f}
         /\ stack' \in Seq(Frame) /\ stack' # <<>> /\ \A k \in DOMAIN stack' : stack'[k].next > 0
         /\ f \in started => stack' = On
         /\ f \notin started =>
              /\ Len(stack') = Len(stack) + 1 /\ DOMAIN stack' = 1 .. (Len(stack) + 1)
              /\ stack'[Len(stack) + 1] = [file |-> f, next |-> 1]
              /\ \A k \in 1 .. Len(stack) : stack'[k] = On[k]
<1>1. PICK n \in Nat \ {0} : n = Len(stack)
  BY AtFrame
<1>2. PICK q \in Seq(Frame) : q = On
  BY AtFrame
<1>3. Len(q) = n /\ DOMAIN q = 1 .. n /\ (\A k \in 1 .. n : q[k].next > 0) /\ q # <<>>
  <2>1. Len(q) = n /\ DOMAIN q = 1 .. n /\ \A k \in 1 .. n : q[k].next > 0
    BY AtFrame, <1>1, <1>2
  <2> QED BY <2>1
<1>4. CASE f \in started
  BY <1>2, <1>3, <1>4 DEF Call
<1>5. CASE f \notin started
  <2> DEFINE x == [file |-> f, next |-> 1]
  <2>1. x \in Frame /\ x.next = 1
    BY DEF Frame
  <2>2. stack' = Append(q, x)
    BY <1>2, <1>5 DEF Call
  <2> HIDE DEF x
  <2>3. /\ Append(q, x) \in Seq(Frame) /\ Len(Append(q, x)) = n + 1
        /\ \A k \in 1 .. n : Append(q, x)[k] = q[k]
        /\ Append(q, x)[n + 1] = x
    BY <1>3, <2>1, AppendProperties
  <2>4. DOMAIN stack' = 1 .. (n + 1) /\ stack' # <<>>
    BY <2>2, <2>3
  <2>5. \A k \in 1 .. (n + 1) : k \in 1 .. n \/ k = n + 1
    OBVIOUS
  <2> QED BY <1>1, <1>2, <1>3, <1>5, <2>1, <2>2, <2>3, <2>4, <2>5 DEF Call, x
<1> QED BY <1>4, <1>5

LEMMA RunStepTyped ==
  ASSUME LinkageTyped, UNCHANGED <<text, compiling>>, Len(made) = Len(Build),
         stack' \in Seq(Frame), \A k \in DOMAIN stack' : stack'[k].next > 0,
         started' \subseteq File,
         bound' \in [File -> [Name -> Nat]], globals' \in [Name -> Nat], objects' \in Nat,
         (outcome' = "running" /\ stack' # <<>>) \/ (outcome' = "done" /\ stack' = <<>>)
  PROVE  LinkageTyped'
<1>1. Len(made)' = Len(made) /\ Root' = Root
  BY DEF Root, compiling
<1> QED BY <1>1 DEF LinkageTyped, compiling

LEMMA FatalTyped == LinkageTyped /\ outcome = "running" /\ Fatal => LinkageTyped'
<1> SUFFICES ASSUME LinkageTyped, outcome = "running", Fatal PROVE LinkageTyped'
  OBVIOUS
<1>1. Root' = Root
  BY DEF Fatal, compiling, Root
<1> QED BY <1>1 DEF LinkageTyped, running, compiling, Fatal

LEMMA OnTyped ==
  ASSUME LinkageTyped, outcome = "running"
  PROVE  On \in Seq(Frame) /\ On # <<>> /\ \A k \in DOMAIN On : On[k].next > 0
<1>1. PICK n \in Nat \ {0} : n = Len(stack)
  BY AtFrame
<1>2. On \in Seq(Frame) /\ Len(On) = n /\ DOMAIN On = 1 .. n /\ \A k \in 1 .. n : On[k].next > 0
  BY AtFrame, <1>1
<1> QED BY <1>2

LEMMA BindsTyped ==
  ASSUME LinkageTyped, NEW n \in Name, NEW v \in Nat, Binds(n, v)
  PROVE  bound' \in [File -> [Name -> Nat]]
BY DEF Binds, LinkageTyped

LEMMA ExportsTyped ==
  ASSUME LinkageTyped, outcome = "running", ThisNode.arg \in Name, Exports
  PROVE  LinkageTyped'
<1>1. Len(made) = Len(Build) /\ objects \in Nat
  BY AtFrame DEF LinkageTyped
<1>2. bound' \in [File -> [Name -> Nat]] /\ globals' \in [Name -> Nat] /\ objects' \in Nat
  BY <1>1, BindsTyped DEF Exports, LinkageTyped
<1>3. stack' = On /\ UNCHANGED <<text, compiling, started, outcome>>
  BY DEF Exports
<1>4. started' \subseteq File
  BY <1>3 DEF LinkageTyped
<1> QED BY <1>1, <1>2, <1>3, <1>4, OnTyped, RunStepTyped

LEMMA Returned ==
  ASSUME LinkageTyped, Return
  PROVE  /\ stack' \in Seq(Frame) /\ Len(stack') = Len(stack) - 1
         /\ DOMAIN stack' = 1 .. (Len(stack) - 1)
         /\ \A k \in 1 .. (Len(stack) - 1) : stack'[k] = stack[k]
         /\ (outcome' = "running" /\ stack' # <<>>) \/ (outcome' = "done" /\ stack' = <<>>)
<1>1. outcome = "running" /\ stack' = Below(stack)
      /\ outcome' = IF Len(stack) = 1 THEN "done" ELSE "running"
  BY DEF Return
<1>2. PICK n \in Nat \ {0} : n = Len(stack)
  BY <1>1, AtFrame
<1>3. stack \in Seq(Frame)
  BY DEF LinkageTyped
<1>4. /\ Below(stack) \in Seq(Frame) /\ Len(Below(stack)) = n - 1
      /\ \A k \in 1 .. (n - 1) : Below(stack)[k] = stack[k]
  BY <1>2, <1>3, SubSeqProperties DEF Below
<1>5. DOMAIN Below(stack) = 1 .. (n - 1) /\ (n = 1 <=> Below(stack) = <<>>)
  BY <1>4, EmptySeq
<1> QED BY <1>1, <1>2, <1>4, <1>5

LEMMA RuntimeTyped ==
  ASSUME LinkageTyped, Start \/ Load \/ BindForeign \/ Define \/ Assign \/ Use \/ Return
  PROVE  LinkageTyped'
<1> USE DEF Imperatives, Definitions
<1>0. bound \in [File -> [Name -> Nat]] /\ globals \in [Name -> Nat] /\ objects \in Nat
      /\ started \subseteq File
  BY DEF LinkageTyped
<1>1. CASE Start
  <2> DEFINE x == [file |-> Main, next |-> 1]
  <2>1. x \in Frame /\ x.next = 1
    BY DEF Frame, File
  <2>2. stack' = <<x>> /\ outcome' = "running" /\ started' = {Main} /\ Len(made) = Len(Build)
        /\ UNCHANGED <<text, compiling, bound, globals, objects>>
    BY <1>1 DEF Start
  <2> HIDE DEF x
  <2>3. stack' \in Seq(Frame) /\ stack' # <<>> /\ \A k \in DOMAIN stack' : stack'[k].next > 0
    BY <2>1, <2>2
  <2> QED BY <1>0, <2>2, <2>3, RunStepTyped DEF File
<1>2. CASE Load
  <2>1. outcome = "running" /\ ThisNode.arg \in File /\ Len(made) = Len(Build)
    BY <1>2, AtNodeOf, AtFrame DEF Load, AtNode
  <2>2. CASE ThisNode.foreign
    BY <1>0, <1>2, <2>1, <2>2, OnTyped, RunStepTyped DEF Load
  <2>3. CASE ~ThisNode.foreign /\ ThisNode.arg \notin Library
    BY <1>2, <2>1, <2>3, FatalTyped DEF Load
  <2>4. CASE ~ThisNode.foreign /\ ThisNode.arg \in Library
    <3>1. Call(ThisNode.arg) /\ UNCHANGED <<text, compiling, bound, globals, objects, outcome>>
      BY <1>2, <2>4 DEF Load
    <3>2. /\ started' = started \cup {ThisNode.arg}
          /\ stack' \in Seq(Frame) /\ stack' # <<>> /\ \A k \in DOMAIN stack' : stack'[k].next > 0
      BY <2>1, <3>1, Called
    <3> QED BY <1>0, <2>1, <3>1, <3>2, RunStepTyped
  <2> QED BY <2>2, <2>3, <2>4
<1>3. CASE BindForeign
  <2>1. outcome = "running" /\ ThisNode.arg \in Name /\ Len(made) = Len(Build)
    BY <1>3, AtNodeOf, AtFrame DEF BindForeign, AtNode
  <2>2. CASE ~Used(Here, ThisNode.arg)
    BY <1>0, <1>3, <2>1, <2>2, OnTyped, RunStepTyped DEF BindForeign
  <2>3. CASE Used(Here, ThisNode.arg) /\ globals[ThisNode.arg] = Nil
    BY <1>3, <2>1, <2>3, FatalTyped DEF BindForeign
  <2>4. CASE Used(Here, ThisNode.arg) /\ globals[ThisNode.arg] # Nil
    <3>1. Binds(ThisNode.arg, globals[ThisNode.arg]) /\ stack' = On
          /\ UNCHANGED <<text, compiling, started, globals, objects, outcome>>
      BY <1>3, <2>4 DEF BindForeign
    <3>2. bound' \in [File -> [Name -> Nat]]
      BY <1>0, <2>1, <3>1, BindsTyped
    <3> QED BY <1>0, <2>1, <3>1, <3>2, OnTyped, RunStepTyped
  <2> QED BY <2>2, <2>3, <2>4
<1>4. CASE Define
  BY <1>4, AtNodeOf, ExportsTyped DEF Define, AtNode
<1>5. CASE Assign
  BY <1>5, AtNodeOf, ExportsTyped DEF Assign, AtNode
<1>6. CASE Use
  <2>1. outcome = "running" /\ Len(made) = Len(Build)
    BY <1>6, AtFrame DEF Use, AtNode
  <2> QED BY <1>0, <1>6, <2>1, OnTyped, RunStepTyped DEF Use
<1>7. CASE Return
  <2>1. outcome = "running" /\ Len(made) = Len(Build)
    BY <1>7, AtFrame DEF Return
  <2>2. \A k \in DOMAIN stack' : stack'[k].next > 0
    <3> SUFFICES ASSUME NEW k \in DOMAIN stack' PROVE stack'[k].next > 0
      OBVIOUS
    <3>1. stack'[k] = stack[k] /\ k \in DOMAIN stack
      <4>1. PICK n \in Nat : n = Len(stack)
        BY Files
      <4>2. DOMAIN stack' = 1 .. (n - 1) /\ \A j \in 1 .. (n - 1) : stack'[j] = stack[j]
        BY <1>7, <4>1, Returned
      <4> QED BY <4>1, <4>2, Files
    <3> QED BY <3>1 DEF LinkageTyped
  <2>3. UNCHANGED <<text, compiling, started, bound, globals, objects>>
    BY <1>7 DEF Return
  <2> QED BY <1>0, <1>7, <2>1, <2>2, <2>3, Returned, RunStepTyped
<1> QED BY <1>1, <1>2, <1>3, <1>4, <1>5, <1>6, <1>7

LEMMA InitTyped == Init => LinkageTyped
<1> SUFFICES ASSUME Init PROVE LinkageTyped
  OBVIOUS
<1>1. 1 \in DOMAIN Build /\ Build[1] \in File /\ Len(Build) \in Nat
  <2>1. PICK i \in DOMAIN Build : Build[i] = Main
    BY LinkageAssumption DEF File
  <2> QED BY <2>1, LinkageAssumption
<1> DEFINE p == Parsing(Build[1], 1, FALSE)
<1>2. p \in Parser /\ p.next = 1
  BY <1>1 DEF Parsing, Parser
<1>3. parsers = <<p>>
  BY DEF Init
<1> HIDE DEF p
<1>4. parsers \in Seq(Parser) /\ parsers # <<>> /\ \A k \in DOMAIN parsers : parsers[k].next > 0
  BY <1>2, <1>3
<1>5. made = <<>> /\ Len(made) = 0 /\ Root = Build[1]
  BY DEF Init, Root
<1>6. Len(Build) > 0
  BY <1>1
<1>7. program \in Seq(TypedNode) /\ made \in Seq(Seq(TypedNode)) /\ stack \in Seq(Frame)
      /\ stack = <<>> /\ \A k \in DOMAIN stack : stack[k].next > 0
  BY EmptySeq DEF Init
<1>8. /\ bound \in [File -> [Name -> Nat]] /\ globals \in [Name -> Nat] /\ objects \in Nat
      /\ scanned \subseteq File /\ imports \subseteq File /\ started = {}
      /\ outcome = "building" /\ text \in Texts
  BY <1>1 DEF Init, Nil
<1> QED BY <1>1, <1>4, <1>5, <1>6, <1>7, <1>8 DEF LinkageTyped

LEMMA StepTyped == LinkageTyped /\ [Next]_vars => LinkageTyped'
<1> SUFFICES ASSUME LinkageTyped, [Next]_vars PROVE LinkageTyped'
  OBVIOUS
<1>1. CASE Next
  BY <1>1, CompilerTyped, RuntimeTyped DEF Next
<1>2. CASE UNCHANGED vars
  <2>1. Root' = Root
    BY <1>2 DEF vars, compiling, Root
  <2> QED BY <1>2, <2>1 DEF vars, compiling, running, LinkageTyped
<1> QED BY <1>1, <1>2

(***************************************************************************)
(* Every parser reads a file from its first form on, a program being built *)
(* has a parser, and the program only runs once every file is compiled.    *)
(***************************************************************************)
THEOREM LinkageTyping == Spec => []LinkageTyped
BY InitTyped, StepTyped, PTL DEF Spec

-----------------------------------------------------------------------------
(* Compiling files that only import.                                       *)

\* The program gets no node, or one more, and stays sound.
Grows ==
  /\ Sound(text, program', Root)
  /\ \A ops, a : HasNode(program, ops, a) => HasNode(program', ops, a)
  /\ \A s : Through(text, program, Len(program) + 1, s) => Through(text, program', Len(program') + 1, s)

LEMMA KeptGrows == CompiledSoundly /\ Building /\ UNCHANGED program => Grows
BY DEF CompiledSoundly, Building, Grows

LEMMA AddedGrows ==
  ASSUME LinkageTyped, CompiledSoundly, Building, NEW x \in TypedNode, Adds(x),
         x.op = "import" /\ ~x.foreign => Says(text, Root, "import", x.arg),
         x.op = "import" /\ x.foreign => Through(text, program, Len(program) + 1, {x.arg}),
         x.op \in Definitions /\ x.foreign =>
           Through(text, program, Len(program) + 1, {g \in File : Defines(text, g, x.arg)})
  PROVE  Grows /\ \A ops : x.op \in ops => HasNode(program', ops, x.arg)
<1>1. program \in Seq(TypedNode) /\ Sound(text, program, Root) /\ program' = Append(program, x)
  BY DEF LinkageTyped, CompiledSoundly, Building, Adds
<1>2. Sound(text, program', Root)
  BY <1>1, SoundLonger
<1>3. ASSUME NEW s, Through(text, program, Len(program) + 1, s)
      PROVE  Through(text, program', Len(program') + 1, s)
  <2>1. Len(program) + 1 \in Nat /\ Len(program') + 1 \in Nat /\ Len(program) + 1 <= Len(program') + 1
    BY <1>1, Longer
  <2> QED BY <1>1, <1>3, <2>1, ThroughLonger
<1> QED BY <1>1, <1>2, <1>3, NodesKept DEF Grows

LEMMA PastGrows ==
  ASSUME LinkageTyped, CompiledSoundly, NEW op, AtForm(op), Grows,
         op = "import" => HasNode(program', {"import"}, Argument),
         op \in Definitions => HasNode(program', Definitions, Argument)
  PROVE  /\ Covers(text, program', Root, Past[1].next)
         /\ Past[1].file = Root /\ ~Past[1].including
         /\ \A k \in 2 .. Len(Past) :
              Past[k].including /\ Through(text, program', Len(program') + 1, {Past[k].file})
<1>1. Building /\ Len(made) < Len(Build)
  BY DEF AtForm, Building
<1>2. PICK n \in Nat \ {0} : n = Len(parsers)
  BY <1>1, AtParser
<1>3. /\ Len(Past) = n
      /\ \A k \in 1 .. n : Past[k].file = parsers[k].file /\ Past[k].including = parsers[k].including
      /\ \A k \in 1 .. (n - 1) : Past[k] = parsers[k]
      /\ Past[n].next = parsers[n].next + 1
  BY <1>1, <1>2, AtParser
<1>4. /\ Covers(text, program, Root, parsers[1].next)
      /\ parsers[1].file = Root /\ ~parsers[1].including
      /\ \A k \in 2 .. n :
           parsers[k].including /\ Through(text, program, Len(program) + 1, {parsers[k].file})
  BY <1>1, <1>2 DEF CompiledSoundly
<1>5. Past[1].file = Root /\ ~Past[1].including
  BY <1>3, <1>4
<1>6. ASSUME NEW k \in 2 .. n
      PROVE  Past[k].including /\ Through(text, program', Len(program') + 1, {Past[k].file})
  <2>1. k \in 1 .. n
    OBVIOUS
  <2>2. /\ Past[k].file = parsers[k].file /\ Past[k].including
        /\ Through(text, program, Len(program) + 1, {parsers[k].file})
    BY <1>3, <1>4, <2>1
  <2> QED BY <2>2 DEF Grows
<1>7. ASSUME NEW m, Covers(text, program, Root, m) PROVE Covers(text, program', Root, m)
  BY <1>7 DEF Covers, Grows
<1>8. Covers(text, program', Root, Past[1].next)
  <2>1. CASE n = 1
    <3>1. /\ Top(parsers).file = Root /\ Top(parsers).next = parsers[1].next /\ ~Including
          /\ parsers[1].next \in Nat /\ text[Root] \in Seq(Form)
      BY <1>1, <1>2, <1>4, <2>1, AtParser DEF Including
    <3>2. text[Root][parsers[1].next].op = op /\ Argument = text[Root][parsers[1].next].arg
      BY <3>1, AtFormOf DEF Argument
    <3>3. Covers(text, program', Root, parsers[1].next + 1)
      BY <1>4, <1>7, <3>1, <3>2, CoversOneMore
    <3> QED BY <1>3, <2>1, <3>3
  <2>2. CASE n # 1
    BY <1>2, <1>3, <1>4, <1>7, <2>2
  <2> QED BY <2>1, <2>2
<1> QED BY <1>3, <1>5, <1>6, <1>8

LEMMA ParserStepSound ==
  ASSUME LinkageTyped, CompiledSoundly, Building, UNCHANGED <<text, made>>,
         Sound(text, program', Root),
         Covers(text, program', Root, parsers'[1].next),
         parsers'[1].file = Root, ~parsers'[1].including, Root \in scanned',
         \A k \in 2 .. Len(parsers') :
           parsers'[k].including /\ Through(text, program', Len(program') + 1, {parsers'[k].file}),
         imports' \subseteq scanned',
         \A g \in imports' : HasNode(program', {"import"}, g)
  PROVE  CompiledSoundly'
<1>1. Root' = Root
  BY DEF Root
<1> QED BY <1>1 DEF CompiledSoundly

\* The parser that is at a form of another file.
LEMMA IncludedParser ==
  ASSUME LinkageTyped, CompiledSoundly, Building
  PROVE  /\ Including => Through(text, program, Len(program) + 1, {Top(parsers).file})
         /\ ~Including => Top(parsers).file = Root
<1>1. PICK n \in Nat \ {0} : n = Len(parsers)
  BY AtParser
<1>2. Top(parsers) = parsers[n]
  BY <1>1, AtParser
<1>3. /\ parsers[1].file = Root /\ ~parsers[1].including
      /\ \A k \in 2 .. n :
           parsers[k].including /\ Through(text, program, Len(program) + 1, {parsers[k].file})
  BY <1>1 DEF CompiledSoundly, Building
<1>4. n = 1 \/ n \in 2 .. n
  OBVIOUS
<1> QED BY <1>2, <1>3, <1>4 DEF Including

LEMMA ImportSound ==
  ASSUME LinkageTyped, CompiledSoundly, Import
  PROVE  CompiledSoundly'
<1> DEFINE h == Argument
           x == Noded("import", h, Including)
<1>1. AtForm("import") /\ Building /\ h \in File /\ Says(text, Top(parsers).file, "import", h)
  BY AtFormOf DEF Import, AtForm, Directives
<1>2. /\ imports' = imports \cup {h} /\ scanned' = scanned \cup {h} /\ UNCHANGED <<text, made>>
      /\ imports \subseteq scanned /\ Root \in scanned
      /\ \A g \in imports : HasNode(program, {"import"}, g)
  BY <1>1 DEF Import, ReadFrom, CompiledSoundly, Building
<1>3. Top(parsers).file \in File /\ text[Top(parsers).file] \in Seq(Form)
  BY <1>1, AtParser
<1>4. /\ Grows /\ HasNode(program', {"import"}, h)
      /\ h \notin imports => Through(text, program', Len(program') + 1, {h})
  <2>1. CASE h \in imports
    <3>1. UNCHANGED program
      BY <2>1 DEF Import
    <3> QED BY <1>1, <1>2, <2>1, <3>1, KeptGrows
  <2>2. CASE h \notin imports
    <3>1. Adds(x) /\ x \in TypedNode /\ x.op = "import" /\ x.arg = h /\ x.foreign = Including
      BY <1>1, <2>2, NodeTyped, AtFormOf DEF Import, Noded
    <3>2. Including => Through(text, program, Len(program) + 1, {h})
      BY <1>1, <1>3, IncludedParser, ThroughImport
    <3>3. ~Including => Says(text, Root, "import", h)
      BY <1>1, IncludedParser
    <3>4. Grows /\ HasNode(program', {"import"}, h)
      <4>1. "import" \notin Definitions
        BY DEF Definitions
      <4> HIDE DEF x
      <4>2. Grows /\ \A ops : x.op \in ops => HasNode(program', ops, x.arg)
        BY <1>1, <3>1, <3>2, <3>3, <4>1, AddedGrows
      <4> QED BY <3>1, <4>2
    <3>5. Through(text, program', Len(program') + 1, {h})
      <4>1. CASE Including
        BY <3>2, <3>4, <4>1 DEF Grows
      <4>2. CASE ~Including
        <5>1. PICK m \in Nat : m = Len(program)
          BY Files
        <5>2. m + 1 \in DOMAIN program' /\ program'[m + 1] = x /\ Len(program') = m + 1
          <6> HIDE DEF x
          <6> QED BY <3>1, <5>1, Longer DEF LinkageTyped, Adds
        <5>3. DirectImport(program', m + 1) /\ program'[m + 1].arg = h
          BY <3>1, <4>2, <5>2 DEF DirectImport
        <5> QED BY <5>2, <5>3, ReachesItself DEF Through
      <4> QED BY <4>1, <4>2
    <3> QED BY <2>2, <3>4, <3>5
  <2> QED BY <2>1, <2>2
<1>5. PICK n \in Nat \ {0} : n = Len(parsers)
  BY <1>1, AtParser
<1>6. /\ Covers(text, program', Root, Past[1].next)
      /\ Past[1].file = Root /\ ~Past[1].including /\ Len(Past) = n
      /\ \A k \in 2 .. n :
           Past[k].including /\ Through(text, program', Len(program') + 1, {Past[k].file})
  <2>1. "import" \notin Definitions
    BY DEF Definitions
  <2> QED BY <1>1, <1>4, <1>5, <2>1, PastGrows, AtParser
<1>7. /\ Covers(text, program', Root, parsers'[1].next)
      /\ parsers'[1].file = Root /\ ~parsers'[1].including
      /\ \A k \in 2 .. Len(parsers') :
           parsers'[k].including /\ Through(text, program', Len(program') + 1, {parsers'[k].file})
  <2>1. ReadFrom(h, TRUE)
    BY DEF Import
  <2>2. CASE h \in scanned
    <3>1. parsers' = Past
      BY <2>1, <2>2 DEF ReadFrom
    <3> QED BY <1>6, <3>1
  <2>3. CASE h \notin scanned
    <3>1. /\ Len(parsers') = n + 1 /\ parsers'[n + 1] = Parsing(h, 1, TRUE)
          /\ \A k \in 1 .. n : parsers'[k] = Past[k]
      BY <1>1, <1>5, <2>1, <2>3, ReadFromTyped
    <3>2. parsers'[1] = Past[1]
      BY <3>1
    <3>3. parsers'[n + 1].including /\ parsers'[n + 1].file = h
      BY <3>1 DEF Parsing
    <3>4. Through(text, program', Len(program') + 1, {h})
      BY <1>2, <1>4, <2>3
    <3>5. ASSUME NEW k \in 2 .. Len(parsers')
          PROVE  parsers'[k].including /\ Through(text, program', Len(program') + 1, {parsers'[k].file})
      <4>1. k = n + 1 \/ (k \in 2 .. n /\ k \in 1 .. n)
        BY <3>1
      <4> QED BY <1>6, <3>1, <3>3, <3>4, <4>1
    <3> QED BY <1>6, <3>2, <3>5
  <2> QED BY <2>2, <2>3
<1>8. \A g \in imports' : HasNode(program', {"import"}, g)
  BY <1>2, <1>4 DEF Grows
<1>9. imports' \subseteq scanned' /\ Root \in scanned'
  BY <1>2
<1> QED BY <1>1, <1>2, <1>4, <1>7, <1>8, <1>9, ParserStepSound DEF Grows

\* A form that only adds a node, if any.
LEMMA NodeSound ==
  ASSUME LinkageTyped, CompiledSoundly, NEW op, AtForm(op), Grows,
         op = "import" => HasNode(program', {"import"}, Argument),
         op \in Definitions => HasNode(program', Definitions, Argument),
         parsers' = Past, UNCHANGED <<text, scanned, imports, made>>
  PROVE  CompiledSoundly'
<1>1. Building
  BY DEF AtForm
<1>2. /\ imports \subseteq scanned /\ Root \in scanned
      /\ \A g \in imports : HasNode(program, {"import"}, g)
  BY <1>1 DEF CompiledSoundly, Building
<1>3. \A g \in imports' : HasNode(program', {"import"}, g)
  BY <1>2 DEF Grows
<1>4. Sound(text, program', Root)
  BY DEF Grows
<1>5. /\ Covers(text, program', Root, parsers'[1].next)
      /\ parsers'[1].file = Root /\ ~parsers'[1].including
      /\ \A k \in 2 .. Len(parsers') :
           parsers'[k].including /\ Through(text, program', Len(program') + 1, {parsers'[k].file})
  BY PastGrows
<1> QED BY <1>1, <1>2, <1>3, <1>4, <1>5, ParserStepSound

\* A definition, with a node of its own.
LEMMA DefinitionGrows ==
  ASSUME LinkageTyped, CompiledSoundly, NEW op \in Definitions, AtForm(op),
         Adds(Noded(op, Argument, Including))
  PROVE  Grows /\ HasNode(program', Definitions, Argument)
<1> DEFINE x == Noded(op, Argument, Including)
<1>1. /\ Building /\ Says(text, Top(parsers).file, op, Argument)
      /\ Top(parsers).file \in File /\ Including \in BOOLEAN
  BY AtFormOf, AtParser DEF AtForm
<1>2. x \in TypedNode /\ x.op = op /\ x.arg = Argument /\ x.foreign = Including
  BY <1>1, NodeTyped DEF Noded
<1>3. Including => Through(text, program, Len(program) + 1, {g \in File : Defines(text, g, Argument)})
  <2>1. Top(parsers).file \in {g \in File : Defines(text, g, Argument)}
    BY <1>1 DEF Defines
  <2> QED BY <1>1, <2>1, IncludedParser, ThroughWithin
<1>4. op # "import" /\ Adds(x)
  BY DEF Definitions
<1> HIDE DEF x
<1>5. Grows /\ \A ops : x.op \in ops => HasNode(program', ops, x.arg)
  BY <1>1, <1>2, <1>3, <1>4, AddedGrows
<1> QED BY <1>2, <1>5

LEMMA DeclarationSound ==
  ASSUME LinkageTyped, CompiledSoundly, Prototype \/ Variable
  PROVE  CompiledSoundly'
<1>1. ASSUME Rejects PROVE CompiledSoundly'
  <2>1. Root' = Root
    BY <1>1 DEF Rejects, compiling, Root
  <2> QED BY <1>1, <2>1 DEF Rejects, compiling, CompiledSoundly
<1>2. \A ops : Declared(ops) <=> HasNode(program, ops, Argument)
  BY DEF Declared, HasNode
<1>3. CASE Prototype
  <2>1. AtForm("prototype") /\ "prototype" \in Definitions /\ "prototype" # "import" /\ Building
    BY <1>3 DEF Prototype, Definitions, AtForm
  <2>2. CASE Declared({"variable"})
    BY <1>1, <1>3, <2>2 DEF Prototype
  <2>3. CASE ~Declared({"variable"})
    <3>1. parsers' = Past /\ UNCHANGED <<text, scanned, imports, made>>
      BY <1>3, <2>3 DEF Prototype
    <3>2. CASE Declared({"prototype"})
      <4>1. UNCHANGED program
        BY <1>3, <2>3, <3>2 DEF Prototype
      <4>2. HasNode(program, Definitions, Argument)
        BY <3>2 DEF Declared, HasNode, Definitions
      <4> QED BY <2>1, <3>1, <4>1, <4>2, KeptGrows, NodeSound
    <3>3. CASE ~Declared({"prototype"})
      <4>1. Adds(Noded("prototype", Argument, Including))
        BY <1>3, <2>3, <3>3 DEF Prototype
      <4> QED BY <2>1, <3>1, <4>1, DefinitionGrows, NodeSound
    <3> QED BY <3>2, <3>3
  <2> QED BY <2>2, <2>3
<1>4. CASE Variable
  <2>1. AtForm("variable") /\ "variable" \in Definitions /\ "variable" # "import"
    BY <1>4 DEF Variable, Definitions
  <2>2. CASE Declared(Definitions)
    BY <1>1, <1>4, <2>2 DEF Variable
  <2>3. CASE ~Declared(Definitions)
    <3>1. parsers' = Past /\ UNCHANGED <<text, scanned, imports, made>>
          /\ Adds(Noded("variable", Argument, Including))
      BY <1>4, <2>3 DEF Variable
    <3> QED BY <2>1, <3>1, DefinitionGrows, NodeSound
  <2> QED BY <2>2, <2>3
<1> QED BY <1>3, <1>4

LEMMA ImperativeSound ==
  ASSUME LinkageTyped, CompiledSoundly, Imperative
  PROVE  CompiledSoundly'
<1>1. PICK op \in Imperatives :
        AtForm(op) /\ IF Including THEN UNCHANGED program ELSE Adds(Noded(op, Argument, FALSE))
  BY DEF Imperative
<1>2. parsers' = Past /\ UNCHANGED <<text, scanned, imports, made>> /\ Building
      /\ op # "import" /\ op \notin Definitions
  BY <1>1 DEF Imperative, AtForm, Imperatives, Definitions
<1>3. Grows
  <2>1. CASE Including
    BY <1>1, <1>2, <2>1, KeptGrows
  <2>2. CASE ~Including
    <3> DEFINE x == Noded(op, Argument, FALSE)
    <3>1. x \in TypedNode /\ x.op = op
      BY <1>1, NodeTyped DEF Noded
    <3>2. Adds(x)
      BY <1>1, <2>2
    <3> HIDE DEF x
    <3> QED BY <1>2, <3>1, <3>2, AddedGrows
  <2> QED BY <2>1, <2>2
<1> QED BY <1>1, <1>2, <1>3, NodeSound

LEMMA EndOfFileSound ==
  ASSUME LinkageTyped, CompiledSoundly, EndOfFile
  PROVE  CompiledSoundly'
<1>1. /\ Building /\ Len(parsers) > 1 /\ parsers' = Below(parsers)
      /\ UNCHANGED <<text, scanned, imports, program, made>>
  BY DEF EndOfFile, AtEnd
<1>2. PICK n \in Nat : n = Len(parsers)
  BY Files
<1>3. n > 1 /\ Len(parsers') = n - 1 /\ \A k \in 1 .. (n - 1) : parsers'[k] = parsers[k]
  BY <1>1, <1>2, BackTyped
<1>4. /\ Sound(text, program, Root) /\ Covers(text, program, Root, parsers[1].next)
      /\ parsers[1].file = Root /\ ~parsers[1].including /\ Root \in scanned
      /\ \A k \in 2 .. n :
           parsers[k].including /\ Through(text, program, Len(program) + 1, {parsers[k].file})
      /\ imports \subseteq scanned
      /\ \A g \in imports : HasNode(program, {"import"}, g)
  BY <1>1, <1>2 DEF CompiledSoundly, Building
<1>5. parsers'[1] = parsers[1]
  BY <1>3
<1>6. ASSUME NEW k \in 2 .. (n - 1)
      PROVE  parsers'[k].including /\ Through(text, program', Len(program') + 1, {parsers'[k].file})
  <2>1. k \in 1 .. (n - 1) /\ k \in 2 .. n
    OBVIOUS
  <2> QED BY <1>1, <1>3, <1>4, <2>1
<1> QED BY <1>1, <1>3, <1>4, <1>5, <1>6, ParserStepSound

LEMMA CompiledSound ==
  ASSUME LinkageTyped, CompiledSoundly, Compiled
  PROVE  CompiledSoundly'
<1>1. Building /\ Len(parsers) = 1 /\ Top(parsers).next > Len(text[Top(parsers).file])
  BY DEF Compiled, AtEnd
<1>2. CASE Names(program, Imperatives) \subseteq Names(program, Definitions)
  <2> DEFINE more == Len(made) + 1 < Len(Build)
  <2>1. PICK n \in Nat : n = Len(made)
    BY Files
  <2>2. /\ made' = Append(made, program) /\ program' = <<>> /\ imports' = {} /\ UNCHANGED text
        /\ parsers' = IF more THEN << Parsing(Build[Len(made) + 2], 1, FALSE) >> ELSE <<>>
        /\ scanned' = IF more THEN {Build[Len(made) + 2]} ELSE {}
    BY <1>2 DEF Compiled
  <2>3. /\ Len(made') = n + 1 /\ DOMAIN made' = 1 .. (n + 1) /\ made'[n + 1] = program
        /\ \A i \in DOMAIN made : made'[i] = made[i]
        /\ DOMAIN made = 1 .. n
    BY <2>1, <2>2, AppendProperties DEF LinkageTyped
  <2>4. /\ Sound(text, program, Root) /\ Covers(text, program, Root, parsers[1].next)
        /\ parsers[1].file = Root /\ Root = Build[n + 1]
    BY <1>1, <2>1 DEF CompiledSoundly, Building, Root
  <2>5. Covers(text, program, Root, Len(text[Root]) + 1)
    <3>1. parsers[1] = Top(parsers) /\ parsers[1].next \in Nat /\ text[Root] \in Seq(Form)
      BY <1>1, <2>4, AtParser
    <3>2. \A i \in DOMAIN text[Root] : i < parsers[1].next
      BY <1>1, <2>4, <3>1
    <3> QED BY <2>4, <3>2 DEF Covers
  <2>6. ASSUME NEW i \in DOMAIN made'
        PROVE  /\ Sound(text, made'[i], Build[i])
               /\ Covers(text, made'[i], Build[i], Len(text[Build[i]]) + 1)
    <3>1. CASE i \in DOMAIN made
      BY <2>3, <3>1 DEF CompiledSoundly
    <3>2. CASE i = n + 1
      BY <2>3, <2>4, <2>5, <3>2
    <3> QED BY <2>3, <3>1, <3>2
  <2>7. ASSUME Len(made') < Len(Build)
        PROVE  /\ Root' = Build[n + 2] /\ parsers' = << Parsing(Root', 1, FALSE) >>
               /\ scanned' = {Root'}
    <3>1. more
      BY <2>1, <2>3, <2>7
    <3>2. Root' = Build[n + 2]
      BY <2>3 DEF Root
    <3> QED BY <2>1, <2>2, <3>1, <3>2
  <2>8. ASSUME Len(made') < Len(Build)
        PROVE  /\ Sound(text, program', Root') /\ Covers(text, program', Root', parsers'[1].next)
               /\ parsers'[1].file = Root' /\ ~parsers'[1].including /\ Root' \in scanned'
               /\ Len(parsers') = 1
    <3>1. /\ parsers'[1].file = Root' /\ ~parsers'[1].including /\ parsers'[1].next = 1
          /\ Len(parsers') = 1 /\ Root' \in scanned'
      BY <2>7, <2>8 DEF Parsing
    <3>2. Sound(text, program', Root')
      BY <2>2 DEF Sound
    <3>3. Root' \in File
      BY <2>7, <2>8, CompiledTyped DEF LinkageTyped
    <3>4. \A i \in DOMAIN text[Root'] : ~(i < 1)
      BY <3>3, Files
    <3> QED BY <3>1, <3>2, <3>4 DEF Covers
  <2>9. ASSUME Len(made') < Len(Build) PROVE \A k \in 2 .. Len(parsers') : FALSE
    <3>1. Len(parsers') = 1
      BY <2>8, <2>9
    <3> QED BY <3>1
  <2>10. UNCHANGED text /\ imports' = {}
    BY <2>2
  <2> HIDE DEF more
  <2> QED BY <2>6, <2>8, <2>9, <2>10 DEF CompiledSoundly
<1>3. CASE ~(Names(program, Imperatives) \subseteq Names(program, Definitions))
  <2>1. Rejects
    BY <1>3 DEF Compiled
  <2>2. Root' = Root
    BY <2>1 DEF Rejects, compiling, Root
  <2> QED BY <2>1, <2>2 DEF Rejects, compiling, CompiledSoundly
<1> QED BY <1>2, <1>3

LEMMA CompilingSound ==
  ASSUME LinkageTyped, OnlyImports, CompiledSoundly, [Next]_vars
  PROVE  CompiledSoundly'
<1>1. CASE Import
  BY <1>1, ImportSound
<1>2. CASE Include \/ Input
  <2>1. AtForm("include") \/ AtForm("input")
    BY <1>2 DEF Include, Input
  <2>2. Building
    BY <2>1 DEF AtForm
  <2>3. PICK op \in {"include", "input"} : AtForm(op)
    BY <2>1
  <2>4. op \in Directives
    BY <2>3 DEF Directives
  <2>5. Argument \in File /\ Top(parsers).file \in File /\ Says(text, Top(parsers).file, op, Argument)
    BY <2>2, <2>3, <2>4, AtFormOf, AtParser
  <2>6. Has(Top(parsers).file, op, Argument)
    BY <2>5, HasSays
  <2> QED BY <2>3, <2>5, <2>6 DEF OnlyImports
<1>3. CASE Prototype \/ Variable
  BY <1>3, DeclarationSound
<1>4. CASE Imperative
  BY <1>4, ImperativeSound
<1>5. CASE EndOfFile
  BY <1>5, EndOfFileSound
<1>6. CASE Compiled
  BY <1>6, CompiledSound
<1>7. ASSUME UNCHANGED <<text, compiling>> PROVE CompiledSoundly'
  <2>1. Root' = Root
    BY <1>7 DEF compiling, Root
  <2> QED BY <1>7, <2>1 DEF compiling, CompiledSoundly
<1>8. CASE Start \/ Load \/ BindForeign \/ Define \/ Assign \/ Use \/ Return \/ UNCHANGED vars
  BY <1>7, <1>8 DEF Start, Load, BindForeign, Define, Assign, Exports, Use, Return, Fatal, vars
<1> QED BY <1>1, <1>2, <1>3, <1>4, <1>5, <1>6, <1>8 DEF Next

-----------------------------------------------------------------------------
(* Running files that only import, not in a circle.                        *)

LEMMA CodeSound ==
  ASSUME LinkageTyped, CompiledSoundly, Len(made) = Len(Build), NEW f \in File
  PROVE  Sound(text, Code(f), f) /\ Covers(text, Code(f), f, Len(text[f]) + 1)
<1>1. PICK i \in DOMAIN Build : Build[i] = f /\ Code(f) = made[i] /\ i \in DOMAIN made
  BY CodeOf
<1> QED BY <1>1 DEF CompiledSoundly

\* What runs cannot import what is on the stack.
LEMMA NoCircle ==
  ASSUME LinkageTyped, Acyclic, StackInOrder, NEW k \in DOMAIN stack,
         Says(text, stack[Len(stack)].file, "import", stack[k].file)
  PROVE  FALSE
<1>1. PICK n \in Nat : n = Len(stack)
  BY Files
<1>2. stack \in Seq(Frame) /\ DOMAIN stack = 1 .. n /\ k \in 1 .. n
  BY <1>1, Files DEF LinkageTyped
<1>3. \A j \in 1 .. n : stack[j].file \in File
  <2>1. \A j \in 1 .. n : stack[j] \in Frame
    BY <1>2
  <2> QED BY <2>1 DEF Frame
<1> DEFINE s == {stack[j].file : j \in k .. n}
<1>4. \A j \in k .. n : j \in 1 .. n
  BY <1>2
<1>5. s \in SUBSET File /\ s # {}
  BY <1>2, <1>3, <1>4
<1>6. s \subseteq Imported(s)
  <2> SUFFICES ASSUME NEW j \in k .. n PROVE stack[j].file \in Imported(s)
    OBVIOUS
  <2>1. j \in 1 .. n /\ stack[j].file \in File
    BY <1>3, <1>4
  <2>2. CASE j = k
    <3>1. stack[n].file \in s
      BY <1>2
    <3>2. Says(text, stack[n].file, "import", stack[j].file)
      BY <1>1, <2>2
    <3> HIDE DEF s
    <3> QED BY <2>1, <3>1, <3>2, HasSays DEF Imported
  <2>3. CASE j # k
    <3>1. j - 1 \in k .. n /\ j - 1 \in 1 .. (n - 1) /\ j = (j - 1) + 1
      BY <1>2, <2>3
    <3>2. Says(text, stack[j - 1].file, "import", stack[(j - 1) + 1].file)
      BY <1>1, <3>1 DEF StackInOrder
    <3>3. stack[j - 1].file \in s
      BY <3>1
    <3>4. Says(text, stack[j - 1].file, "import", stack[j].file)
      BY <3>1, <3>2
    <3> HIDE DEF s
    <3> QED BY <2>1, <3>3, <3>4, HasSays DEF Imported
  <2> QED BY <2>2, <2>3
<1> HIDE DEF s
<1> QED BY <1>5, <1>6 DEF Acyclic

\* All but the innermost initialiser, and the nodes it has passed.
LEMMA InnermostPassed ==
  ASSUME LinkageTyped, LoadedSoundly, outcome = "running"
  PROVE  \A j \in DOMAIN Code(Here) : j < Top(stack).next =>
           /\ Code(Here)[j].op = "import" /\ ~Code(Here)[j].foreign => Code(Here)[j].arg \in Completed
           /\ Code(Here)[j].op \in Definitions => globals[Code(Here)[j].arg] # Nil
<1>1. PICK n \in Nat \ {0} : n = Len(stack)
  BY AtFrame
<1>2. n \in DOMAIN stack /\ stack[n].file = Here /\ stack[n] = Top(stack) /\ ~(n < Len(stack))
  BY <1>1, AtFrame
<1> SUFFICES ASSUME NEW j \in DOMAIN Code(Here), j < Top(stack).next
             PROVE  /\ Code(Here)[j].op = "import" /\ ~Code(Here)[j].foreign => Code(Here)[j].arg \in Completed
                    /\ Code(Here)[j].op \in Definitions => globals[Code(Here)[j].arg] # Nil
  OBVIOUS
<1>3. PassedNode(n, j)
  BY <1>2 DEF LoadedSoundly
<1> QED BY <1>2, <1>3 DEF PassedNode

LEMMA CompletedStays ==
  ASSUME LinkageTyped, outcome = "running", stack' = On, started' = started
  PROVE  Completed' = Completed
<1>1. DOMAIN stack' = DOMAIN stack /\ \A k \in DOMAIN stack : stack'[k].file = stack[k].file
  BY AtFrame
<1> QED BY <1>1 DEF Completed

(***************************************************************************)
(* The innermost initialiser passes a node.                                *)
(***************************************************************************)
LEMMA OnLoaded ==
  ASSUME LinkageTyped, LoadedSoundly, NEW ops, AtNode(ops), UNCHANGED <<text, made>>,
         stack' = On, started' = started, outcome' # "fatal",
         \A n \in Name : globals[n] # Nil => globals'[n] # Nil,
         ThisNode.op = "import" /\ ~ThisNode.foreign => ThisNode.arg \in Completed,
         ThisNode.op \in Definitions => globals'[ThisNode.arg] # Nil
  PROVE  LoadedSoundly'
<1>1. outcome = "running"
  BY DEF AtNode
<1>2. PICK n \in Nat \ {0} : n = Len(stack)
  BY <1>1, AtFrame
<1>3. /\ DOMAIN stack = 1 .. n /\ DOMAIN stack' = 1 .. n /\ Len(stack') = n
      /\ \A k \in 1 .. n : stack'[k].file = stack[k].file
      /\ \A k \in 1 .. (n - 1) : stack'[k] = stack[k]
      /\ stack'[n].next = stack[n].next + 1 /\ stack[n].next \in Nat
      /\ Here = stack[n].file /\ Top(stack) = stack[n]
  BY <1>1, <1>2, AtFrame
<1>4. Completed' = Completed
  BY <1>1, CompletedStays
<1>5. \A k : Code(stack[k].file)' = Code(stack'[k].file)
  BY DEF Code
<1>6. StackInOrder'
  <2>1. stack' # <<>> /\ stack # <<>> /\ 1 \in 1 .. n
    BY <1>2, <1>3
  <2>2. StackInOrder
    BY DEF LoadedSoundly
  <2>3. \A k \in 1 .. (n - 1) : k \in 1 .. n /\ k + 1 \in 1 .. n
    OBVIOUS
  <2>4. /\ stack[1].file = Main /\ \A k \in 1 .. n : stack[k].file \in started
        /\ \A k, l \in 1 .. n : stack[k].file = stack[l].file => k = l
        /\ \A k \in 1 .. (n - 1) : Says(text, stack[k].file, "import", stack[k + 1].file)
    BY <1>2, <1>3, <2>1, <2>2 DEF StackInOrder
  <2>5. /\ stack'[1].file = Main /\ \A k \in 1 .. n : stack'[k].file \in started
        /\ \A k, l \in 1 .. n : stack'[k].file = stack'[l].file => k = l
        /\ \A k \in 1 .. (n - 1) : Says(text, stack'[k].file, "import", stack'[k + 1].file)
    BY <1>3, <2>1, <2>3, <2>4
  <2> QED BY <1>3, <2>5 DEF StackInOrder
<1>7. CompletedClosed'
  <2>1. ASSUME NEW f \in Completed', NEW m \in Name, Defines(text, f, m) PROVE globals'[m] # Nil
    BY <1>4, <2>1 DEF LoadedSoundly, CompletedClosed
  <2>2. Closed(text, Completed')
    BY <1>4 DEF LoadedSoundly, CompletedClosed
  <2> QED BY <2>1, <2>2 DEF CompletedClosed
<1>8. ASSUME NEW k \in DOMAIN stack', NEW j \in DOMAIN Code(stack[k].file)', j < stack'[k].next
      PROVE  PassedNode(k, j)'
  <2> DEFINE node == Code(stack[k].file)[j]
  <2>1. k \in 1 .. n /\ j \in DOMAIN Code(stack[k].file) /\ Code(stack[k].file)'[j] = node
    BY <1>3, <1>5, <1>8
  <2>2. node \in TypedNode
    <3>1. stack[k].file \in File
      <4>1. stack[k] \in Frame
        BY <1>3, <2>1 DEF LinkageTyped
      <4> QED BY <4>1 DEF Frame
    <3>2. Code(stack[k].file) \in Seq(TypedNode)
      BY <1>1, <3>1, AtFrame, CodeOf
    <3> QED BY <2>1, <3>2
  <2>3. node.op \in Definitions => node.arg \in Name
    BY <2>2 DEF TypedNode, Definitions
  <2>4. CASE k < n
    <3>1. k \in 1 .. (n - 1) /\ k + 1 \in 1 .. n
      BY <2>1, <2>4
    <3>2. PassedNode(k, j) /\ stack'[k].next = stack[k].next /\ stack'[k + 1].file = stack[k + 1].file
      BY <1>3, <1>8, <2>1, <3>1 DEF LoadedSoundly
    <3>3. /\ node.op = "import" /\ ~node.foreign =>
               \/ node.arg \in Completed
               \/ k < n /\ j = stack[k].next - 1 /\ node.arg = stack[k + 1].file
          /\ node.op \in Definitions => globals[node.arg] # Nil
      BY <1>2, <3>2 DEF PassedNode
    <3>4. node.op \in Definitions => globals'[node.arg] # Nil
      BY <2>3, <3>3
    <3> HIDE DEF node
    <3> QED BY <1>3, <1>4, <2>1, <3>2, <3>3, <3>4 DEF PassedNode
  <2>5. CASE k = n /\ j < Top(stack).next
    <3>1. /\ node.op = "import" /\ ~node.foreign => node.arg \in Completed
          /\ node.op \in Definitions => globals[node.arg] # Nil
      BY <1>1, <1>3, <2>1, <2>5, InnermostPassed
    <3>2. node.op \in Definitions => globals'[node.arg] # Nil
      BY <2>3, <3>1
    <3> HIDE DEF node
    <3> QED BY <1>4, <2>1, <3>1, <3>2 DEF PassedNode
  <2>6. CASE k = n /\ ~(j < Top(stack).next)
    <3>1. j \in Nat
      <4>1. Code(Here) \in Seq(TypedNode)
        BY <1>1, AtFrame
      <4> QED BY <1>3, <2>1, <2>6, <4>1
    <3>2. j = Top(stack).next
      BY <1>3, <1>8, <2>6, <3>1
    <3>3. node = ThisNode
      BY <1>3, <2>6, <3>2 DEF ThisNode
    <3> HIDE DEF node
    <3> QED BY <1>4, <2>1, <3>3 DEF PassedNode
  <2> QED BY <1>2, <2>1, <2>4, <2>5, <2>6
<1> QED BY <1>6, <1>7, <1>8 DEF LoadedSoundly

LEMMA NodeSoundAt ==
  ASSUME LinkageTyped, CompiledSoundly, NEW ops, AtNode(ops)
  PROVE  SoundNode(text, Code(Here), Here, Top(stack).next)
<1>1. outcome = "running"
  BY DEF AtNode
<1>2. Sound(text, Code(Here), Here)
  BY <1>1, AtFrame, CodeSound
<1> QED BY <1>2, AtNodeOf DEF Sound

\* Whatever is reached through an import that has been passed is complete.
LEMMA ThroughCompleted ==
  ASSUME LinkageTyped, LoadedSoundly, outcome = "running", NEW i, NEW s,
         Through(text, Code(Here), i, s), \A j \in DOMAIN Code(Here) : j < i => j < Top(stack).next
  PROVE  Completed \cap s # {}
<1>1. PICK j \in DOMAIN Code(Here) :
        j < i /\ DirectImport(Code(Here), j) /\ Reaches(text, Code(Here)[j].arg, s)
  BY DEF Through
<1>2. Code(Here)[j].arg \in Completed
  BY <1>1, InnermostPassed DEF DirectImport
<1>3. Completed \in SUBSET File /\ Closed(text, Completed)
  BY DEF Completed, LoadedSoundly, CompletedClosed, LinkageTyped
<1> QED BY <1>1, <1>2, <1>3 DEF Reaches

LEMMA LoadLoaded ==
  ASSUME LinkageTyped, Acyclic, CompiledSoundly, LoadedSoundly, Load
  PROVE  LoadedSoundly'
<1> DEFINE g == ThisNode.arg
<1>1. /\ AtNode({"import"}) /\ outcome = "running" /\ ThisNode.op = "import" /\ g \in File
      /\ ThisNode.op \notin Definitions
  BY AtNodeOf DEF Load, AtNode, Definitions
<1>2. PICK n \in Nat \ {0} : n = Len(stack)
  BY <1>1, AtFrame
<1>3. StackInOrder /\ outcome # "fatal"
  BY DEF LoadedSoundly
<1>4. CASE ThisNode.foreign
  <2>1. stack' = On /\ UNCHANGED <<text, made, started, globals, outcome>>
    BY <1>4 DEF Load, compiling
  <2> QED BY <1>1, <1>3, <1>4, <2>1, OnLoaded
<1>5. CASE ~ThisNode.foreign
  <2>1. Says(text, Here, "import", g)
    <3>1. DirectImport(Code(Here), Top(stack).next)
      BY <1>1, <1>5, AtNodeOf DEF DirectImport
    <3> QED BY <1>1, <3>1, NodeSoundAt, AtNodeOf DEF SoundNode
  <2>2. \A k \in DOMAIN stack : stack[k].file # g
    <3> SUFFICES ASSUME NEW k \in DOMAIN stack, stack[k].file = g PROVE FALSE
      OBVIOUS
    <3>1. Says(text, stack[Len(stack)].file, "import", stack[k].file)
      BY <1>1, <2>1, AtFrame
    <3> QED BY <1>3, <3>1, NoCircle
  <2>3. g \in Library
    <3>1. stack[1].file = Main /\ 1 \in DOMAIN stack
      BY <1>1, <1>2, <1>3, AtFrame DEF StackInOrder, LinkageTyped
    <3>2. g # Main
      BY <2>2, <3>1
    <3> QED BY <1>1, <3>2 DEF File
  <2>4. Call(g) /\ UNCHANGED <<text, made, globals, outcome>>
    BY <1>5, <2>3 DEF Load, compiling
  <2>5. CASE g \in started
    <3>1. stack' = On /\ started' = started
      BY <1>1, <2>4, <2>5, Called
    <3>2. g \in Completed
      BY <2>2, <2>5 DEF Completed
    <3> QED BY <1>1, <1>3, <2>4, <3>1, <3>2, OnLoaded
  <2>6. CASE g \notin started
    <3>1. /\ started' = started \cup {g}
          /\ Len(stack') = n + 1 /\ DOMAIN stack' = 1 .. (n + 1) /\ DOMAIN stack = 1 .. n
          /\ stack'[n + 1] = [file |-> g, next |-> 1]
          /\ \A k \in 1 .. n : stack'[k] = On[k]
      BY <1>1, <1>2, <2>4, <2>6, Called, AtFrame
    <3>2. /\ \A k \in 1 .. n : stack'[k].file = stack[k].file
          /\ \A k \in 1 .. (n - 1) : stack'[k] = stack[k]
          /\ stack'[n].next = stack[n].next + 1 /\ stack[n].next \in Nat
          /\ Here = stack[n].file /\ Top(stack) = stack[n]
      <4>1. /\ \A k \in 1 .. n : On[k].file = stack[k].file
            /\ \A k \in 1 .. (n - 1) : On[k] = stack[k]
            /\ On[n].next = stack[n].next + 1 /\ stack[n].next \in Nat
            /\ Here = stack[n].file /\ Top(stack) = stack[n]
        BY <1>1, <1>2, AtFrame
      <4>2. n \in 1 .. n /\ \A k \in 1 .. (n - 1) : k \in 1 .. n
        OBVIOUS
      <4> QED BY <3>1, <4>1, <4>2
    <3>3. stack'[n + 1].file = g /\ stack'[n + 1].next = 1
      BY <3>1
    <3>4. \A k \in 1 .. (n + 1) : k \in 1 .. n \/ k = n + 1
      OBVIOUS
    <3>5. \A k \in 1 .. n : stack[k].file \in started
      BY <1>3, <3>1 DEF StackInOrder
    <3>6. Completed' = Completed
      <4>1. ASSUME NEW f \in Completed' PROVE f \in Completed
        <5>1. n + 1 \in DOMAIN stack' /\ \A k \in 1 .. n : k \in DOMAIN stack'
          BY <3>1
        <5> QED BY <3>1, <3>2, <3>3, <5>1 DEF Completed
      <4>2. ASSUME NEW f \in Completed PROVE f \in Completed'
        BY <2>6, <3>1, <3>2, <3>3, <3>4 DEF Completed
      <4> QED BY <4>1, <4>2
    <3>7. StackInOrder'
      <4>1. stack'[1].file = Main
        <5>1. 1 \in 1 .. n /\ stack # <<>>
          BY <1>1 DEF LinkageTyped
        <5> QED BY <1>3, <3>2, <5>1 DEF StackInOrder
      <4>2. \A k \in DOMAIN stack' : stack'[k].file \in started'
        BY <3>1, <3>2, <3>3, <3>4, <3>5
      <4>3. \A k, l \in DOMAIN stack' : stack'[k].file = stack'[l].file => k = l
        <5>1. \A k, l \in 1 .. n : stack[k].file = stack[l].file => k = l
          BY <1>3, <3>1 DEF StackInOrder
        <5> QED BY <2>6, <3>1, <3>2, <3>3, <3>4, <3>5, <5>1
      <4>4. ASSUME NEW k \in 1 .. n
            PROVE  Says(text, stack'[k].file, "import", stack'[k + 1].file)
        <5>1. CASE k = n
          BY <2>1, <3>2, <3>3, <5>1
        <5>2. CASE k # n
          <6>1. k \in 1 .. (n - 1) /\ k + 1 \in 1 .. n
            BY <5>2
          <6>2. Says(text, stack[k].file, "import", stack[k + 1].file)
            BY <1>2, <1>3, <6>1 DEF StackInOrder
          <6> QED BY <3>2, <6>1, <6>2
        <5> QED BY <5>1, <5>2
      <4>5. \A k \in 1 .. (Len(stack') - 1) : k \in 1 .. n
        BY <3>1
      <4> QED BY <2>4, <4>1, <4>2, <4>3, <4>4, <4>5 DEF StackInOrder
    <3>8. CompletedClosed'
      <4>1. CompletedClosed
        BY DEF LoadedSoundly
      <4> QED BY <2>4, <3>6, <4>1 DEF CompletedClosed
    <3>9. \A k : Code(stack[k].file)' = Code(stack'[k].file)
      BY <2>4 DEF Code
    <3>10. ASSUME NEW k \in DOMAIN stack', NEW j \in DOMAIN Code(stack[k].file)', j < stack'[k].next
           PROVE  PassedNode(k, j)'
      <4> DEFINE node == Code(stack'[k].file)[j]
      <4>1. CASE k \in 1 .. (n - 1)
        <5>1. k \in 1 .. n /\ k + 1 \in 1 .. n /\ k < n /\ k < n + 1
          BY <4>1
        <5>2. stack'[k] = stack[k] /\ stack'[k + 1].file = stack[k + 1].file
          BY <3>2, <4>1, <5>1
        <5>3. PassedNode(k, j)
          BY <3>1, <3>9, <3>10, <5>1, <5>2 DEF LoadedSoundly
        <5> QED BY <1>2, <2>4, <3>1, <3>6, <3>9, <5>1, <5>2, <5>3 DEF PassedNode
      <4>2. CASE k = n
        <5>1. Code(stack'[k].file) = Code(Here) /\ j \in DOMAIN Code(Here)
          BY <3>2, <3>9, <3>10, <4>2
        <5>2. j \in Nat
          <6>1. Code(Here) \in Seq(TypedNode)
            BY <1>1, AtFrame
          <6> QED BY <5>1, <6>1
        <5>3. CASE j < Top(stack).next
          BY <1>1, <2>4, <3>6, <3>9, <5>1, <5>3, InnermostPassed DEF PassedNode
        <5>4. CASE ~(j < Top(stack).next)
          <6>1. j = Top(stack).next
            BY <3>2, <3>10, <4>2, <5>2, <5>4
          <6>2. node = ThisNode
            BY <5>1, <6>1 DEF ThisNode
          <6>3. k < Len(stack') /\ j = stack'[k].next - 1 /\ node.arg = stack'[k + 1].file
            BY <3>1, <3>2, <3>3, <4>2, <6>1, <6>2
          <6> HIDE DEF node
          <6>4. node.op \notin Definitions
            BY <1>1, <6>2
          <6>5. Code(stack[k].file)'[j] = node
            BY <3>9 DEF node
          <6> QED BY <6>3, <6>4, <6>5 DEF PassedNode
        <5> QED BY <5>3, <5>4
      <4>3. CASE k = n + 1
        <5>1. j < 1 /\ g \in File
          BY <1>1, <3>3, <3>10, <4>3
        <5>2. Code(g) \in Seq(TypedNode)
          BY <1>1, AtFrame, CodeOf
        <5>3. j \in DOMAIN Code(g)
          BY <3>3, <3>9, <3>10, <4>3
        <5> QED BY <5>1, <5>2, <5>3
      <4>4. k \in 1 .. (n - 1) \/ k = n \/ k = n + 1
        BY <3>1
      <4> QED BY <4>1, <4>2, <4>3, <4>4
    <3> QED BY <1>3, <2>4, <3>7, <3>8, <3>10 DEF LoadedSoundly
  <2> QED BY <2>5, <2>6
<1> QED BY <1>4, <1>5

LEMMA BindForeignLoaded ==
  ASSUME LinkageTyped, CompiledSoundly, LoadedSoundly, BindForeign
  PROVE  LoadedSoundly'
<1>1. /\ AtNode(Definitions) /\ outcome = "running" /\ ThisNode.foreign /\ ThisNode.op \in Definitions
      /\ ThisNode.arg \in Name /\ ThisNode.op # "import"
  BY AtNodeOf DEF BindForeign, AtNode, Definitions
<1>2. globals[ThisNode.arg] # Nil
  <2> DEFINE i == Top(stack).next
             s == {g \in File : Defines(text, g, ThisNode.arg)}
  <2>1. SoundNode(text, Code(Here), Here, i) /\ ThisNode = Code(Here)[i]
    BY <1>1, NodeSoundAt, AtNodeOf
  <2>2. Through(text, Code(Here), i, s)
    BY <1>1, <2>1 DEF SoundNode
  <2>3. Completed \cap s # {}
    <3> HIDE DEF s
    <3> QED BY <1>1, <2>2, ThroughCompleted
  <2>4. PICK g \in Completed : Defines(text, g, ThisNode.arg)
    BY <2>3
  <2> QED BY <1>1, <2>4 DEF LoadedSoundly, CompletedClosed
<1>3. stack' = On /\ UNCHANGED <<text, made, started, globals, outcome>>
  BY <1>2 DEF BindForeign, compiling
<1>4. outcome # "fatal"
  BY DEF LoadedSoundly
<1> QED BY <1>1, <1>2, <1>3, <1>4, OnLoaded

LEMMA ExportsLoaded ==
  ASSUME LinkageTyped, LoadedSoundly, Define \/ Assign
  PROVE  LoadedSoundly'
<1>1. PICK ops \in {Definitions, {"assign"}} : AtNode(ops) /\ Exports
  BY DEF Define, Assign
<1>2. ThisNode.op \in Definitions \cup Imperatives
  BY <1>1, AtNodeOf DEF Imperatives
<1>3. ThisNode.arg \in Name /\ ThisNode.op # "import"
  BY <1>1, <1>2, AtNodeOf DEF Definitions, Imperatives
<1>4. /\ stack' = On /\ UNCHANGED <<text, made, started, outcome>>
      /\ globals' = [globals EXCEPT ![ThisNode.arg] = objects + 1]
  BY <1>1 DEF Exports, compiling
<1>5. objects + 1 # Nil /\ globals \in [Name -> Nat]
  BY DEF LinkageTyped, Nil
<1>6. \A n \in Name : globals[n] # Nil => globals'[n] # Nil
  BY <1>3, <1>4, <1>5
<1>7. globals'[ThisNode.arg] # Nil
  BY <1>3, <1>4, <1>5
<1>8. outcome # "fatal"
  BY DEF LoadedSoundly
<1> QED BY <1>1, <1>3, <1>4, <1>6, <1>7, <1>8, OnLoaded

LEMMA UseLoaded ==
  ASSUME LinkageTyped, LoadedSoundly, Use
  PROVE  LoadedSoundly'
<1>1. AtNode({"use"}) /\ stack' = On /\ UNCHANGED <<text, made, started, globals, outcome>>
  BY DEF Use, compiling
<1>2. ThisNode.op \notin Definitions /\ ThisNode.op # "import"
  BY <1>1, AtNodeOf DEF Definitions
<1>3. outcome # "fatal"
  BY DEF LoadedSoundly
<1> QED BY <1>1, <1>2, <1>3, OnLoaded

(***************************************************************************)
(* The initialiser that returns: what its file imports and defines is all  *)
(* there.                                                                  *)
(***************************************************************************)
LEMMA ReturnsComplete ==
  ASSUME LinkageTyped, CompiledSoundly, LoadedSoundly, Return
  PROVE  /\ \A g \in File : Says(text, Here, "import", g) => g \in Completed
         /\ \A n \in Name : Defines(text, Here, n) => globals[n] # Nil
<1>1. outcome = "running" /\ Top(stack).next > Len(Code(Here))
  BY DEF Return
<1>2. /\ Here \in File /\ Code(Here) \in Seq(TypedNode) /\ Top(stack).next \in Nat
      /\ Len(made) = Len(Build) /\ text[Here] \in Seq(Form)
  BY <1>1, AtFrame, Files
<1>3. \A j \in DOMAIN Code(Here) : j < Top(stack).next
  BY <1>1, <1>2
<1>4. /\ Sound(text, Code(Here), Here)
      /\ \A i \in DOMAIN text[Here] :
           /\ text[Here][i].op = "import" => HasNode(Code(Here), {"import"}, text[Here][i].arg)
           /\ text[Here][i].op \in Definitions => HasNode(Code(Here), Definitions, text[Here][i].arg)
  <2>1. Sound(text, Code(Here), Here) /\ Covers(text, Code(Here), Here, Len(text[Here]) + 1)
    BY <1>2, CodeSound
  <2>2. \A i \in DOMAIN text[Here] : i < Len(text[Here]) + 1
    BY <1>2
  <2> QED BY <2>1, <2>2 DEF Covers
<1>5. ASSUME NEW g \in File, Says(text, Here, "import", g)
      PROVE  g \in Completed
  <2>1. PICK j \in DOMAIN Code(Here) : Code(Here)[j].op = "import" /\ Code(Here)[j].arg = g
    BY <1>4, <1>5 DEF Says, HasNode
  <2>2. CASE Code(Here)[j].foreign
    <3>1. Through(text, Code(Here), j, {g})
      BY <1>4, <2>1, <2>2 DEF Sound, SoundNode
    <3>2. Completed \cap {g} # {}
      BY <1>1, <1>3, <3>1, ThroughCompleted
    <3> QED BY <3>2
  <2>3. CASE ~Code(Here)[j].foreign
    BY <1>1, <1>3, <2>1, <2>3, InnermostPassed
  <2> QED BY <2>2, <2>3
<1>6. ASSUME NEW n \in Name, Defines(text, Here, n)
      PROVE  globals[n] # Nil
  <2>1. PICK j \in DOMAIN Code(Here) : Code(Here)[j].op \in Definitions /\ Code(Here)[j].arg = n
    BY <1>4, <1>6 DEF Defines, Says, HasNode
  <2> QED BY <1>1, <1>3, <2>1, InnermostPassed
<1> QED BY <1>5, <1>6

LEMMA ReturnLoaded ==
  ASSUME LinkageTyped, CompiledSoundly, LoadedSoundly, Return
  PROVE  LoadedSoundly'
<1>1. outcome = "running" /\ UNCHANGED <<text, made, started, globals>>
  BY DEF Return, compiling
<1>2. PICK n \in Nat \ {0} : n = Len(stack)
  BY <1>1, AtFrame
<1>3. /\ DOMAIN stack = 1 .. n /\ DOMAIN stack' = 1 .. (n - 1) /\ Len(stack') = n - 1
      /\ \A k \in 1 .. (n - 1) : stack'[k] = stack[k]
      /\ Here = stack[n].file /\ Here \in File /\ outcome' # "fatal"
  BY <1>1, <1>2, Returned, AtFrame
<1>4. StackInOrder
  BY DEF LoadedSoundly
<1>5. \A k \in 1 .. (n - 1) : k \in 1 .. n
  OBVIOUS
<1>6. Completed' = Completed \cup {Here}
  <2>1. Here \in started /\ \A k \in 1 .. (n - 1) : stack[k].file # Here
    <3>1. Here \in started
      BY <1>3, <1>4 DEF StackInOrder
    <3>2. ASSUME NEW k \in 1 .. (n - 1), stack[k].file = Here PROVE FALSE
      <4>1. k = n
        BY <1>3, <1>4, <1>5, <3>2 DEF StackInOrder
      <4> QED BY <4>1
    <3> QED BY <3>1, <3>2
  <2>2. ASSUME NEW f \in Completed' PROVE f \in Completed \cup {Here}
    <3>1. \A k \in 1 .. n : k \in 1 .. (n - 1) \/ k = n
      OBVIOUS
    <3> QED BY <1>1, <1>3, <3>1 DEF Completed
  <2>3. ASSUME NEW f \in Completed \cup {Here} PROVE f \in Completed'
    BY <1>1, <1>3, <1>5, <2>1 DEF Completed
  <2> QED BY <2>2, <2>3
<1>7. StackInOrder'
  <2>1. stack' # <<>> => stack'[1].file = Main
    <3>1. stack' # <<>> => stack' \in Seq(Frame) /\ 1 \in 1 .. (n - 1)
      BY <1>1, <1>2, <1>3, Returned, EmptySeq
    <3>2. stack # <<>>
      BY <1>1 DEF LinkageTyped
    <3> QED BY <1>3, <1>4, <3>1, <3>2 DEF StackInOrder
  <2>2. ASSUME NEW k \in 1 .. ((n - 1) - 1)
        PROVE  Says(text, stack'[k].file, "import", stack'[k + 1].file)
    <3>1. k \in 1 .. (n - 1) /\ k + 1 \in 1 .. (n - 1)
      OBVIOUS
    <3>2. Says(text, stack[k].file, "import", stack[k + 1].file)
      BY <1>2, <1>4, <3>1 DEF StackInOrder
    <3> QED BY <1>3, <3>1, <3>2
  <2>3. \A k \in 1 .. (n - 1) : stack'[k].file \in started
    BY <1>3, <1>4, <1>5 DEF StackInOrder
  <2>4. \A k, l \in 1 .. (n - 1) : stack'[k].file = stack'[l].file => k = l
    BY <1>3, <1>4, <1>5 DEF StackInOrder
  <2> QED BY <1>1, <1>3, <2>1, <2>2, <2>3, <2>4 DEF StackInOrder
<1>8. CompletedClosed'
  <2>1. /\ Closed(text, Completed)
        /\ \A f \in Completed, m \in Name : Defines(text, f, m) => globals[m] # Nil
    BY DEF LoadedSoundly, CompletedClosed
  <2>2. /\ \A g \in File : Says(text, Here, "import", g) => g \in Completed
        /\ \A m \in Name : Defines(text, Here, m) => globals[m] # Nil
    BY ReturnsComplete
  <2>3. Closed(text, Completed')
    BY <1>6, <2>1, <2>2 DEF Closed
  <2>4. \A f \in Completed', m \in Name : Defines(text, f, m) => globals[m] # Nil
    BY <1>6, <2>1, <2>2
  <2> QED BY <1>1, <2>3, <2>4 DEF CompletedClosed
<1>9. \A k : Code(stack[k].file)' = Code(stack'[k].file)
  BY <1>1 DEF Code
<1>10. ASSUME NEW k \in DOMAIN stack', NEW j \in DOMAIN Code(stack[k].file)', j < stack'[k].next
       PROVE  PassedNode(k, j)'
  <2> DEFINE node == Code(stack[k].file)[j]
  <2>1. k \in 1 .. (n - 1) /\ k \in 1 .. n /\ k + 1 \in 1 .. n /\ stack'[k] = stack[k]
    BY <1>3, <1>10
  <2>2. PassedNode(k, j) /\ Code(stack[k].file)'[j] = node
    BY <1>3, <1>9, <1>10, <2>1 DEF LoadedSoundly
  <2>3. /\ node.op = "import" /\ ~node.foreign =>
             \/ node.arg \in Completed
             \/ j = stack[k].next - 1 /\ node.arg = stack[k + 1].file
        /\ node.op \in Definitions => globals[node.arg] # Nil
    BY <2>2 DEF PassedNode
  <2> HIDE DEF node
  <2>4. CASE k + 1 = n
    BY <1>1, <1>3, <1>6, <2>2, <2>3, <2>4 DEF PassedNode
  <2>5. CASE k + 1 # n
    <3>1. k + 1 \in 1 .. (n - 1) /\ k < n - 1
      BY <2>1, <2>5
    <3>2. stack'[k + 1] = stack[k + 1] /\ k < Len(stack')
      BY <1>3, <3>1
    <3> QED BY <1>1, <1>6, <2>1, <2>2, <2>3, <3>2 DEF PassedNode
  <2> QED BY <2>4, <2>5
<1> QED BY <1>3, <1>7, <1>8, <1>10 DEF LoadedSoundly

LEMMA StartLoaded ==
  ASSUME LinkageTyped, Start
  PROVE  LoadedSoundly'
<1>1. /\ stack' = << [file |-> Main, next |-> 1] >> /\ started' = {Main} /\ outcome' = "running"
      /\ UNCHANGED <<text, made>> /\ Len(made) = Len(Build)
  BY DEF Start, compiling
<1>2. /\ Len(stack') = 1 /\ DOMAIN stack' = {1} /\ stack'[1].file = Main /\ stack'[1].next = 1
      /\ 1 .. (Len(stack') - 1) = {}
  BY <1>1
<1>3. Completed' = {}
  BY <1>1, <1>2 DEF Completed
<1>4. StackInOrder'
  BY <1>1, <1>2 DEF StackInOrder
<1>5. CompletedClosed'
  BY <1>3 DEF CompletedClosed, Closed
<1>6. ASSUME NEW k \in DOMAIN stack', NEW j \in DOMAIN Code(stack[k].file)', j < stack'[k].next
      PROVE  FALSE
  <2>1. j \in DOMAIN Code(Main) /\ j < 1
    BY <1>1, <1>2, <1>6 DEF Code
  <2>2. Code(Main) \in Seq(TypedNode)
    BY <1>1, CodeOf DEF File
  <2> QED BY <2>1, <2>2
<1> QED BY <1>1, <1>4, <1>5, <1>6 DEF LoadedSoundly

-----------------------------------------------------------------------------
LEMMA TextStays == [Next]_vars => UNCHANGED text
BY DEF Next, vars, Import, Include, Input, Prototype, Variable, Imperative, EndOfFile, Compiled,
  Rejects, Start, Load, BindForeign, Define, Assign, Exports, Use, Return, Fatal

LEMMA SourcesStay ==
  [Next]_vars => (OnlyImports' <=> OnlyImports) /\ (Acyclic' <=> Acyclic)
<1> SUFFICES ASSUME UNCHANGED text PROVE (OnlyImports' <=> OnlyImports) /\ (Acyclic' <=> Acyclic)
  BY TextStays
<1>1. \A f, op, a : Has(f, op, a)' <=> Has(f, op, a)
  BY DEF Has
<1>2. OnlyImports' <=> OnlyImports
  BY <1>1 DEF OnlyImports
<1>3. \A s : Imported(s)' = Imported(s)
  BY <1>1 DEF Imported
<1>4. Acyclic' <=> Acyclic
  BY <1>3 DEF Acyclic
<1> QED BY <1>2, <1>4

\* Nothing is loaded before the program runs.
LEMMA UnstartedLoaded ==
  LinkageTyped /\ outcome \in {"building", "rejected"} => LoadedSoundly
<1> SUFFICES ASSUME LinkageTyped, outcome \in {"building", "rejected"} PROVE LoadedSoundly
  OBVIOUS
<1>1. stack = <<>> /\ started = {} /\ outcome # "fatal"
  BY DEF LinkageTyped
<1>2. DOMAIN stack = {} /\ 1 .. (Len(stack) - 1) = {} /\ Completed = {}
  BY <1>1 DEF Completed
<1> QED BY <1>1, <1>2 DEF LoadedSoundly, StackInOrder, CompletedClosed, Closed

LEMMA RunningLoaded ==
  ASSUME LinkageTyped, LinkageTyped', Acyclic, CompiledSoundly, LoadedSoundly, [Next]_vars
  PROVE  LoadedSoundly'
<1>1. CASE Import \/ Include \/ Input \/ Prototype \/ Variable \/ Imperative \/ EndOfFile \/ Compiled
  <2>1. outcome' \in {"building", "rejected"}
    BY <1>1 DEF Import, Include, Input, Prototype, Variable, Imperative, EndOfFile, Compiled,
      Rejects, AtForm, AtEnd, Building
  <2>2. (LinkageTyped /\ outcome \in {"building", "rejected"} => LoadedSoundly)'
    BY UnstartedLoaded, PTL
  <2> QED BY <2>1, <2>2
<1>2. CASE Start
  BY <1>2, StartLoaded
<1>3. CASE Load
  BY <1>3, LoadLoaded
<1>4. CASE BindForeign
  BY <1>4, BindForeignLoaded
<1>5. CASE Define \/ Assign
  BY <1>5, ExportsLoaded
<1>6. CASE Use
  BY <1>6, UseLoaded
<1>7. CASE Return
  BY <1>7, ReturnLoaded
<1>8. CASE UNCHANGED vars
  <2>1. Completed' = Completed /\ \A f : Code(f)' = Code(f)
    BY <1>8 DEF vars, compiling, running, Completed, Code
  <2>2. \A k, j : PassedNode(k, j)' <=> PassedNode(k, j)
    BY <1>8, <2>1 DEF vars, compiling, running, PassedNode, Code
  <2>3. UNCHANGED <<text, made, stack, started, globals, outcome>>
    BY <1>8 DEF vars, compiling, running
  <2>4. \A k : Code(stack[k].file)' = Code(stack[k].file)
    BY <2>3 DEF Code
  <2>5. StackInOrder' /\ CompletedClosed'
    BY <2>1, <2>3 DEF LoadedSoundly, StackInOrder, CompletedClosed
  <2> QED BY <2>2, <2>3, <2>4, <2>5 DEF LoadedSoundly
<1> QED BY <1>1, <1>2, <1>3, <1>4, <1>5, <1>6, <1>7, <1>8 DEF Next

LEMMA InitLinked == Init => LinkInv
<1> SUFFICES ASSUME Init PROVE LinkInv
  OBVIOUS
<1>1. LinkageTyped /\ outcome = "building"
  BY InitTyped DEF Init
<1>2. /\ parsers[1].file = Root /\ ~parsers[1].including /\ parsers[1].next = 1 /\ Len(parsers) = 1
      /\ scanned = {Root} /\ imports = {} /\ program = <<>> /\ made = <<>>
  BY DEF Init, Parsing, Root
<1>3. CompiledSoundly
  <2>1. \A k \in 2 .. Len(parsers) : FALSE
    BY <1>2
  <2>2. Sound(text, program, Root)
    BY <1>2 DEF Sound
  <2>3. Covers(text, program, Root, parsers[1].next)
    <3>1. Root \in File
      <4>1. Root = parsers[1].file /\ parsers \in Seq(Parser) /\ 1 \in DOMAIN parsers
        BY <1>1, <1>2, Files DEF LinkageTyped
      <4>2. parsers[1] \in Parser
        BY <4>1
      <4> QED BY <4>1, <4>2 DEF Parser
    <3>2. \A i \in DOMAIN text[Root] : ~(i < 1)
      BY <1>1, <3>1, Files
    <3> QED BY <1>2, <3>2 DEF Covers
  <2>4. DOMAIN made = {}
    BY <1>2
  <2> QED BY <1>2, <2>1, <2>2, <2>3, <2>4 DEF CompiledSoundly
<1> QED BY <1>1, <1>3, UnstartedLoaded DEF LinkInv

LEMMA StepLinked == LinkInv /\ [Next]_vars => LinkInv'
<1> SUFFICES ASSUME LinkInv, [Next]_vars PROVE LinkInv'
  OBVIOUS
<1>1. LinkageTyped /\ LinkageTyped'
  BY StepTyped DEF LinkInv
<1>2. (OnlyImports' <=> OnlyImports) /\ (Acyclic' <=> Acyclic)
  BY SourcesStay
<1>3. OnlyImports => CompiledSoundly'
  BY <1>1, CompilingSound DEF LinkInv
<1>4. OnlyImports /\ Acyclic => LoadedSoundly'
  BY <1>1, RunningLoaded DEF LinkInv
<1> QED BY <1>1, <1>2, <1>3, <1>4 DEF LinkInv

(***************************************************************************)
(* Files that only import, and not in a circle, always find the libraries  *)
(* and the globals they ask for, however many files there are, whatever    *)
(* they import and in whatever order they are compiled: that the compiler  *)
(* takes only the first import of a library for its own, and leaves those  *)
(* met in other files to the libraries between, is enough (Compiler.st     *)
(* import:, _object _import and _libid_import).                            *)
(***************************************************************************)
THEOREM ImportsFound == Spec => []ImportsSuffice
<1>1. LinkInv => ImportsSuffice
  BY DEF LinkInv, ImportsSuffice, LoadedSoundly
<1> QED BY InitLinked, StepLinked, <1>1, PTL DEF Spec

(***************************************************************************)
(* And every library that a loaded file imports is loaded by the time the  *)
(* program's initialiser returns.  Circles have to be excluded: in one,    *)
(* each file can leave a library to the other.                             *)
(***************************************************************************)
THEOREM LibrariesLoaded == Spec => []ImportsLoad
<1>1. LinkInv => ImportsLoad
  <2> SUFFICES ASSUME LinkInv, OnlyImports, Acyclic, outcome = "done",
                      NEW f \in started, NEW g \in Library, Has(f, "import", g)
               PROVE  g \in started
    BY DEF ImportsLoad, AllLoaded
  <2>1. stack = <<>> /\ Closed(text, Completed)
    BY DEF LinkInv, LinkageTyped, LoadedSoundly, CompletedClosed
  <2>2. Completed = started
    BY <2>1 DEF Completed
  <2> QED BY <2>1, <2>2, HasSays DEF Closed, File
<1> QED BY InitLinked, StepLinked, <1>1, PTL DEF Spec

-----------------------------------------------------------------------------
(* One object for a global.                                                *)

LEMMA OneMakerLonger ==
  ASSUME NEW t, NEW P \in Seq(TypedNode), NEW x \in TypedNode, NEW f, NEW n, OneMaker(t, P, f, n),
         x.op \in Definitions /\ x.arg = n =>
           (~x.foreign => Defines(t, f, n)) /\ ~HasNode(P, Definitions, n),
         ~(x.op = "assign" /\ x.arg = n)
  PROVE  OneMaker(t, Append(P, x), f, n)
<1> DEFINE Q == Append(P, x)
<1>1. PICK m \in Nat : m = Len(P)
  OBVIOUS
<1>2. /\ DOMAIN P = 1 .. m /\ DOMAIN Q = 1 .. (m + 1)
      /\ \A i \in 1 .. m : Q[i] = P[i]
      /\ Q[m + 1] = x
  BY <1>1, Longer
<1> HIDE DEF Q
<1>3. \A i \in 1 .. (m + 1) : i \in 1 .. m \/ i = m + 1
  OBVIOUS
<1>4. ASSUME NEW i \in DOMAIN Q, Q[i].op \in Definitions, Q[i].arg = n, ~Q[i].foreign
      PROVE  Defines(t, f, n)
  BY <1>2, <1>3, <1>4 DEF OneMaker
<1>5. ASSUME NEW i \in DOMAIN Q, NEW j \in DOMAIN Q,
             Q[i].op \in Definitions, Q[j].op \in Definitions, Q[i].arg = n, Q[j].arg = n
      PROVE  i = j
  <2>1. CASE i \in 1 .. m /\ j \in 1 .. m
    BY <1>2, <1>5, <2>1 DEF OneMaker
  <2>2. CASE i = m + 1 /\ j \in 1 .. m
    BY <1>2, <1>5, <2>2 DEF HasNode
  <2>3. CASE i \in 1 .. m /\ j = m + 1
    BY <1>2, <1>5, <2>3 DEF HasNode
  <2> QED BY <1>2, <1>3, <2>1, <2>2, <2>3
<1>6. \A i \in DOMAIN Q : ~(Q[i].op = "assign" /\ Q[i].arg = n)
  BY <1>2, <1>3 DEF OneMaker
<1>7. OneMaker(t, Q, f, n)
  BY <1>4, <1>5, <1>6 DEF OneMaker
<1> QED BY <1>7 DEF Q

\* A parser's step that does not touch the files compiled before.
LEMMA ParserStepSole ==
  ASSUME LinkageTyped, Building, NEW n \in Name, SoleGlobal(n),
         UNCHANGED <<text, made, running, outcome>>,
         OneMaker(text, program', Root, n)
  PROVE  SoleGlobal(n)'
<1>1. Root' = Root /\ DOMAIN stack = {}
  BY DEF Root, Building, LinkageTyped
<1>2. UNCHANGED <<text, made, stack, started, globals, bound>>
  BY DEF running
<1>3. OneMaker(text, program, Root, n)'
  BY <1>1, <1>2
<1>4. (globals[n] # Nil => \A f \in File : Defines(text, f, n) => f \in started)
      /\ (\A f \in File : bound[f][n] \in {Nil, globals[n]})
      /\ (\A i \in DOMAIN made : OneMaker(text, made[i], Build[i], n))
  BY DEF SoleGlobal
<1> QED BY <1>1, <1>2, <1>3, <1>4 DEF SoleGlobal

LEMMA NodeSole ==
  ASSUME LinkageTyped, InputsOnly, NEW n \in Name, Sole(text, n), SoleGlobal(n), NEW op, AtForm(op),
         UNCHANGED <<text, made, running, outcome>>,
         \/ UNCHANGED program
         \/ op = "import" /\ Adds(Noded(op, Argument, Including))
         \/ op \in Definitions /\ Adds(Noded(op, Argument, Including)) /\ ~Declared(Definitions)
         \/ op \in Imperatives /\ Adds(Noded(op, Argument, FALSE))
  PROVE  SoleGlobal(n)'
<1>1. Building /\ Len(made) < Len(Build) /\ OneMaker(text, program, Root, n)
  BY DEF AtForm, Building, SoleGlobal
<1>2. CASE UNCHANGED program
  BY <1>1, <1>2, ParserStepSole
<1>3. ASSUME NEW b \in BOOLEAN, op \in {"import"} \cup Definitions \cup Imperatives,
             Adds(Noded(op, Argument, b)),
             op \in Definitions => b = Including /\ ~Declared(Definitions)
      PROVE  SoleGlobal(n)'
  <2> DEFINE x == Noded(op, Argument, b)
  <2>1. x \in TypedNode /\ x.op = op /\ x.arg = Argument /\ x.foreign = b
    BY <1>3, NodeTyped DEF Noded
  <2>2. /\ Top(parsers).file \in File /\ Says(text, Top(parsers).file, op, Argument)
        /\ Len(parsers) \in DOMAIN parsers /\ Top(parsers) = parsers[Len(parsers)]
    BY <1>1, AtFormOf, AtParser, Files
  <2>3. op \in Definitions /\ Argument = n =>
          (~b => Defines(text, Root, n)) /\ ~HasNode(program, Definitions, n)
    <3> SUFFICES ASSUME op \in Definitions, Argument = n
                 PROVE  (~b => Defines(text, Root, n)) /\ ~HasNode(program, Definitions, n)
      OBVIOUS
    <3>1. ~HasNode(program, Definitions, n)
      BY <1>3 DEF Declared, HasNode
    <3>2. Defines(text, Top(parsers).file, n)
      BY <2>2 DEF Defines
    <3>3. ASSUME ~b PROVE Top(parsers).file = Root
      <4>1. ~Top(parsers).including
        BY <1>3, <3>3 DEF Including
      <4>2. \A f \in File : ~Says(text, f, "input", Top(parsers).file)
        BY <2>2, <3>2 DEF Sole
      <4> QED BY <1>1, <2>2, <4>1, <4>2 DEF InputsOnly
    <3> QED BY <3>1, <3>2, <3>3
  <2>4. ~(op = "assign" /\ Argument = n)
    BY <2>2 DEF Sole
  <2>5. program' = Append(program, x) /\ program \in Seq(TypedNode)
    BY <1>3 DEF Adds, LinkageTyped
  <2> HIDE DEF x
  <2>6. OneMaker(text, program', Root, n)
    BY <1>1, <2>1, <2>3, <2>4, <2>5, OneMakerLonger
  <2> QED BY <1>1, <2>6, ParserStepSole
<1>4. "import" \notin Definitions /\ Imperatives \cap Definitions = {} /\ Including \in BOOLEAN
  BY AtFormOf DEF Definitions, Imperatives
<1> QED BY <1>2, <1>3, <1>4

LEMMA RejectsSole ==
  ASSUME NEW n \in Name, SoleGlobal(n), Rejects
  PROVE  SoleGlobal(n)'
<1>1. UNCHANGED <<text, program, made, stack, started, globals, bound>>
  BY DEF Rejects, compiling, running
<1>2. Root' = Root /\ \A f : Code(f)' = Code(f)
  BY <1>1 DEF Root, Code
<1> QED BY <1>1, <1>2 DEF SoleGlobal

LEMMA CompiledSole ==
  ASSUME LinkageTyped, NEW n \in Name, SoleGlobal(n), Compiled
  PROVE  SoleGlobal(n)'
<1>1. Building
  BY DEF Compiled, AtEnd
<1>2. CASE Names(program, Imperatives) \subseteq Names(program, Definitions)
  <2>1. PICK m \in Nat : m = Len(made)
    BY Files
  <2>2. /\ made' = Append(made, program) /\ program' = <<>>
        /\ UNCHANGED <<text, stack, started, globals, bound>>
    BY <1>2 DEF Compiled, running
  <2>3. /\ DOMAIN made' = 1 .. (m + 1) /\ made'[m + 1] = program /\ DOMAIN made = 1 .. m
        /\ \A i \in 1 .. m : made'[i] = made[i]
    BY <2>1, <2>2, AppendProperties DEF LinkageTyped
  <2>4. /\ \A i \in 1 .. m : OneMaker(text, made[i], Build[i], n)
        /\ OneMaker(text, program, Build[m + 1], n)
        /\ globals[n] # Nil => \A f \in File : Defines(text, f, n) => f \in started
        /\ \A f \in File : bound[f][n] \in {Nil, globals[n]}
    BY <1>1, <2>1, <2>3 DEF SoleGlobal, Building, Root
  <2>5. \A i \in DOMAIN made' : OneMaker(text, made'[i], Build[i], n)
    <3>1. \A i \in 1 .. (m + 1) : i \in 1 .. m \/ i = m + 1
      OBVIOUS
    <3> QED BY <2>3, <2>4, <3>1
  <2>6. OneMaker(text, program', Root', n)
    BY <2>2 DEF OneMaker
  <2>7. DOMAIN stack = {}
    BY <1>1 DEF Building, LinkageTyped
  <2> QED BY <2>2, <2>4, <2>5, <2>6, <2>7 DEF SoleGlobal
<1>3. CASE ~(Names(program, Imperatives) \subseteq Names(program, Definitions))
  BY <1>3, RejectsSole DEF Compiled
<1> QED BY <1>2, <1>3

LEMMA CompilerSole ==
  ASSUME LinkageTyped, InputsOnly, NEW n \in Name, Sole(text, n), SoleGlobal(n),
         Import \/ Include \/ Input \/ Prototype \/ Variable \/ Imperative \/ EndOfFile \/ Compiled
  PROVE  SoleGlobal(n)'
<1>1. CASE Import
  BY <1>1, NodeSole DEF Import
<1>2. CASE Include
  BY <1>2, NodeSole DEF Include
<1>3. CASE Input
  BY <1>3, NodeSole DEF Input
<1>4. CASE Prototype
  <2>1. Declared(Definitions) <=> Declared({"prototype"}) \/ Declared({"variable"})
    BY DEF Declared, Definitions
  <2>2. "prototype" \in Definitions
    BY DEF Definitions
  <2> QED BY <1>4, <2>1, <2>2, NodeSole, RejectsSole DEF Prototype
<1>5. CASE Variable
  <2>1. "variable" \in Definitions
    BY DEF Definitions
  <2> QED BY <1>5, <2>1, NodeSole, RejectsSole DEF Variable
<1>6. CASE Imperative
  BY <1>6, NodeSole DEF Imperative
<1>7. CASE EndOfFile
  <2>1. Building /\ UNCHANGED <<text, program, made, running, outcome>>
    BY <1>7 DEF EndOfFile, AtEnd
  <2>2. OneMaker(text, program, Root, n)
    BY <2>1 DEF Building, SoleGlobal
  <2> QED BY <2>1, <2>2, ParserStepSole
<1>8. CASE Compiled
  BY <1>8, CompiledSole
<1> QED BY <1>1, <1>2, <1>3, <1>4, <1>5, <1>6, <1>7, <1>8

\* Only input: makes a parser of another file that is not including.
LEMMA PastInputs ==
  ASSUME LinkageTyped, InputsOnly, Building, NEW k \in DOMAIN Past, ~Past[k].including
  PROVE  Past[k].file = Root \/ \E f \in File : Says(text, f, "input", Past[k].file)
<1>1. PICK n \in Nat \ {0} : n = Len(parsers)
  BY AtParser
<1>2. /\ Past \in Seq(Parser) /\ Len(Past) = n
      /\ \A i \in 1 .. n : Past[i].file = parsers[i].file /\ Past[i].including = parsers[i].including
  BY <1>1, AtParser
<1>3. k \in 1 .. n /\ k \in DOMAIN parsers
  BY <1>1, <1>2, Files
<1> QED BY <1>2, <1>3 DEF InputsOnly, Building

LEMMA ReadFromInputs ==
  ASSUME LinkageTyped, InputsOnly, Building, UNCHANGED <<text, made>>,
         NEW h \in File, NEW b \in BOOLEAN, ReadFrom(h, b),
         ~b => Says(text, Top(parsers).file, "input", h)
  PROVE  InputsOnly'
<1>1. PICK n \in Nat \ {0} : n = Len(parsers)
  BY AtParser
<1>2. Root' = Root /\ DOMAIN Past = 1 .. n /\ Top(parsers).file \in File
  <2>1. Past \in Seq(Parser) /\ Len(Past) = n
    BY <1>1, AtParser
  <2> QED BY <2>1, AtParser DEF Root
<1> SUFFICES ASSUME NEW k \in DOMAIN parsers', ~parsers'[k].including
             PROVE  parsers'[k].file = Root \/ \E f \in File : Says(text, f, "input", parsers'[k].file)
  BY <1>2 DEF InputsOnly
<1>3. CASE h \in scanned
  BY <1>3, PastInputs DEF ReadFrom
<1>4. CASE h \notin scanned
  <2>1. /\ parsers' \in Seq(Parser) /\ Len(parsers') = n + 1
        /\ parsers'[n + 1] = Parsing(h, 1, b) /\ \A i \in 1 .. n : parsers'[i] = Past[i]
    BY <1>1, <1>4, ReadFromTyped
  <2>2. k \in 1 .. n \/ k = n + 1
    BY <2>1
  <2>3. CASE k \in 1 .. n
    BY <1>2, <2>1, <2>3, PastInputs
  <2>4. CASE k = n + 1
    BY <1>2, <2>1, <2>4 DEF Parsing
  <2> QED BY <2>2, <2>3, <2>4
<1> QED BY <1>3, <1>4

LEMMA InputsStep ==
  ASSUME LinkageTyped, InputsOnly, [Next]_vars
  PROVE  InputsOnly'
<1>1. CASE Import
  <2>1. Building /\ Argument \in File
    BY <1>1, AtFormOf DEF Import, AtForm, Directives
  <2> QED BY <1>1, <2>1, ReadFromInputs DEF Import
<1>2. CASE Include
  <2>1. Building /\ Argument \in File
    BY <1>2, AtFormOf DEF Include, AtForm, Directives
  <2> QED BY <1>2, <2>1, ReadFromInputs DEF Include
<1>3. CASE Input
  <2>1. Building /\ Argument \in File /\ Including \in BOOLEAN
        /\ Says(text, Top(parsers).file, "input", Argument)
    BY <1>3, AtFormOf DEF Input, AtForm, Directives
  <2> QED BY <1>3, <2>1, ReadFromInputs DEF Input
<1>4. ASSUME Building, UNCHANGED <<text, made>>, parsers' = Past PROVE InputsOnly'
  <2>1. Root' = Root
    BY <1>4 DEF Root
  <2> QED BY <1>4, <2>1, PastInputs DEF InputsOnly
<1>5. ASSUME UNCHANGED <<text, made, parsers>> PROVE InputsOnly'
  BY <1>5 DEF InputsOnly, Root
<1>6. CASE Prototype \/ Variable \/ Imperative
  <2>1. Building /\ \/ parsers' = Past /\ UNCHANGED <<text, made>>
                    \/ UNCHANGED <<text, made, parsers>>
    BY <1>6 DEF Prototype, Variable, Imperative, AtForm, Rejects, compiling
  <2> QED BY <1>4, <1>5, <2>1
<1>7. CASE EndOfFile
  <2>1. Building /\ Len(parsers) > 1 /\ parsers' = Below(parsers) /\ UNCHANGED <<text, made>>
    BY <1>7 DEF EndOfFile, AtEnd
  <2>2. PICK n \in Nat : n = Len(parsers)
    BY Files
  <2>3. /\ parsers' \in Seq(Parser) /\ Len(parsers') = n - 1 /\ Root' = Root
        /\ \A k \in 1 .. (n - 1) : parsers'[k] = parsers[k]
    BY <2>1, <2>2, BackTyped DEF Root
  <2>4. \A k \in DOMAIN parsers' : k \in DOMAIN parsers /\ parsers'[k] = parsers[k]
    BY <2>2, <2>3, Files
  <2> QED BY <2>1, <2>3, <2>4 DEF InputsOnly, Building
<1>8. CASE Compiled
  <2>1. CASE Names(program, Imperatives) \subseteq Names(program, Definitions)
    <3>1. PICK m \in Nat : m = Len(made)
      BY Files
    <3>2. /\ made' = Append(made, program)
          /\ parsers' = IF m + 1 < Len(Build) THEN << Parsing(Build[m + 2], 1, FALSE) >> ELSE <<>>
      BY <1>8, <2>1, <3>1 DEF Compiled
    <3>3. Len(made') = m + 1
      BY <3>1, <3>2, AppendProperties DEF LinkageTyped
    <3>4. Root' = Build[m + 2]
      BY <3>1, <3>3 DEF Root
    <3>5. \A k \in DOMAIN parsers' : parsers'[k].file = Root'
      BY <3>2, <3>4 DEF Parsing
    <3> QED BY <3>5 DEF InputsOnly
  <2>2. CASE ~(Names(program, Imperatives) \subseteq Names(program, Definitions))
    BY <1>5, <1>8, <2>2 DEF Compiled, Rejects, compiling
  <2> QED BY <2>1, <2>2
<1>9. CASE Start \/ Load \/ BindForeign \/ Define \/ Assign \/ Use \/ Return \/ UNCHANGED vars
  BY <1>5, <1>9 DEF Start, Load, BindForeign, Define, Assign, Exports, Use, Return, Fatal, vars,
    compiling
<1> QED BY <1>1, <1>2, <1>3, <1>6, <1>7, <1>8, <1>9 DEF Next

(***************************************************************************)
(* The innermost initialiser passes a node that leaves the global alone,   *)
(* or copies it into the file's own variable.                              *)
(***************************************************************************)
LEMMA OnSole ==
  ASSUME LinkageTyped, outcome = "running", NEW n \in Name, SoleGlobal(n),
         UNCHANGED <<text, program, made, started>>, stack' = On, globals'[n] = globals[n],
         \A f \in File : bound'[f][n] \in {bound[f][n], globals[n]}
  PROVE  SoleGlobal(n)'
<1>1. PICK m \in Nat \ {0} : m = Len(stack)
  BY AtFrame
<1>2. /\ DOMAIN stack = 1 .. m /\ DOMAIN stack' = 1 .. m
      /\ \A k \in 1 .. m : stack'[k].file = stack[k].file
      /\ \A k \in 1 .. (m - 1) : stack'[k] = stack[k]
      /\ stack'[m].next = stack[m].next + 1
  BY <1>1, AtFrame
<1>3. \A k \in 1 .. m : stack[k].next \in Nat /\ stack[k].file \in File
  <2>1. \A k \in 1 .. m : stack[k] \in Frame
    BY <1>2 DEF LinkageTyped
  <2> QED BY <2>1 DEF Frame
<1>4. \A k \in 1 .. m : stack'[k].next = stack[k].next \/ stack'[k].next = stack[k].next + 1
  <2>1. \A k \in 1 .. m : k = m \/ k \in 1 .. (m - 1)
    OBVIOUS
  <2> QED BY <1>2, <2>1
<1>5. Root' = Root /\ \A f : Code(f)' = Code(f)
  BY DEF Root, Code
<1>6. ~(Len(made) < Len(Build))
  BY AtFrame, Files
<1>7. ASSUME NEW f \in File, Defines(text, f, n), globals'[n] # Nil
      PROVE  /\ f \in started
             /\ \A k \in DOMAIN stack' : stack'[k].file = f =>
                  \A j \in DOMAIN Code(f) :
                    Code(f)[j].op \in Definitions /\ Code(f)[j].arg = n => j < stack'[k].next
  <2>1. f \in started
    BY <1>7 DEF SoleGlobal
  <2>2. ASSUME NEW k \in DOMAIN stack', stack'[k].file = f, NEW j \in DOMAIN Code(f),
               Code(f)[j].op \in Definitions, Code(f)[j].arg = n
        PROVE  j < stack'[k].next
    <3>1. j < stack[k].next /\ k \in 1 .. m
      BY <1>2, <1>7, <2>2 DEF SoleGlobal
    <3>2. j \in Nat
      <4>1. Code(f) \in Seq(TypedNode)
        BY AtFrame, CodeOf
      <4> QED BY <2>2, <4>1
    <3> QED BY <1>3, <1>4, <3>1, <3>2
  <2> QED BY <2>1, <2>2
<1>8. \A f \in File : bound'[f][n] \in {Nil, globals'[n]}
  BY DEF SoleGlobal
<1>9. /\ \A k, l \in DOMAIN stack' : stack'[k].file = stack'[l].file => k = l
      /\ \A k \in DOMAIN stack' : stack'[k].file \in started'
  BY <1>2 DEF SoleGlobal
<1>10. \A i \in DOMAIN made : OneMaker(text, made[i], Build[i], n)
  BY DEF SoleGlobal
<1> QED BY <1>5, <1>6, <1>7, <1>8, <1>9, <1>10 DEF SoleGlobal

\* The initialiser of a file that has none yet begins.
LEMMA CallSole ==
  ASSUME LinkageTyped, outcome = "running", NEW n \in Name, SoleGlobal(n),
         NEW g \in File, g \notin started, Call(g),
         UNCHANGED <<text, program, made, globals, bound>>
  PROVE  SoleGlobal(n)'
<1>1. PICK m \in Nat \ {0} : m = Len(stack)
  BY AtFrame
<1>2. /\ DOMAIN stack = 1 .. m
      /\ \A k \in 1 .. m : On[k].file = stack[k].file
      /\ \A k \in 1 .. (m - 1) : On[k] = stack[k]
      /\ On[m].next = stack[m].next + 1
  BY <1>1, AtFrame
<1>3. /\ started' = started \cup {g} /\ DOMAIN stack' = 1 .. (m + 1)
      /\ stack'[m + 1] = [file |-> g, next |-> 1]
      /\ \A k \in 1 .. m : stack'[k] = On[k]
  BY <1>1, Called
<1>4. \A k \in 1 .. m : stack[k].next \in Nat /\ stack[k].file \in started
  <2>1. \A k \in 1 .. m : stack[k] \in Frame
    BY <1>2 DEF LinkageTyped
  <2> QED BY <1>2, <2>1 DEF Frame, SoleGlobal
<1>5. \A k \in 1 .. m : stack'[k].file = stack[k].file
                        /\ (stack'[k].next = stack[k].next \/ stack'[k].next = stack[k].next + 1)
  <2>1. \A k \in 1 .. m : k = m \/ k \in 1 .. (m - 1)
    OBVIOUS
  <2> QED BY <1>2, <1>3, <2>1
<1>6. stack'[m + 1].file = g /\ \A k \in 1 .. (m + 1) : k \in 1 .. m \/ k = m + 1
  BY <1>3
<1>7. Root' = Root /\ \A f : Code(f)' = Code(f)
  BY DEF Root, Code
<1>8. ~(Len(made) < Len(Build))
  BY AtFrame, Files
<1>9. ASSUME NEW f \in File, Defines(text, f, n), globals[n] # Nil
      PROVE  /\ f \in started'
             /\ \A k \in DOMAIN stack' : stack'[k].file = f =>
                  \A j \in DOMAIN Code(f) :
                    Code(f)[j].op \in Definitions /\ Code(f)[j].arg = n => j < stack'[k].next
  <2>1. f \in started /\ f # g
    BY <1>9 DEF SoleGlobal
  <2>2. ASSUME NEW k \in DOMAIN stack', stack'[k].file = f, NEW j \in DOMAIN Code(f),
               Code(f)[j].op \in Definitions, Code(f)[j].arg = n
        PROVE  j < stack'[k].next
    <3>1. k \in 1 .. m
      BY <1>3, <1>6, <2>1, <2>2
    <3>2. j < stack[k].next
      BY <1>2, <1>5, <1>9, <2>2, <3>1 DEF SoleGlobal
    <3>3. j \in Nat
      <4>1. Code(f) \in Seq(TypedNode)
        BY AtFrame, CodeOf
      <4> QED BY <2>2, <4>1
    <3> QED BY <1>4, <1>5, <3>1, <3>2, <3>3
  <2> QED BY <1>3, <2>1, <2>2
<1>10. \A k, l \in DOMAIN stack' : stack'[k].file = stack'[l].file => k = l
  <2>1. \A k, l \in 1 .. m : stack[k].file = stack[l].file => k = l
    BY <1>2 DEF SoleGlobal
  <2> QED BY <1>3, <1>4, <1>5, <1>6, <2>1
<1>11. \A k \in DOMAIN stack' : stack'[k].file \in started'
  BY <1>3, <1>4, <1>5, <1>6
<1>12. /\ \A f \in File : bound[f][n] \in {Nil, globals[n]}
       /\ \A i \in DOMAIN made : OneMaker(text, made[i], Build[i], n)
  BY DEF SoleGlobal
<1> QED BY <1>7, <1>8, <1>9, <1>10, <1>11, <1>12 DEF SoleGlobal

\* The file that runs has one maker of the global at most.
LEMMA MakerAt ==
  ASSUME LinkageTyped, NEW n \in Name, SoleGlobal(n), NEW ops, AtNode(ops)
  PROVE  OneMaker(text, Code(Here), Here, n)
<1>1. outcome = "running" /\ Len(made) = Len(Build) /\ Here \in File
  BY AtFrame DEF AtNode
<1>2. PICK i \in DOMAIN Build : Build[i] = Here /\ Code(Here) = made[i] /\ i \in DOMAIN made
  BY <1>1, CodeOf
<1> QED BY <1>2 DEF SoleGlobal

\* The definition: made once, before anyone can have bound it.
LEMMA DefineSole ==
  ASSUME LinkageTyped, NEW n \in Name, Sole(text, n), SoleGlobal(n), Define, ThisNode.arg = n
  PROVE  SoleGlobal(n)'
<1>1. /\ AtNode(Definitions) /\ outcome = "running" /\ ~ThisNode.foreign /\ Exports
      /\ ThisNode.op \in Definitions /\ ThisNode = Code(Here)[Top(stack).next]
      /\ Top(stack).next \in DOMAIN Code(Here)
  BY AtNodeOf DEF Define, AtNode
<1>2. PICK m \in Nat \ {0} : m = Len(stack)
  BY <1>1, AtFrame
<1>3. /\ DOMAIN stack = 1 .. m /\ DOMAIN stack' = 1 .. m /\ Here = stack[m].file /\ Here \in File
      /\ Top(stack) = stack[m] /\ stack[m].next \in Nat
      /\ \A k \in 1 .. m : stack'[k].file = stack[k].file
      /\ stack'[m].next = stack[m].next + 1
  BY <1>1, <1>2, AtFrame DEF Exports
<1>4. OneMaker(text, Code(Here), Here, n) /\ Defines(text, Here, n)
  BY <1>1, MakerAt DEF OneMaker
<1>5. globals[n] = Nil
  <2> SUFFICES ASSUME globals[n] # Nil PROVE FALSE
    OBVIOUS
  <2>1. Top(stack).next < stack[m].next
    BY <1>1, <1>3, <1>4 DEF SoleGlobal
  <2> QED BY <1>3, <2>1
<1> DEFINE v == objects + 1
<1>6. bound' = [bound EXCEPT ![Here][n] = v] /\ globals' = [globals EXCEPT ![n] = v]
      /\ UNCHANGED <<text, program, made, started>>
  BY <1>1 DEF Exports, Binds, compiling
<1>7. globals'[n] = v /\ \A f \in File : bound'[f][n] \in {Nil, v}
  <2>1. \A f \in File : bound[f][n] = Nil
    BY <1>5 DEF SoleGlobal
  <2>2. bound \in [File -> [Name -> Nat]] /\ globals \in [Name -> Nat]
    BY DEF LinkageTyped
  <2> HIDE DEF v
  <2> QED BY <1>3, <1>6, <2>1, <2>2
<1> HIDE DEF v
<1>8. Root' = Root /\ \A f : Code(f)' = Code(f)
  BY <1>6 DEF Root, Code
<1>9. ~(Len(made) < Len(Build))
  BY <1>1, AtFrame, Files
<1>10. ASSUME NEW f \in File, Defines(text, f, n)
       PROVE  /\ f \in started
              /\ \A k \in DOMAIN stack' : stack'[k].file = f =>
                   \A j \in DOMAIN Code(f) :
                     Code(f)[j].op \in Definitions /\ Code(f)[j].arg = n => j < stack'[k].next
  <2>1. f = Here
    BY <1>3, <1>4, <1>10 DEF Sole
  <2>2. Here \in started
    BY <1>3 DEF SoleGlobal
  <2>3. ASSUME NEW k \in DOMAIN stack', stack'[k].file = f, NEW j \in DOMAIN Code(f),
               Code(f)[j].op \in Definitions, Code(f)[j].arg = n
        PROVE  j < stack'[k].next
    <3>1. k = m
      BY <1>3, <2>1, <2>3 DEF SoleGlobal
    <3>2. j = stack[m].next
      BY <1>1, <1>3, <1>4, <2>1, <2>3 DEF OneMaker
    <3> QED BY <1>3, <3>1, <3>2
  <2> QED BY <2>1, <2>2, <2>3
<1>11. /\ \A k, l \in DOMAIN stack' : stack'[k].file = stack'[l].file => k = l
       /\ \A k \in DOMAIN stack' : stack'[k].file \in started'
       /\ \A i \in DOMAIN made : OneMaker(text, made[i], Build[i], n)
  BY <1>3, <1>6 DEF SoleGlobal
<1> QED BY <1>6, <1>7, <1>8, <1>9, <1>10, <1>11 DEF SoleGlobal

LEMMA ReturnSole ==
  ASSUME LinkageTyped, NEW n \in Name, SoleGlobal(n), Return
  PROVE  SoleGlobal(n)'
<1>1. outcome = "running" /\ UNCHANGED <<text, program, made, started, globals, bound>>
  BY DEF Return, compiling
<1>2. PICK m \in Nat \ {0} : m = Len(stack)
  BY <1>1, AtFrame
<1>3. \A k \in DOMAIN stack' : k \in DOMAIN stack /\ stack'[k] = stack[k]
  <2>1. /\ DOMAIN stack = 1 .. m /\ DOMAIN stack' = 1 .. (m - 1)
        /\ \A k \in 1 .. (m - 1) : stack'[k] = stack[k]
    BY <1>1, <1>2, Returned, AtFrame
  <2> QED BY <2>1
<1>4. Root' = Root /\ \A f : Code(f)' = Code(f)
  BY <1>1 DEF Root, Code
<1> QED BY <1>1, <1>3, <1>4 DEF SoleGlobal

LEMMA StartSole ==
  ASSUME LinkageTyped, NEW n \in Name, SoleGlobal(n), Start
  PROVE  SoleGlobal(n)'
<1>1. /\ stack' = << [file |-> Main, next |-> 1] >> /\ started' = {Main}
      /\ UNCHANGED <<text, program, made, globals, bound>> /\ Len(made) = Len(Build) /\ started = {}
  BY DEF Start, compiling, LinkageTyped
<1>2. DOMAIN stack' = {1} /\ stack'[1].file = Main
  BY <1>1
<1>3. ~(Len(made) < Len(Build)) /\ Root' = Root
  BY <1>1, Files DEF Root
<1>4. /\ globals[n] # Nil => \A f \in File : ~Defines(text, f, n)
      /\ \A f \in File : bound[f][n] \in {Nil, globals[n]}
      /\ \A i \in DOMAIN made : OneMaker(text, made[i], Build[i], n)
  BY <1>1 DEF SoleGlobal
<1> QED BY <1>1, <1>2, <1>3, <1>4 DEF SoleGlobal

LEMMA RuntimeSole ==
  ASSUME LinkageTyped, NEW n \in Name, Sole(text, n), SoleGlobal(n),
         Start \/ Load \/ BindForeign \/ Define \/ Assign \/ Use \/ Return
  PROVE  SoleGlobal(n)'
<1>0. bound \in [File -> [Name -> Nat]] /\ globals \in [Name -> Nat]
  BY DEF LinkageTyped
<1>1. ASSUME Fatal PROVE SoleGlobal(n)'
  <2>1. UNCHANGED <<text, program, made, stack, started, globals, bound>>
    BY <1>1 DEF Fatal, compiling, running
  <2>2. Root' = Root /\ \A f : Code(f)' = Code(f)
    BY <2>1 DEF Root, Code
  <2> QED BY <2>1, <2>2 DEF SoleGlobal
<1>2. CASE Start
  BY <1>2, StartSole
<1>3. CASE Load
  <2>1. outcome = "running" /\ ThisNode.arg \in File
    BY <1>3, AtNodeOf DEF Load, AtNode
  <2>2. CASE stack' = On /\ UNCHANGED <<text, compiling, started, bound, globals, objects, outcome>>
    <3>1. UNCHANGED <<text, program, made, started, bound, globals>>
      BY <2>2 DEF compiling
    <3> QED BY <2>1, <2>2, <3>1, OnSole
  <2>3. CASE Call(ThisNode.arg) /\ UNCHANGED <<text, compiling, bound, globals, objects, outcome>>
    <3>1. UNCHANGED <<text, program, made, bound, globals>>
      BY <2>3 DEF compiling
    <3>2. CASE ThisNode.arg \in started
      <4>1. stack' = On /\ started' = started
        BY <2>1, <2>3, <3>2, Called
      <4> QED BY <2>1, <3>1, <4>1, OnSole
    <3>3. CASE ThisNode.arg \notin started
      BY <2>1, <2>3, <3>1, <3>3, CallSole
    <3> QED BY <3>2, <3>3
  <2> QED BY <1>1, <1>3, <2>2, <2>3 DEF Load
<1>4. CASE BindForeign
  <2>1. outcome = "running" /\ ThisNode.arg \in Name /\ Here \in File
    BY <1>4, AtNodeOf, AtFrame DEF BindForeign, AtNode
  <2>2. CASE Fatal
    BY <1>1, <2>2
  <2>3. CASE ~Fatal
    <3>1. /\ stack' = On /\ UNCHANGED <<text, program, made, started, globals>>
          /\ UNCHANGED bound \/ Binds(ThisNode.arg, globals[ThisNode.arg])
      BY <1>4, <2>3 DEF BindForeign, compiling
    <3>2. \A f \in File : bound'[f][n] \in {bound[f][n], globals[n]}
      BY <1>0, <2>1, <3>1 DEF Binds
    <3> QED BY <2>1, <3>1, <3>2, OnSole
  <2> QED BY <2>2, <2>3
<1>5. ASSUME outcome = "running", Exports, ThisNode.arg \in Name, ThisNode.arg # n PROVE SoleGlobal(n)'
  <2>1. /\ stack' = On /\ UNCHANGED <<text, program, made, started>>
        /\ bound' = [bound EXCEPT ![Here][ThisNode.arg] = objects + 1]
        /\ globals' = [globals EXCEPT ![ThisNode.arg] = objects + 1]
    BY <1>5 DEF Exports, Binds, compiling
  <2>2. globals'[n] = globals[n] /\ \A f \in File : bound'[f][n] = bound[f][n]
    BY <1>0, <1>5, <2>1
  <2> QED BY <1>5, <2>1, <2>2, OnSole
<1>6. CASE Define
  <2>1. outcome = "running" /\ Exports /\ ThisNode.arg \in Name
    BY <1>6, AtNodeOf DEF Define, AtNode
  <2> QED BY <1>5, <1>6, <2>1, DefineSole
<1>7. CASE Assign
  <2>1. /\ AtNode({"assign"}) /\ outcome = "running" /\ Exports /\ ThisNode.arg \in Name
        /\ ThisNode.op = "assign" /\ ThisNode = Code(Here)[Top(stack).next]
        /\ Top(stack).next \in DOMAIN Code(Here)
    BY <1>7, AtNodeOf DEF Assign, AtNode, Imperatives
  <2>2. OneMaker(text, Code(Here), Here, n)
    BY <2>1, MakerAt
  <2>3. ThisNode.arg # n
    BY <2>1, <2>2 DEF OneMaker
  <2> QED BY <1>5, <2>1, <2>3
<1>8. CASE Use
  <2>1. outcome = "running" /\ stack' = On /\ UNCHANGED <<text, program, made, started, bound, globals>>
    BY <1>8 DEF Use, AtNode, compiling
  <2> QED BY <2>1, OnSole
<1>9. CASE Return
  BY <1>9, ReturnSole
<1> QED BY <1>2, <1>3, <1>4, <1>6, <1>7, <1>8, <1>9

LEMMA InitSole == Init => ObjectInv
<1> SUFFICES ASSUME Init PROVE ObjectInv
  OBVIOUS
<1>1. LinkageTyped
  BY InitTyped
<1>2. /\ parsers = << Parsing(Root, 1, FALSE) >> /\ program = <<>> /\ DOMAIN made = {}
      /\ DOMAIN stack = {}
  BY DEF Init, Root
<1>3. InputsOnly
  BY <1>2 DEF InputsOnly, Parsing
<1>4. ASSUME NEW n \in Name PROVE SoleGlobal(n)
  <2>1. globals[n] = Nil /\ \A f \in File : bound[f][n] = Nil
    BY DEF Init
  <2>2. OneMaker(text, program, Root, n)
    BY <1>2 DEF OneMaker
  <2> QED BY <1>2, <2>1, <2>2 DEF SoleGlobal
<1> QED BY <1>1, <1>3, <1>4 DEF ObjectInv

LEMMA StepSole == ObjectInv /\ [Next]_vars => ObjectInv'
<1> SUFFICES ASSUME ObjectInv, [Next]_vars PROVE ObjectInv'
  OBVIOUS
<1>1. LinkageTyped /\ InputsOnly
  BY DEF ObjectInv
<1>2. LinkageTyped' /\ InputsOnly' /\ UNCHANGED text
  BY <1>1, StepTyped, InputsStep, TextStays
<1>3. ASSUME NEW n \in Name, Sole(text, n) PROVE SoleGlobal(n)'
  <2>1. SoleGlobal(n)
    BY <1>3 DEF ObjectInv
  <2>2. CASE Next
    BY <1>1, <1>3, <2>1, <2>2, CompilerSole, RuntimeSole DEF Next
  <2>3. CASE UNCHANGED vars
    <3>1. UNCHANGED <<text, program, made, stack, started, globals, bound>>
      BY <2>3 DEF vars, compiling, running
    <3>2. Root' = Root /\ \A f : Code(f)' = Code(f)
      BY <3>1 DEF Root, Code
    <3> QED BY <2>1, <3>1, <3>2 DEF SoleGlobal
  <2> QED BY <2>2, <2>3
<1> QED BY <1>2, <1>3 DEF ObjectInv

(***************************************************************************)
(* A global that one file defines, that nothing assigns to, and whose file *)
(* is never pasted into another by input:, is one object for every file,   *)
(* whatever the other directives are, circles of imports included: only    *)
(* the definer's program has a node that makes it, the definer's           *)
(* initialiser runs once, and nobody can have bound the name before.       *)
(***************************************************************************)
THEOREM ObjectShared == Spec => []OneObject
<1>1. ObjectInv => OneObject
  <2> SUFFICES ASSUME ObjectInv, NEW n \in Name, DefinedOnce(n), NotAssigned(n), NotInput(n),
                      NEW f \in File
               PROVE  bound[f][n] \in {Nil, globals[n]}
    BY DEF OneObject
  <2>1. Sole(text, n)
    BY HasSays, DefinerDefines DEF Sole, DefinedOnce, NotAssigned, NotInput
  <2> QED BY <2>1 DEF ObjectInv, SoleGlobal
<1> QED BY InitSole, StepSole, <1>1, PTL DEF Spec
=============================================================================
