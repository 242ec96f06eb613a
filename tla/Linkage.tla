-------------------------------- MODULE Linkage --------------------------------
(***************************************************************************)
(* How separately compiled files find each other's globals.  The compiler  *)
(* (src/object/idc/Compiler.st) scans a file and every file it imports or  *)
(* includes, once each, and remembers which declarations are another       *)
(* file's.  The initialiser it generates for the file creates and exports  *)
(* the globals that are its own, loads the libraries it imports, and asks  *)
(* the runtime (src/object/id/libid.c) for the others by name.  All files  *)
(* are compiled first, then the program is run.                            *)
(***************************************************************************)
EXTENDS Naturals, Sequences

CONSTANTS Library,   \* files built as shared libraries
          Main,      \* the file built as the program
          Build,     \* bound: the order in which the files are compiled
          Name,      \* the names of prototypes and variables
          Texts      \* bound: the sources considered

File == Library \cup {Main}

(***************************************************************************)
(* A top-level form: a directive and its file; or the definition of a      *)
(* prototype or a variable, an imperative that uses a global, or one that  *)
(* assigns to it, and its name.  A name has the same slots wherever it is  *)
(* a prototype.                                                            *)
(***************************************************************************)
Directives == {"import", "include", "input"}
Definitions == {"prototype", "variable"}
Imperatives == {"use", "assign"}
Form == [op : Directives, arg : File] \cup [op : Definitions \cup Imperatives, arg : Name]

ASSUME LinkageAssumption ==
  /\ Main \notin Library
  /\ Build \in Seq(File) /\ File = {Build[i] : i \in DOMAIN Build}
  /\ \A i, j \in DOMAIN Build : Build[i] = Build[j] => i = j
  /\ \A t \in Texts : DOMAIN t = File /\ \A f \in File : t[f] \in Seq(Form)

VARIABLES text,     \* the source of every file
          parsers,  \* the files being scanned, outermost first
          scanned,  \* sources: the files scanned for the one being compiled
          imports,  \* the libraries it has an ImportNode for
          program,  \* its ParseNodes so far
          made,     \* the programs of the files compiled so far
          stack,    \* the initialisers that run, innermost last
          started,  \* files whose static _libid is set
          bound,    \* bound[f][n]: the variable v_n of f
          globals,  \* _object_Table: what has been exported by each name
          objects,  \* how many objects have been made
          outcome   \* how far the whole has got

compiling == <<parsers, scanned, imports, program, made>>
running == <<stack, started, bound, globals, objects>>
vars == <<text, compiling, running, outcome>>

Parser == [file : File, next : Nat, including : BOOLEAN]
Parsing(f, i, b) == [file |-> f, next |-> i, including |-> b]

\* A ParseNode; foreign is its flag included or external.
Node == [op : Definitions \cup Imperatives \cup {"import"}, arg : File \cup Name,
         foreign : BOOLEAN]
Noded(op, a, b) == [op |-> op, arg |-> a, foreign |-> b]

\* Objects are numbered as they are made; nil is the null pointer.
Nil == 0
Frame == [file : File, next : Nat]
-----------------------------------------------------------------------------
(* Compiling.                                                              *)

Root == Build[Len(made) + 1]
Building == outcome = "building" /\ Len(made) < Len(Build)
Top(s) == s[Len(s)]
Below(s) == SubSeq(s, 1, Len(s) - 1)

Init ==
  /\ text \in Texts
  /\ parsers = << Parsing(Build[1], 1, FALSE) >>
  /\ scanned = {Build[1]}
  /\ imports = {}
  /\ program = <<>>
  /\ made = <<>>
  /\ stack = <<>>
  /\ started = {}
  /\ bound = [f \in File |-> [n \in Name |-> Nil]]
  /\ globals = [n \in Name |-> Nil]
  /\ objects = 0
  /\ outcome = "building"

\* The parser comes to a form that begins with op.
AtForm(op) ==
  /\ Building
  /\ Top(parsers).next <= Len(text[Top(parsers).file])
  /\ text[Top(parsers).file][Top(parsers).next].op = op
Argument == text[Top(parsers).file][Top(parsers).next].arg
Including == Top(parsers).including

Past == Append(Below(parsers), [Top(parsers) EXCEPT !.next = @ + 1])

\* readFrom:including: scans a file unless it has been scanned already.
ReadFrom(f, b) ==
  /\ scanned' = scanned \cup {f}
  /\ parsers' = IF f \in scanned THEN Past ELSE Append(Past, Parsing(f, 1, b))

Adds(node) == program' = Append(program, node)

Import ==
  /\ AtForm("import")
  /\ imports' = imports \cup {Argument}
  /\ IF Argument \in imports THEN UNCHANGED program
     ELSE Adds(Noded("import", Argument, Including))
  /\ ReadFrom(Argument, TRUE)
  /\ UNCHANGED <<text, made, running, outcome>>

Include ==
  /\ AtForm("include")
  /\ ReadFrom(Argument, TRUE)
  /\ UNCHANGED <<text, imports, program, made, running, outcome>>

Input ==
  /\ AtForm("input")
  /\ ReadFrom(Argument, Including)
  /\ UNCHANGED <<text, imports, program, made, running, outcome>>

Declared(ops) == \E i \in DOMAIN program : program[i].op \in ops /\ program[i].arg = Argument

\* error:at: ends the compiler.
Rejects ==
  /\ outcome' = "rejected"
  /\ UNCHANGED <<text, compiling, running>>

\* addType: a second declaration with the same slots is ignored.
Prototype ==
  /\ AtForm("prototype")
  /\ IF Declared({"variable"}) THEN Rejects
     ELSE /\ IF Declared({"prototype"}) THEN UNCHANGED program
             ELSE Adds(Noded("prototype", Argument, Including))
          /\ parsers' = Past
          /\ UNCHANGED <<text, scanned, imports, made, running, outcome>>

Variable ==
  /\ AtForm("variable")
  /\ IF Declared(Definitions) THEN Rejects
     ELSE /\ Adds(Noded("variable", Argument, Including))
          /\ parsers' = Past
          /\ UNCHANGED <<text, scanned, imports, made, running, outcome>>

\* addExec: imperatives of other files are ignored.
Imperative ==
  /\ \E op \in Imperatives :
       /\ AtForm(op)
       /\ IF Including THEN UNCHANGED program ELSE Adds(Noded(op, Argument, FALSE))
  /\ parsers' = Past
  /\ UNCHANGED <<text, scanned, imports, made, running, outcome>>

AtEnd == Building /\ Top(parsers).next > Len(text[Top(parsers).file])

EndOfFileIncluding ==
  /\ AtEnd /\ Len(parsers) > 1
  /\ parsers' = [Below(parsers) EXCEPT ![Len(parsers) - 1].including = TRUE]
  /\ UNCHANGED <<text, scanned, imports, program, made, running, outcome>>
EndOfFile ==
  /\ AtEnd /\ Len(parsers) > 1
  /\ parsers' = Below(parsers)
  /\ UNCHANGED <<text, scanned, imports, program, made, running, outcome>>

Names(p, ops) == {p[i].arg : i \in {j \in DOMAIN p : p[j].op \in ops}}

(***************************************************************************)
(* The end of the file being compiled.  Only now are the imperatives       *)
(* encoded, which finds their names anywhere in it; then the next file.    *)
(***************************************************************************)
Compiled ==
  /\ AtEnd /\ Len(parsers) = 1
  /\ IF Names(program, Imperatives) \subseteq Names(program, Definitions)
     THEN /\ made' = Append(made, program)
          /\ program' = <<>>
          /\ imports' = {}
          /\ LET more == Len(made) + 1 < Len(Build)
             IN /\ parsers' = IF more THEN << Parsing(Build[Len(made) + 2], 1, FALSE) >> ELSE <<>>
                /\ scanned' = IF more THEN {Build[Len(made) + 2]} ELSE {}
          /\ UNCHANGED <<text, running, outcome>>
     ELSE Rejects
-----------------------------------------------------------------------------
(* Running.                                                                *)

Code(f) == made[CHOOSE i \in DOMAIN Build : Build[i] = f]

\* A foreign global that no imperative of the file names is not imported.
Used(f, n) == n \in Names(Code(f), Imperatives)

\* main() calls the initialiser of the program.
Start ==
  /\ outcome = "building" /\ Len(made) = Len(Build)
  /\ outcome' = "running"
  /\ stack' = << [file |-> Main, next |-> 1] >>
  /\ started' = {Main}
  /\ UNCHANGED <<text, compiling, bound, globals, objects>>

Here == Top(stack).file
AtNode(ops) ==
  /\ outcome = "running"
  /\ Top(stack).next <= Len(Code(Here))
  /\ Code(Here)[Top(stack).next].op \in ops
ThisNode == Code(Here)[Top(stack).next]
On == Append(Below(stack), [Top(stack) EXCEPT !.next = @ + 1])

Fatal ==
  /\ outcome' = "fatal"
  /\ UNCHANGED <<text, compiling, running>>

OnStack(f) == \E i \in DOMAIN stack : stack[i].file = f
CallUnlessRunning(f) ==
  /\ started' = started \cup {f}
  /\ stack' = IF OnStack(f) THEN On ELSE Append(On, [file |-> f, next |-> 1])
CallWhenReturned(f) ==
  /\ ~OnStack(f)
  /\ started' = started \cup {f}
  /\ stack' = IF f \in started THEN On ELSE Append(On, [file |-> f, next |-> 1])
\* An initialiser returns at once when it has been called before, even if
\* that call has not returned.
Call(f) ==
  /\ started' = started \cup {f}
  /\ stack' = IF f \in started THEN On ELSE Append(On, [file |-> f, next |-> 1])

\* _object _import: an indirect import is left to the library that is
\* between.  The program is not to be found as a library.
Load ==
  /\ AtNode({"import"})
  /\ IF ThisNode.foreign
     THEN stack' = On /\ UNCHANGED <<text, compiling, started, bound, globals, objects, outcome>>
     ELSE IF ThisNode.arg \notin Library THEN Fatal
     ELSE Call(ThisNode.arg) /\ UNCHANGED <<text, compiling, bound, globals, objects, outcome>>

Binds(n, v) == bound' = [bound EXCEPT ![Here][n] = v]

\* _libid_import.
BindForeign ==
  /\ AtNode(Definitions) /\ ThisNode.foreign
  /\ IF ~Used(Here, ThisNode.arg)
     THEN stack' = On /\ UNCHANGED <<text, compiling, started, bound, globals, objects, outcome>>
     ELSE IF globals[ThisNode.arg] = Nil THEN Fatal
     ELSE /\ Binds(ThisNode.arg, globals[ThisNode.arg])
          /\ stack' = On
          /\ UNCHANGED <<text, compiling, started, globals, objects, outcome>>

\* A new object, stored in the file's variable and _libid_export-ed.
Exports ==
  LET v == objects + 1
  IN /\ objects' = v
     /\ Binds(ThisNode.arg, v)
     /\ globals' = [globals EXCEPT ![ThisNode.arg] = v]
     /\ stack' = On
     /\ UNCHANGED <<text, compiling, started, outcome>>

Define == AtNode(Definitions) /\ ~ThisNode.foreign /\ Exports

\* storeGlobal:location: the copies of other files stay what they were.
Assign == AtNode({"assign"}) /\ Exports

Use ==
  /\ AtNode({"use"})
  /\ stack' = On
  /\ UNCHANGED <<text, compiling, started, bound, globals, objects, outcome>>

Return ==
  /\ outcome = "running"
  /\ Top(stack).next > Len(Code(Here))
  /\ stack' = Below(stack)
  /\ outcome' = IF Len(stack) = 1 THEN "done" ELSE "running"
  /\ UNCHANGED <<text, compiling, started, bound, globals, objects>>

Next ==
  \/ Import \/ Include \/ Input \/ Prototype \/ Variable \/ Imperative
  \/ EndOfFile \/ Compiled
  \/ Start \/ Load \/ BindForeign \/ Define \/ Assign \/ Use \/ Return

\* The compiler and the program are sequential and run until they stop.
Spec == Init /\ [][Next]_vars /\ WF_vars(Next)
-----------------------------------------------------------------------------
Has(f, op, a) == \E i \in DOMAIN text[f] : text[f][i].op = op /\ text[f][i].arg = a
OnlyImports == \A f, g \in File : ~Has(f, "include", g) /\ ~Has(f, "input", g)

\* No file imports itself, by way of others or not.
Imported(s) == {g \in File : \E f \in s : Has(f, "import", g)}
Acyclic == \A s \in SUBSET File : s # {} => ~(s \subseteq Imported(s))

(***************************************************************************)
(* A program whose files only import each other, never in a circle, finds  *)
(* every library and every global it asks for: skipping the imports of     *)
(* other files and repeated imports loses none.                            *)
(***************************************************************************)
ImportsSuffice == OnlyImports /\ Acyclic => outcome # "fatal"

(***************************************************************************)
(* Every library that a file imports is initialised by the time the        *)
(* program's initialiser returns, if the file is and files only import,    *)
(* never in a circle: whichever of the ways to a library was met first,    *)
(* and is left to, leads there.                                            *)
(***************************************************************************)
AllLoaded ==
  outcome = "done" =>
    \A f \in started, g \in Library : Has(f, "import", g) => g \in started
ImportsLoad == OnlyImports /\ Acyclic => AllLoaded

(***************************************************************************)
(* The library of every import directive in a file has been loaded into    *)
(* the running program by the time the program's initialiser returns, if   *)
(* the file has (doc/pepsi.html.in on { import: } says so of all imports). *)
(***************************************************************************)
ImportsAlwaysLoad == OnlyImports => AllLoaded

(***************************************************************************)
(* A global that one file only defines, and that nothing assigns to, is    *)
(* one object for everyone, however many files import that file and along  *)
(* however many ways.                                                      *)
(***************************************************************************)
Definer(f, n) == \E op \in Definitions : Has(f, op, n)
DefinedOnce(n) == \A f, g \in File : Definer(f, n) /\ Definer(g, n) => f = g
NotAssigned(n) == \A f \in File : ~Has(f, "assign", n)
NotInput(n) == \A f, g \in File : Definer(g, n) => ~Has(f, "input", g)

OneObject ==
  \A n \in Name : DefinedOnce(n) /\ NotAssigned(n) /\ NotInput(n) =>
    \A f \in File : bound[f][n] \in {Nil, globals[n]}

\* Circles of imports neither hang the compiler nor the program.
Stops == <>(outcome \in {"rejected", "fatal", "done"})
=============================================================================
