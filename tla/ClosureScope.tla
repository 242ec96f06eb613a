---------------------------- MODULE ClosureScope ----------------------------
(***************************************************************************)
(* Closure conversion in the compiler, src/object/idc.  While a method is  *)
(* encoded, Scope decides which variables move to a heap-allocated state   *)
(* vector, which closures need a link to their outer closure, and which    *)
(* levels a non-local return crosses; afterwards CCodeGenerator turns      *)
(* every reference into a walk along those links.  The text of a method is *)
(* unknown to this module: at each step the program may mention a          *)
(* variable, open a block that is compiled in line, mention a block        *)
(* literal, return, or end its current block.                              *)
(***************************************************************************)
EXTENDS Naturals, Sequences, FiniteSets, FiniteSetsExt, Functions

CONSTANTS Name,      \* names of arguments and temporaries
          Slot,      \* the slots of the type the method is defined in
          Self,      \* the argument 'self' ...
          Stateful,  \* ... and 'stateful_self', which is tied to it
          MaxScopes  \* bound: the scopes of one method

ASSUME ClosureScopeAssumption ==
  /\ Self # Stateful
  /\ {Self, Stateful} \cap (Name \cup Slot) = {} /\ Name \cap Slot = {}
  /\ IsFiniteSet(Name) /\ IsFiniteSet(Slot)
  /\ MaxScopes \in Nat \ {0}

VARIABLES kind,      \* what is encoded: a method, or statements to execute
          outer,     \* outer[s]: the scope around scope s; 0 around the first
          inline,    \* inline[s]: s belongs to a block compiled in line
          level,     \* level[s]: nesting depth of the C function s is part of
          declared,  \* declared[s]: the names s defines
          blocks,    \* blocks[s]: literal blocks of s still to be encoded
          bodies,    \* scopes whose statements are encoded: only bodies remain
          encodings, \* what each scope has found its names to mean
          offset,    \* offset[s][n]: the place of n in s's state vector; 0: none
          lastOffset,\* lastOffset[s]: the places taken in s's state vector
          imports, exports, nlrs, \* the scopes with that flag
          current    \* the scope being encoded; 0 at the end

vars == <<kind, outer, inline, level, declared, blocks, bodies, encodings,
          offset, lastOffset, imports, exports, nlrs, current>>

Everything == Name \cup Slot \cup {Self, Stateful}
Scopes == DOMAIN outer
Encoding == [scope : Nat, name : Everything, owner : Nat]

\* s and the scopes around it.
Enclosing(s) ==
  LET around[t \in 0..Len(outer)] == IF t = 0 THEN {} ELSE {t} \cup around[outer[t]]
  IN around[s]

\* The scopes that define n in or around s; none is hidden by another.
Defining(s, n) == {o \in Enclosing(s) : n \in declared[o]}
-----------------------------------------------------------------------------
(* Scope>>withOuter: and what beginBlock, beginSequence add to it.         *)

NoOffsets == [n \in Everything |-> 0]

Pending == FoldFunction(+, 0, blocks)

NewScope(names, isInline, waiting) ==
  /\ outer' = Append(outer, current)
  /\ inline' = Append(inline, isInline)
  /\ level' = Append(level, IF isInline THEN level[current] ELSE level[current] + 1)
  /\ declared' = Append(declared, names)
  /\ blocks' = Append(waiting, 0)
  /\ offset' = Append(offset, NoOffsets)
  /\ lastOffset' = Append(lastOffset, 0)
  /\ current' = Len(outer) + 1

\* MethodNode>>encode: or ExecNode>>encode: has opened the outermost scope.
Init ==
  /\ kind \in {"method", "exec"}
  /\ \E names \in SUBSET Name :
       declared = << IF kind = "method" THEN names \cup Slot \cup {Self, Stateful}
                     ELSE names >>
  /\ outer = <<0>> /\ inline = <<FALSE>> /\ level = <<1>> /\ blocks = <<0>>
  /\ offset = <<NoOffsets>> /\ lastOffset = <<0>>
  /\ bodies = {} /\ encodings = {}
  /\ imports = {} /\ exports = {} /\ nlrs = {}
  /\ current = 1

InStatements == current # 0 /\ current \notin bodies
-----------------------------------------------------------------------------
(* Variables: Scope>>encode: and what it sends.                            *)

\* What an offset is looked for under: a slot is reached through the receiver.
Variable(n) == IF n \in Slot THEN Self ELSE n

IsFree(o, n) == offset[o][Variable(n)] # 0

\* Mutant: without the test.
GivenAnother(v, m) == [at |-> [v.at EXCEPT ![m] = v.last + 1], last |-> v.last + 1]

\* EncodedVariableNode>>freeWithin: m has a place in the vector v, or gets the next.
GivenPlace(v, m) ==
  IF v.at[m] # 0 THEN v
  ELSE [at |-> [v.at EXCEPT ![m] = v.last + 1], last |-> v.last + 1]

\* SlotVariableNode>>freeWithin: is that of 'self', which drags 'stateful_self' along.
FreeWithin(o, n) ==
  LET vector == [at |-> offset[o], last |-> lastOffset[o]]
      freed == IF Variable(n) = Self THEN GivenPlace(GivenPlace(vector, Self), Stateful)
               ELSE GivenPlace(vector, n)
  IN /\ offset' = [offset EXCEPT ![o] = freed.at]
     /\ lastOffset' = [lastOffset EXCEPT ![o] = freed.last]
     /\ exports' = exports \cup {o}

\* Scope>>closeOver: every scope from s up to the defining one imports.
CloseOverInnermost(s, o) == imports' = imports \cup ({s} \ {o})
CloseOver(s, o) == imports' = imports \cup (Enclosing(s) \ Enclosing(o))

(***************************************************************************)
(* The current scope mentions n for the first time (a second mention is    *)
(* answered from the scope's own cache and changes nothing).               *)
(***************************************************************************)
Encode(n) ==
  /\ InStatements
  /\ \A e \in encodings : ~(e.scope = current /\ e.name = n)
  /\ \E o \in Defining(current, n) :
       /\ encodings' = encodings \cup {[scope |-> current, name |-> n, owner |-> o]}
       /\ IF level[o] = level[current]
            THEN UNCHANGED <<offset, lastOffset, exports>>
            ELSE FreeWithin(o, n)
       /\ IF level[o] = level[current] /\ ~IsFree(o, n)
            THEN UNCHANGED imports
            ELSE CloseOver(current, o)
  /\ UNCHANGED <<kind, outer, inline, level, declared, blocks, bodies, nlrs, current>>

\* ReturnNode>>encode: deeper than the method, Scope>>noteNLR up to the method.
NoteNLRHere(s) == nlrs' = nlrs \cup {s}
NoteNLR(s) == nlrs' = nlrs \cup Enclosing(s)

NonLocalReturn ==
  /\ InStatements
  /\ level[current] > 1
  /\ NoteNLR(current)
  /\ UNCHANGED <<kind, outer, inline, level, declared, blocks, bodies, encodings,
                 offset, lastOffset, imports, exports, current>>
-----------------------------------------------------------------------------
(* Blocks.  A block without arguments or temporaries that is the operand   *)
(* of a control structure is compiled in line; any other is a literal      *)
(* whose body waits until the statements around it have been encoded.      *)

\* BlockNode>>encodeOpen: up to its statements.
OpenInline ==
  /\ InStatements
  /\ Len(outer) + Pending < MaxScopes
  /\ NewScope({}, TRUE, blocks)
  /\ UNCHANGED <<kind, bodies, encodings, imports, exports, nlrs>>

CloseInlineKeeping ==
  /\ InStatements
  /\ inline[current]
  /\ current' = outer[current]
  /\ UNCHANGED <<kind, outer, inline, level, declared, blocks, bodies, encodings,
                 offset, lastOffset, imports, exports, nlrs>>

\* ... and after them: literals seen in line are handed to the scope around.
CloseInline ==
  /\ InStatements
  /\ inline[current]
  /\ blocks' = [blocks EXCEPT ![outer[current]] = @ + blocks[current],
                              ![current] = 0]
  /\ current' = outer[current]
  /\ UNCHANGED <<kind, outer, inline, level, declared, bodies, encodings,
                 offset, lastOffset, imports, exports, nlrs>>

\* BlockNode>>encode: only remembers the block.
AddBlock ==
  /\ InStatements
  /\ Len(outer) + Pending < MaxScopes
  /\ blocks' = [blocks EXCEPT ![current] = @ + 1]
  /\ UNCHANGED <<kind, outer, inline, level, declared, bodies, encodings, offset,
                 lastOffset, imports, exports, nlrs, current>>

\* The last statement of a method or a literal block has been encoded.
EndStatements ==
  /\ InStatements
  /\ ~inline[current]
  /\ bodies' = bodies \cup {current}
  /\ UNCHANGED <<kind, outer, inline, level, declared, blocks, encodings, offset,
                 lastOffset, imports, exports, nlrs, current>>

(***************************************************************************)
(* BlockNode>>encodeBody: for the next block of the current scope.  A name *)
(* already visible cannot be declared again.                               *)
(***************************************************************************)
EncodeBody(names) ==
  /\ current \in bodies
  /\ blocks[current] > 0
  /\ \A n \in names : Defining(current, n) = {}
  /\ NewScope(names, FALSE, [blocks EXCEPT ![current] = @ - 1])
  /\ UNCHANGED <<kind, bodies, encodings, imports, exports, nlrs>>

EndBody ==
  /\ current \in bodies
  /\ blocks[current] = 0
  /\ current' = outer[current]
  /\ UNCHANGED <<kind, outer, inline, level, declared, blocks, bodies, encodings,
                 offset, lastOffset, imports, exports, nlrs>>

Next ==
  \/ \E n \in Everything \ {Stateful} : Encode(n)
  \/ NonLocalReturn
  \/ OpenInline \/ CloseInline
  \/ AddBlock \/ EndStatements
  \/ \E names \in SUBSET Name : EncodeBody(names)
  \/ EndBody

Spec == Init /\ [][Next]_vars
-----------------------------------------------------------------------------
(***************************************************************************)
(* What CCodeGenerator makes of it once the whole method is encoded.  A    *)
(* literal block b becomes a C function, and a closure made, each time the *)
(* code around b runs, by makeBlock:...: of three links.                   *)
(***************************************************************************)
Done == current = 0

\* The scope of the C function that the code of scope s is part of.
Function(s) == Max({t \in Enclosing(s) : ~inline[t]})

Closures == {b \in Scopes : ~inline[b] /\ b # 1}

\* v_outer: the closure whose code makes b, v__self there.
OuterLink(b) == IF outer[b] \in imports THEN Function(outer[b]) ELSE 0

\* v_state: the state vector of the scope around b.
StateLink(b) == IF outer[b] \in exports THEN outer[b] ELSE 0

(***************************************************************************)
(* genFreeState:outer:offset: climbs indir - 1 outer links from v__self    *)
(* and takes the state vector there.                                       *)
(***************************************************************************)
StateReached(s, indir) ==
  LET climb[k \in 0..indir] ==
        IF k = 0 THEN Function(s)
        ELSE IF climb[k - 1] \in Closures THEN OuterLink(climb[k - 1]) ELSE 0
      from == climb[indir - 1]
  IN IF from \in Closures THEN StateLink(from) ELSE 0

(***************************************************************************)
(* v__nlr: the function whose '_nlr' the closure of b ends up holding, or  *)
(* 0.  The name '_nlr' means something in a method with a non-local return *)
(* only (declareNonLocalReturn).                                           *)
(***************************************************************************)
NlrLink(b) ==
  LET link[c \in Closures] ==
        IF c \notin nlrs THEN 0
        ELSE IF outer[c] \notin imports THEN Function(outer[c])
        ELSE IF Function(outer[c]) \in Closures THEN link[Function(outer[c])]
        ELSE 0
  IN link[b]

DeclaresNlr(f) == f = 1 /\ kind = "method" /\ f \in nlrs
Compiles == \A b \in Closures \cap nlrs :
              outer[b] \notin imports => DeclaresNlr(Function(outer[b]))
-----------------------------------------------------------------------------
(***************************************************************************)
(* Every reference finds its variable: one that moved to a state vector is *)
(* read through a chain of closures that leads to the vector of the scope  *)
(* that defines it, none of the links missing; one that did not is used in *)
(* the C function that declares it.  Scope>>encode: decides this bit by    *)
(* bit while later references can still move a variable.                   *)
(***************************************************************************)
FreeVariablesReachable ==
  Done => \A e \in encodings :
    LET indir == level[e.scope] - level[e.owner]
    IN IF IsFree(e.owner, e.name) /\ indir > 0
         THEN StateReached(e.scope, indir) = e.owner
         ELSE Function(e.scope) = Function(e.owner)

(***************************************************************************)
(* The state vector made for a scope (createStateVector:, of a size        *)
(* counted from the scope's variables) has one place for each variable     *)
(* that generated code will look for in it.                                *)
(***************************************************************************)
StateVectorsFit ==
  Done => \A s \in Scopes :
    LET free == {n \in declared[s] : IsFree(s, n)}
        place == {offset[s][n] : n \in Everything} \ {0}
    IN /\ (free # {}) <=> (s \in exports)
       /\ place = 1..lastOffset[s]
       /\ Cardinality({n \in Everything : offset[s][n] # 0}) = lastOffset[s]
       /\ lastOffset[s] <= Cardinality(free)

(***************************************************************************)
(* In a method that the C compiler accepts, every block that returns, or   *)
(* holds one that does, has the jump buffer of the method it is in, and    *)
(* the method has set it.                                                  *)
(***************************************************************************)
NonLocalReturnsHome ==
  (Done /\ Compiles) =>
    \A b \in Closures \cap nlrs : NlrLink(b) = 1 /\ DeclaresNlr(1)

(***************************************************************************)
(* No block literal is forgotten, however deep in blocks compiled in line  *)
(* it was met: its body is encoded before the method is done.              *)
(***************************************************************************)
EveryBlockEncoded == Done => \A s \in Scopes : blocks[s] = 0

(***************************************************************************)
(* "An explicit return statement inside a block behaves just like in       *)
(* Smalltalk-80" (doc/pepsi.html.in): wherever in a method a block returns *)
(* non-locally, the code generated for the method can be compiled.         *)
(***************************************************************************)
BlocksInMethodsMayReturn == (Done /\ kind = "method") => Compiles

=============================================================================
