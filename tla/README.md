# A verification project for idst: TLA+ models, TLC runs and TLAPS proofs

The repository holds a small prototype-based object system: the compiler `idc`
for a Smalltalk-like language, the C library `libid` its programs run on, the
class library `st80` written in the language itself, and, under `function/`, a
second generation of libraries and dynamic compilers built with them. This
directory models the parts that carry the system's own logic, model-checks them
on small instances, and proves their main invariants for all values of the
constants. `PROJECT.json` is the index: components, runs, mutants, the map from
definitions to source lines, hazards, findings and theorems.

To work on it: `tlc -config Activation.cfg MCActivation` checks one instance,
`tlapm ActivationProofs.tla` checks one module of proofs.

## 1. Inventory

### 1.1 The system

| part | source | state | operations | status |
|---|---|---|---|---|
| Dynamic binding | `object/id/libid.c` | vtables with delegates and method vectors; the global method cache `_libid_mcache`; a static `recursionGuard` in each bind function | `_delegated`, `_methodAt:put:`, `_vtable flush`, `_libid_bind`, `_libid_bindv`, user-level `lookup:` and `doesNotUnderstand:` | modelled |
| Activations | `libid.c`, code emitted by `CCodeGenerator.st` | the array `positions`, `position`; jump buffers on the C stack; the `_nlr` of closures | enter, line, leave, non-local return, backtrace | partly: no backtrace text |
| Compilation and linking | `idc/Compiler.st`, `ImportNode.st`, `CCodeGenerator.st`, `libid.c` | scanned sources, imports, the program's nodes; per file the variables `v_X` and a static `_libid`; `_object_Table` | import:, include:, input:, definitions, imperatives; initialisers; `_libid_import`, `_libid_export` | partly: top-level forms without methods |
| Closure conversion | `idc/Scope.st`, `Encoder.st`, `BlockNode.st`, `*VariableNode.st`, `ReturnNode.st` | the tree of scopes, variables' offsets, flags import / export / NLR, blocks waiting | encode a name, a block, a return; end a body | partly: no literals; temporaries are in OpenCode |
| OrderedCollection | `st80/OrderedCollection.st` | array, firstIndex, lastIndex | new:, add and remove at both ends, at:, at:put:, copyFrom:to:, do: | modelled |
| Set | `st80/Set.st` | array of slots, tally | new:, add:, remove:ifAbsent:, like:, size, do: | partly: rehash aborts, see below |
| Interning of selectors | `libid.c:369-417` | a sorted vector of selectors and its tally | intern | modelled; of the table of exported names only the clashes (Linkage) |
| bind2 | `libid.c:678-726` | the method cache again, a guard of its own | bind along a chain of object fragments | planned |
| Dictionary, IdentitySet, IdentityDictionary | `st80/` | a Set of associations | at:, at:put:, removeKey:, add:, addAll: | partly: no printing, keys, collect: |
| Streams | `st80/*Stream.st` | collection, position, readLimit, writeLimit | next, next:, peek, nextPut:, atEnd, position:, skip:, reset, resetToStart, size, contents, readStream | modelled, but for operations composed of these |
| AVLTree | `st80/AVLTree.st` | nodes with a recorded height | add:, find:, remove:, do: | modelled |
| Integers | `st80/SmallInteger.st`, `LargeInteger.st`, `Large*Integer.st`, `CCodeGenerator.st:832-990` | tagged 31-bit integers in C ints; signs with vectors of digits | `+ - * quo: // \\ bitAnd: bitOr: bitXor: bitShift: << >> <` | partly: no fractions, floats, printing |
| Encoder temporaries and open code | `idc/Encoder.st`, `SendNode.st`, `CCodeGenerator.st` | counts of C variables, labels, bodies waiting | push, pop, beginBlock, endBlock, the forms that are opened out; loads, stores, sends, jumps, returns | partly: no types, literals' data, warnings |
| function/objects | `function/objects/*.st` | LinkedList, SlotDictionary, MemoDictionary, ... | add, remove, at:, at:put:, removeKey:, do: | partly: the first two |
| Profiler | `function/objects/_profile.c` | hooks in place of enter and leave, an array of entries, profiles and edges with counts of active calls; a tick set by SIGALRM | printExecutionProfile: enable, disable, enter, leave | partly: times, no counts of calls and samples, no text |
| Parsing expressions | `function/jolt2/ParsingExpression.st`, `Parser.st`, `Grammar.st` | a stream, frames of result slots, the last result, actions noted | finalise a grammar; next, with every expression and commit; Grammar parse: | partly: no error texts, no redefined rules |
| Scanner, parser, C text, options | `idc/` | text | | not modelled: text processing |
| Sequenceable collections, strings, perform | `st80/` | none of their own | | where the above use them |
| WeakArray | `st80/WeakArray.st` | links registered with the collector | at:put: | not modelled: the collector decides |
| Dynamic compilers | `function/jolt*` | registers with reference counts | instruction selection, encoding | not modelled, except their parser, above |
| Collector, fdlibm, bootstrap C | `object/gc*`, `system`, `object/boot` | | | third-party or generated |
| Canvas and examples | `function/canvas`, `*/examples*` | | | programs that use the system |

### 1.2 How the parts interact

A source file is compiled on its own: **Compiler** scans it with everything it
imports, **Encoder** and **Scope** give each name a place (C variable, state
vector, slot or global), and **CCodeGenerator** writes C. At run time the file's
initialiser makes its prototypes, calls the initialisers of the libraries it
imports and fetches the other globals by name. Every message goes through
`_libid_bind` or `_libid_bindv`: the **method cache** answers, or the vtable is
sent `lookup:`, itself a message and open to redefinition. Compiled with
debugging information, each method and block pushes a record on the **position
stack** when it enters; the **profiler** puts itself between the compiled code
and that stack while the program runs. A block that returns from its method does so by
`longjmp`, past everything in between: bind functions waiting for `lookup:`, and
activations whose records are still on the stack. The **class library** is
ordinary code of the language; its collections call back blocks that may change
the collection they are iterating over.

There are no threads. What makes the system hard is *re-entrance* (a send in the
middle of a send, an initialiser in the middle of an initialiser, a block in the
middle of a `do:`), *non-local exit* (a `longjmp` that skips clean-up), *cached
and copied state* (method cache, memoised encodings, per-file copies of globals,
a `do:` that computed its limits), and *representations that drift* (elements
wandering through an array, chains of collisions).

The correctness properties, part by part:

* binding: every bind answers what an uncached lookup would answer at that
  moment; the guards against infinite lookup work however the code is left;
* activations: every live activation keeps its record; a backtrace can be wrong
  only where a non-local return landed; homes are live or known to be dead;
* linking: circles of imports end; without circles, every import is served; a
  global that is defined once is one object everywhere;
* closure conversion: every reference and every non-local return finds its
  target along links that exist, whatever order references and blocks come in;
* collections: each behaves like the mathematical object it represents, and
  iteration stays meaningful while it changes;
* arithmetic: the answer is the integer's, in its one representation, whichever
  of the opened-out code, the method and the digit loops found it;
* compiled code: it does what the source says, whatever is opened out inside
  whatever else;
* parsing: an answer is made of what was recognised, and of nothing that was tried
  on the way and failed;
* the profiler: the program runs as without it, and time is charged once, to the
  activation that spent it.

## 2. Modules

Each component module has its state as VARIABLES, one action per operation, and
its properties; the `MC` module gives the constants values
that a `.cfg` cannot write; the `Proofs` module has the theorems. Definitions
named as mutants in a comment are used by no specification: each is a plausible
bug of the definition that follows it, and shows that a property would see it.

| module | role | code |
|---|---|---|
| `MessageSend` | abstract: families, definitions, and sends answered by the nearest one | what `libid` promises |
| `Dispatch` | detailed: cache, flush, both bind functions, `lookup:`, handlers, escapes | `libid.c` |
| `Activation` | position stack and non-local return | `libid.c`, `CCodeGenerator.st`, `ReturnNode.st` |
| `Linkage` | compile all files, then run the program's initialiser | `Compiler.st`, `CCodeGenerator.st`, `libid.c` |
| `ClosureScope` | closure conversion of one method | `Scope.st`, `BlockNode.st`, variable nodes, `CCodeGenerator.st` |
| `OpenCode` | translation of a method to C variables, jumps and sends, and its execution | `Encoder.st`, `SendNode.st`, `CCodeGenerator.st` and the parse nodes |
| `SourceMeaning` | what the statements of a method or block mean, to compare with | the language of the parse nodes |
| `Profiler` | `Activation` under `printExecutionProfile` | `_profile.c`, `BlockClosure.st` |
| `Deque` | abstract: a sequence with two ends | what an OrderedCollection promises |
| `OrderedCollection` | detailed: a window in an array | `OrderedCollection.st` |
| `UnequalElements` | abstract: a set of unequal elements | what a Set promises |
| `HashSet` | detailed: linear probing | `Set.st` |
| `SharedMaps`, `Dictionary` | abstract: maps whose values are in cells they may share; detailed: `HashSet`'s probing by keys | `Dictionary.st`, `Set.st` |
| `Tape` | abstract: a sequence of items and a place in it | what streams promise |
| `Streams` | detailed: array, position and limits | `PositionableStream.st`, `ReadStream.st`, `WriteStream.st` |
| `TaggedArithmetic` | C ints of a given width, and the fast paths on them | `CCodeGenerator.st`, `SmallInteger.st` |
| `Numbers` | small and large integers, digit by digit | `SmallInteger.st`, `LargeInteger.st`, `Large*Integer.st` |
| `Selectors` | the sorted table of selectors | `libid.c` |
| `SortedItems`, `AVLTree` | abstract: a sorted sequence; detailed: the trees | `AVLTree.st` |
| `SlotMap`, `SlotDictionary` | abstract: a map; detailed: the arrays | `SlotDictionary.st` |
| `LinkSequences`, `LinkedList` | abstract: sequences without a link in two places; detailed: the pointers | `LinkedList.st`, `Link.st` |
| `Recognition`, `ParsingExpressions` | abstract: what a grammar means; detailed: the parser that walks it, with slots and actions | `ParsingExpression.st`, `Parser.st`, `Grammar.st`, `Stream.st` |

Three compositions: `MCActivation` runs `Profiler`, which extends `Activation`
and takes each of its steps together with what the profiler does at it.
`MCEncoder` joins the two halves of the encoder and `MCLibrary` the objects of
the libraries; their parts share no state in the code either, so a behaviour
takes steps of one of them (`part`, `subject`) while the others rest.

### 2.1 Dispatch

`chain[v]` is family `v` followed by its delegates, `<<>>` before it exists;
`methods[v][s]` is what it binds itself. A closure is named by the family and
selector whose association holds it, since a redefinition changes it in place:
an old cache line for it remains right. A cache line is empty, an entry, or an
entry `_libid_flush` has zeroed. `stack` holds the binds that have not answered;
`phase` says where each is: sending `lookup:`, inside the native or a user-level
lookup (before or after its `super lookup:`), sending or inside
`doesNotUnderstand:`. While user-level code runs, any definition, new family,
flush, bind or escape may happen. The binding of the message `lookup:` itself is
a bind too, guarded by `recursionGuard`. `Escape` is `_libid_nlreturn`: it
removes pending binds and restores no guard. `Deferred` says whether user-level
lookup code may still do something between the answer of `super lookup:` and its
own; with it, what the bind caches can be stale (finding 2).

`CopyEmpty` models the function library's `_vtable copyEmpty`, which installs
methods in a new family through `_methodAt:put:`.

### 2.2 Activation

`frames` is the C stack, each frame with the cookie `_libid_enter` returned, its
line and its `home`, the method activation its closure would return from.
`positions` and `position` are the C variables; `Junk` is memory `realloc` left
uninitialised. A home that has returned is 0 in the model: the code keeps a
dangling pointer, and using it (`DeadReturn`) is undefined behaviour, after which
the model says nothing. `escapedTo` does not exist in the code: it marks the
activations a non-local return answered to, for stating where a backtrace may be
wrong.

### 2.3 Linkage

`text` gives each file its top-level forms. The files of `Build` are compiled in
turn (`parsers` is the compiler's recursion through imports and includes,
`scanned` and `imports` its tables, `program` its nodes, kept in `made` for each
file), then the program's initialiser runs (`stack`, `started`). `bound[f][n]`
is the C variable `v_n` of file `f`; `globals` is `_object_Table`. A program may
also be rejected by the compiler or end in `fatal()` at an import that nothing
exported. `ImportsSuffice` and `ImportsLoad` speak of files that only import, and in no
circle (`Acyclic`): both are false without that (section 5).

### 2.4 ClosureScope

The method's text is not fixed: each step encodes one more construct, so all
methods up to `MaxScopes` scopes are explored. Which blocks are compiled in line,
and at what level, follows the code; so do the caching of encodings in every
scope passed on the way, `closeOver:`, the offsets in state vectors (`GivenPlace`; a
slot is looked for under `self`, its `Variable`) and the deferral of block bodies. When a method is done, the invariants walk the links
that `makeBlock:` and `genFreeState:` would emit and compare where they arrive
with where they should.

### 2.5 OrderedCollection and HashSet

`coll` and `array`/`tally` are the receivers' slots. `call` and `answer` hold the
last message and its answer, so that refinement compares what callers see.
Errors abort, as `error:` and `doesNotUnderstand:` do in this library. A `do:` is
not atomic: `visit` or `walk` is its progress, and any message may come between
two elements, as its block may send it. Comparing before and after needs some
history: `visit.seen`, `walk.due` and their like do not exist in the code.

HashSet has one model value for each class of equal objects, with a hash that
never changes. The loops of `grow` and `fixCollisionsFrom:` are recursive functions
of the number of slots passed, so the module has no RECURSIVE operator.

### 2.6 OpenCode

`method` is a sequence of parse nodes taken from `Methods`. `Nodes[n]` are the nodes
the parser makes whose parts are `n` levels deep at most: the one thing assumed of
`Methods` is that its nodes are in `Nodes[Levels]`, for some bound. `Compile`
translates a method whole, as encoding and generation are one deterministic pass:
the operators `Encode...` give each node its C variable (`count` and `max` are the
encoder's tempCount and tempMax, which a unit keeps and restores), choose the form of
each send, and queue the blocks whose bodies are still to come; the operators
`Gen...` emit the instructions. The code's recursion over the parse tree is along the
levels: an operator for a node gets, as `enc` or `gen`, the function for the nodes one
level below (`NodeEncoding`, `BlockEncoding`, `NodeCode`), so that it can be
reasoned about. `units` are the bodies of the method and of its blocks, `fault` the
internal errors raised. Then one unit is executed, an instruction a step: sends
are answered by anything (nil, a tagged integer or another object), and a send or
a loop test past the bounds cuts the execution off. `CodeAgrees`, in
`SourceMeaning`, evaluates the source of that unit, from the same variables and with the same answers, by a
definition of its own that knows nothing of variables and jumps.

### 2.7 TaggedArithmetic and Numbers

A C int is an integer between `-2^(Bits-1)` and `2^(Bits-1)-1`, and `Wrap` what is
left of a larger one. Signed overflow of `*` is undefined in C: the product may
wrap, and a compiler that optimises, as the makefiles ask for, may also take the
test for overflow (`_s / _r == _l`) for granted; `folded *` is the operation of
such a build. A `Fast` operator is the set of answers of a fast
path, empty where it is left to the method. `acc` is the number held by a
calculator, `last` the operation that answered it. The digit loops are written
out: carries and borrows, the estimate of a quotient's digit, its two corrections
and its undoing, the shifts across digits and `normalize`. A digit has two nibbles
of 2 bits (two of 4 in the code), a small integer 2 digits (4 in the code).
`AnswersExact` compares with arithmetic on Int. It leaves out, by name
(`Deviates`), the operands for which the code is known to answer something else
(section 5).

### 2.8 Streams

One stream, made on a given array or on an empty one that grows; `Blank` is
padding nobody wrote. The growth of an array depends on its class, and any from
`LeastGrowth` to `MostGrowth` times may happen. `sent` and `answered` hold the
last message and its answer for the comparison with `Tape`. What the code does
to a message that the stream does not understand, or to a place outside, is to
abort (`stopped`): in `WriteStream` also `peek` and `next`, which read through
`readLimit` without it having been brought up to date.

### 2.9 Profiler

Each action of `Activation` is taken together with `ProfileEnter` or
`ProfileLeave` when `hook` points to the profiler; `stage[i]` says of frame `i`
whether it was entered through the hook and whether it is
`printExecutionProfile`. A profile `<<u>>` and an edge `<<caller, u>>` are
`Charge`s, with the activations counted and the time. `cause` is the undefined
behaviour the code ran into, after which nothing more happens: an entry outside
the array or never written, a profile that was freed, an endless call of the hook
by itself. `Tick` is SIGALRM, between any two steps (a tick inside a hook changes
one counter that the hook reads once).

### 2.10 Selectors

A name is its rank in the order of `strcmp`. One step is one probe of the binary
search, then `Find` or `Make`; the search is not interrupted in the code, so
`Intern` starts only when none is under way. `id` tells apart two selectors that
were made for one name, which is what must not happen.

### 2.11 AVLTree, SlotDictionary, LinkedList

A node of an AVLTree is reached through one parent only, so a tree is a value.
`find:` and `remove:` send messages no class implements and end the program
(`unknown`), except `remove:` on an empty tree. `order` is the block that compares.
`balance` and the rotations send each other. The model writes the sends out to the
depth they reach, so that no operator is recursive: `RotateLeft` and `RotateRight`
take the next `balance` as a parameter, and `Deepest`, the third, would lose a tree
that it had to rotate, which no run finds and the proof excludes. `Trees` are the
trees of so many levels; `Insert` and what reads a tree are functions on them.

`slots` are both arrays of a SlotDictionary, `filled` its tally. nil may be a key
in a message; `nilSent` remembers that it was, as from then on the dictionary
does not act as a map (section 5).

`firstLink`, `lastLink`, `prevLink` and `nextLink` are the pointers of all lists
and links; `Chain` follows them from one end, which is what a list holds. The
links to add are in no list, which is the contract of the code:
it does not test it, and a link added twice makes a circle. The link to remove,
or to add beside, may be anywhere. `tour` is a `do:`, with the history that
`StayersGiven` needs.

### 2.12 Dictionary

`keys` is the array of a dictionary, each association shown by its key, and `of`
says which association that is; `HashSet`'s scans and relocations work on `keys`.
`contents` is the value of each association. `add:` and `addAll:` store the
association they are given, so a later `at:put:` to one dictionary may change
another: `SharedMaps` says exactly when. Associations in no dictionary are not
told apart (the program may keep one, but then nothing in a dictionary changes
with it); nor is an association that the program changes itself.
IdentityDictionary has the same code with `==` for `=`.

### 2.13 ParsingExpressions

An expression is a record, made by operators named for the messages that make it;
`Finalised` adds what `finaliseIn:` does, room for the slots that a rule stores
into while it is parsed (`PeSave`) or while its actions run (`PePush`, `PePop`).
`Parse` is `parse:`: it takes the parser from one state to another, with `ok` for
the answer, and nothing comes in between in the code. A step is one message,
`next` or `Grammar parse:`. An item is an atom or a list of items; a value is
written as the words it is made of, so that a value says which blocks computed
it from which slots. Blocks are names (`PeSetResult(f, slots, last)` reads those
slots, and the last result or not).

`Recognition` knows no stack: a rule has slots of its own, actions are kept with
the rule that noted them, and an alternative that fails changes nothing but that
the slots and the value it touched are `Unknown` until they are stored into
again; a value with an unknown word may be anything. `Regular` leaves out, by
name, the grammars for which the code is known to deviate, and `committed` the
values of all messages after the first that noted an action (section 5); where
the input is then, and whether it matched, is still compared. Every loop in the
grammars takes something on each round, as the code does not end otherwise.

## 3. Runs

| run | asks | instance | distinct states |
|---|---|---|---|
| `dispatch` | does any redefinition, override, new family, handler or escape leave a stale line or an unguarded lookup? does Dispatch implement MessageSend? | four families; two cache lines; two binds deep; user-level `lookup:` and `doesNotUnderstand:` with two of the families (`OneOrOther`) | 144 876 |
| `activation` | does every activation keep its record, with the profiler or without? who is charged? where can a backtrace be wrong? | three methods, one of them `printExecutionProfile`, a block, two lines; four activations; array of 2 grown to 4 and 8; two entries, grown; two sessions, one tick | 324 967 |
| `linkage` | do imports suffice, load, give one object, and end? | 55 296 programs: three forms, two libraries of two forms | 833 965 |
| `ordered_collection` | does it implement Deque, also while iterated over? | new: 0, 1, 2; arrays of up to 6 extended; indices 0..3; two objects | 744 923 |
| `encoder` | does every reference and return find its target? does the C do what the source says? | four scopes, one name, one slot, `self` and `stateful_self`; 2152 methods, ints of 4 bits, three sends and two tests of a loop | 3 906 172 |
| `library` | does each object of the libraries behave as what it stands for? | nine subjects, below | 187 241 |
| six more | each a finding, section 5 | | |

The subjects of `library`, of which a behaviour uses one:

| subject | instance | states |
|---|---|---|
| set | four colliding elements, sizes 0, 1, 2, 4 | 47 997 |
| number | 73 operands of up to 12 bits, ints of 8 bits, digits of 4; one operation of every kind on every pair | 61 028 |
| stream | arrays of up to 2 cells given, up to 4 grown; two items; moves from -2 to 3 | 26 229 |
| selectors | five names in any order, room for 2 | 6 909 |
| tree | up to five items with four keys, ascending and descending | 8 190 |
| slots | three keys and nil, two values, arrays of 2 and 4 | 3 030 |
| list | two lists, three links | 4 908 |
| dictionaries | two dictionaries, three keys that collide, two values, three associations | 8 074 |
| parser | 1 400 grammars of two rules; four characters, or two lists and a character; up to 12 actions noted | 20 876 |

Why these bounds are enough for the cases that matter:

* Dispatch: two lines already make keys collide and evict each other, and give
  `lookup:` a line that can be flushed on its own; four families give chains of
  three, with overriding above and below; two pending binds are one inside the
  lookup of the other, through the same or the other bind function. Deeper nests
  repeat these, and the theorems are for any depth. The constraint leaves out only
  user-level lookup in more than two families, which adds no step of another kind.
* Activation: four activations hold a method, a block, a nested method and the
  return past both; the array grows twice, once with junk in use. Two sessions of
  the profiler may be nested or follow each other, and a non-local return may
  leave one; two entries are outgrown by the third unit.
* Linkage: a circle needs two libraries, a diamond three files; three forms in
  the program let an import, an include and a use come in every order. Every
  form has several alternatives that conflict (both libraries define, export
  and import). An import that is lost in a circle needs a third library, which
  `linkage_import` has; the theorems are for any number.
* OrderedCollection: an array of 6 lets the elements be shifted, grown and reset
  at both ends; indices go one past the elements at both ends.
* Encoder: four scopes allow three nested blocks, or two siblings inside one,
  each in line or not, which is where a link can be skipped. The methods of
  OpenCode put every form that is opened out inside every other, in each of its
  parts, with blocks that return and blocks that do not; `Most + Most` leaves the
  tagged integers.
* Library: the hashes give every size of the set a chain around the end of the
  array. The operands of numbers are the ends of each representation and the
  digits at which an estimate of a quotient is corrected once or twice, or taken
  back. Five names make the table grow twice and insert at either end; five items
  need double rotations on both sides; three keys fill two places and grow the
  arrays; three links have a first, a middle and a last one; two
  dictionaries of three associations may share one, some or all, and grow. The
  grammars put eight parts (characters, words stored at once or later, structures,
  an action before what may fail) two by two into seven forms (a sequence, a
  choice, optional, repeated, and negated, in a choice or not), with five kinds of
  word, one of which contains words.

Deadlock is not checked anywhere, because each of these programs may stop: a
method's encoding ends, a program exits or aborts, a bound is reached.

*Fairness.* Only `Linkage` assumes any: `WF_vars(Next)`, as compiler and program
are sequential and nothing but themselves makes them stop, and only for `Stops`
(circles of imports hang neither). The other modules describe what an arbitrary
program may do next, so nothing has to happen in them.

## 4. Proofs

All theorems are checked by TLAPS for every value of the constants that satisfies
the module's named assumption; none of the bounds is used but as a number.

**`DispatchProofs`.** `Typing` and `LookupsGuarded`: a bind inside its lookup has
its guard above zero and is alone in it; stepping needs both facts together,
since a bind enters `lookup:` only where the guard is 0, and leaves by counting
down. `NoReentrance` and `GuardsHold` follow; they hold with escapes and
handlers, and whatever `Deferred` is. `Coherence` and `Refinement` assume
`~Deferred`: the inductive invariant adds `RefersToLive` (chains and pending
binds mention only families that exist, so that creating one changes no answer),
`ConsultedCurrent` (what a user-level lookup was answered is still what would be
found) and `CacheCoherent`. The heart is `CoherentKept` with `FlushedDrops`: a
definition of a selector can change only answers for that selector, and the
selective flush leaves no line with it. That assumption is necessary:
`dispatch_deferred` is the counterexample without it.

**`ActivationProofs`.** `Typing`, `Homes`, `Records`, `StaleRecords`. The
conjunction is inductive as it stands: the type invariant alone is not (it says
that every record in use has been written), since `Return` needs cookies below
`position`. The cookies rise with the stack, so cutting `position` back to one
keeps all the records below it, whatever lay above.

**`ProfilerProofs`.** `Undisturbed`: what the profiler adds to a step is seen by
no variable of `Activation`, so a program under the profiler behaves as one
without it, and everything proved of `Activation` carries over (`ProfiledRecords`
is one of these). `OwnEntries` and `RightCallers`: each activation that entered
through the hooks finds the profile of its own unit at the index `position`
gives, and the edge charged is that of its caller, unless a non-local return has
answered to it. They add to the invariant of `ActivationProofs`, for as long as
behaviour is defined, that there is a stage for each frame; the entries stay
apart because the cookies they are numbered by do. `TimeChargedOnce`: the total of
a unit or edge never exceeds the time that has passed. That is not inductive, as a
leave adds a whole interval; `TimeSound` says that what has been charged to a
profile was spent before the first activation it counts was entered, so that the
time added last, when the count comes down to one, is disjoint from it. The count
is an upper bound of the running activations only (a non-local return leaves it too
high), which is why time may be lost but not charged twice. `FirstSessionSound`:
`Bare` says that an activation older than the hooks has no entry, and `Sessions`
relates hooks, entries and open sessions, so that the first one never leaves
through an entry that nobody made.

**`LinkageProofs`.** `LinkageTyping` is inductive. `ImportsFound` and
`LibrariesLoaded` are about files that only import, in no circle (`LinkInv`): every
node the compiler leaves to another file comes after a direct import of its own
from which that file is reached (`Through`, kept in `CompiledSoundly`), and while the
program runs the libraries whose initialisers have returned are closed under
imports (`CompletedClosed`). Without a circle no file on the stack of initialisers
is reached from an import still to come, so the call of a library that has been
started finds it completed. `ObjectShared` holds for any sources, circles and
repeated calls included: the only definer has one node that makes the object
(`OneMaker`), and once it has been exported the definer has passed that node and
does not run again (`SoleGlobal`). It needs that only an input makes another file's
text the file's own (`InputsOnly`).

**`EncoderProofs`**, of ClosureScope. `VariablesReachable`, `VectorsFit`, `ReturnsHome` and
`BlocksEncoded` state the four invariants, which speak of the end of a method. The
inductive `CInv` says what holds on the way: blocks wait only in the scopes around
the current one (`Waiting`); the places of a vector are 1 to its last, each given
once, and `stateful_self` has one whenever `self` has (`Vectors`); for a reference
across levels, every scope up to the owner's imports (`Encoded`); a scope around
one that returns non-locally is marked too (`Returning`). `Least` and `NestInduction`
are induction over scopes, each of which has a smaller number around it; the
functions that walk the links (`Enclosing`, `StateReached`, `NlrLink`) are shown to
have a solution by giving one, from which their equations follow.

**`EncoderProofs`**, of OpenCode. `MethodsCompile` and `MethodsTranslate` state the
invariants about the code, for methods of any length whose sends, blocks and cascades
are inside one another to any depth (`Levels`), with any names. They follow from
`MethodsSound`: the invariant `CodeSound` says that no error was raised and that
every unit is `Linked`, that is one piece of code with all its labels; only `Compile`
changes what it speaks of. Translating is one step, so the work is in what the
recursive functions answer.
The equations of `Nodes`, `NodeEncoding`, `BlockEncoding` and `NodeCode` come first:
each is shown to be defined by giving the function up to a level and going on one
level more. Then the code: a `Piece` has each of the labels `L` in exactly one place,
jumps to those of `J`, and uses the first `m` C variables; pieces whose labels are
disjoint make a piece. The code of a node is `Tidy`: its labels are those given out
while it was generated, whatever number it began with. Each form is put together from
such pieces, by one lemma per form. Then the encoding: `Result` says that encoding a
node puts its value in the next variable (`loc` is one more than `count` was, which
is now `count`), declares at least that many, raises no error, and makes a node whose
code is tidy however many more variables its unit declares. It is shown of the nodes
of a level from those below, with one lemma per form; for the sends that are opened
out `Stage` is what holds between two steps of `Order`, which is where the variables
of the parts are seen to be the send's own. The depth after a block compiled in line
is the depth before it and one more, whatever is in the block, as the same holds of
each statement. The blocks that wait to be translated are of fewer levels than the
node they were met in (`Held`), so that the bodies of blocks inside blocks end, and a
unit's blocks leave the variables of the unit alone (`Translating`). The labels of the
units are numbered on (`Emits`), so none is given out again.

**`CollectionProofs`.** `Typing`, `AppendingBody`, and `Refinement`:
OrderedCollection implements Deque. Each operation has a lemma about arrays (what
`MakeRoomAtFirst`, `Moved`, `Stored` and the copy do to the sequence of elements)
and one for the step; the invariant adds what an unfinished `do:` relies on
(`VisitOK`). `CopyOf`, the result of repeated additions in `copyFrom:to:`, is a
closed form: TLC compares it with the repetition for lengths up to 12
(`CopyByAdding` in the MC module), the proof takes it from there.
`TreesSound`, `TreesNearlyBalanced` and `TreesSorted` are of the trees, for any
integer keys, each of the three orders and any number of items. `TreeInduction` is
induction over trees, along their levels (`Least`, `Upward`); `Folding` shows, by
giving it, that a function defined by the parts of a node exists, from which
`InOrder`, `Depth`, `Subtrees` and `Insert` have their equations. A tree is `Sound`
if each node is a leaf that was never balanced or records one more than the higher
of its parts, which differ by one at most. An addition makes a part higher by one
at most, so `balance` meets a difference of two; the lemmas `Turned...` say node by
node what one rotation or two then make of it, and `BalanceSound` that this is sound,
of the height before or one more, with the same items in the same order. That is
what must be carried through the insertion together with the place the item gets
(`InsertSound`, `FitsAt`): after all that come before it or, by `<=`, before all
that do not. `DepthsClose` then derives the bound on the true depths, which is not
inductive itself: it does not say what a node records, and the rotations go by that.

**`HashSetProofs`.** `SetTyped`, `ScansAlwaysArrive`, `WalksGiveOnce`, and
`SetImplements`: a HashSet implements UnequalElements, for any hash and arrays of
any length. Slots are compared by how far they are from one another, going round
the end of the array (`Gap`). A scan reaches an element because no slot nearer to
its hash is empty (`Orderly`), and it ends because one slot is; `fullCheck` keeps
one since fewer elements than slots leave a slot free (`Counted`). While
`fixCollisionsFrom:` runs the array is not orderly: `Mending` says that only
elements it has still to come to may have an empty slot on their way, and only one
it has passed. `Crosses` is the geometry of it: what lies after the next empty slot
cannot have the emptied one on its way, or that empty one would be too. `Recursion`
gives the recursive functions of the loops their equations. A `do:` is sound
(`Sound`) because an element is only ever put into a slot that was empty, and
growing leaves it the old array.
`DictionariesTyped` and `DictionariesShare` are of dictionaries, for any number of
them: each keeps its keys as a set keeps its elements (`Kept`), and they implement
`SharedMaps`. What `addAll:` needs is that an association has one key in whatever
dictionaries it is (`OneKey`): the values it writes on its way are never those it
has still to read. `Included` is the invariant of its loop, which gives each key of
the array so far the value it had in the argument at the start. The assumption that
nil is no value only lets nil mark, in the model, an association that no dictionary
has.

**`LibraryProofs`.** `StreamsTyped`, and `StreamsRefine`: streams implement `Tape`.
The type invariant, which orders position, limits and length, is inductive; the
refinement maps the cells up to the limit to the items of the tape, and needs of
the growth of an array only that it makes room for one more.
`TableTyped` and `NamesUnique` are of the table of selectors. The
invariant adds that the table is sorted, and that the search is sound at every
probe: all names before its lower bound are smaller, all from its upper bound on
are greater. When the bounds meet, the name is nowhere, and its place keeps the
table sorted. `SlotsTyped` and `Acting`: a SlotDictionary acts as a map as long as
nil is no key. The invariant (`Keyed`) says that the filled places have keys of
their own and that the others are nil: the search looks at two places that may not
be filled, and only that makes it miss them. For each change of the arrays one
lemma says what it does to the function they stand for.
`ListsTyped`, `ToursGiveStayers` and `ListsAreSequences` are of linked lists, from
the assumption that the links are finitely many. The invariant (`LInv`) is that
there are sequences, no link in two places, whose first, last, previous and next
links are those the pointers give (`Reads`); `ReadsAs` shows that following the
pointers then answers those sequences, by counting along the numbers up to that of
the links. `Entering` and `Leaving` are the two changes the messages make, in
whichever list the neighbour or the link to remove happens to be. During a `do:`
(`Touring`) the links given, of those that stayed, are the ones up to the current
link, in the list where that is.
`SumsExact`, `ProductsExact` and `QuotientsExact` are of the fast paths, for ints of
any width: the answer is that of the operation if it is a tagged integer, and there
is none otherwise. The only assumption used is that a quarter of the range of an int
is a positive number. A word passes the test of the two top bits exactly if it is a
tagged integer (`FitsTag`); a product that overflows differs from its word by whole
ranges of an int, which no remainder of the division back can be (`NoMultiple`). The
shifts need laws of powers of 2, and the words of `bitAnd:` and the like sums over
sets of bits, neither of which the prover knows: TLC checks them in `AnswersExact`.

*Model-checked only.* Liveness (`Stops`), as ENABLED is out of the prover's reach.
Numbers, SourceMeaning and ParsingExpressions declare RECURSIVE operators, which the
prover does not take: `AnswersExact`, `CodeAgrees` and the refinement of the parser
stay with TLC. Where a recursion is along numbers or the levels of a tree it can be a
function instead, and induction is possible (`Least`, over a set given as a
parameter), as in the modules above; theirs is over powers of 2, over expressions that
refer to one another in circles, and over loops that may not end.
`LibraryTypeOK` is the conjunction of the types of all subjects, some of them among
those above, in a module that reaches both Numbers and ParsingExpressions; those of
sets, streams, selectors, slots, lists and dictionaries are proved, each of its own
specification.

## 5. Findings

Six runs show a disagreement of the code with its documentation.

1. `dispatch_escape`: a non-local return out of a user-level `lookup:` leaves
   `recursionGuard` set; from then on a miss does not send `lookup:`
   (`doc/pepsi.html.in:974`).
2. `dispatch_deferred`: user-level `lookup:` code that defines the method after
   its `super lookup:` makes the bind cache the older answer
   (`doc/pepsi.html.in:1131`).
3. `ordered_queue`: `makeRoomAtLast` sends `resetToBeginning`, the method is
   called `resetToBegining`: a queue that runs empty with its last slot used
   aborts at the next `add:` (`OrderedCollection.st:116`). The model therefore
   lets an addition to an empty collection abort, and so does `Deque`.
4. `closure_return`: a returning block inside a block that uses nothing from
   outside makes the generated C name an undeclared `_nlr`
   (`doc/pepsi.html.in:664`). `NonLocalReturnsHome` is stated for the methods
   that the C compiler accepts.
5. `linkage_import`: when two libraries import each other and then a third, each
   is compiled as if the other loaded the third; a program that imports either
   never loads it (`Compiler.st:121`, against `doc/pepsi.html.in:1323-1326`).
6. `divide`: `//` of large integers tests an exact quotient with `~=`, which for
   them is identity, and answers one less than a negative quotient
   (`LargeInteger.st:155`, against `Number.st:25-28`); `\\` with it.

Met on the way and not behind a run (the models do what the code does, and the
properties name the cases they leave out):

* Integers (`Deviates` in `Numbers`): `bitXor:` of a negative small and a large
  positive integer answers their `bitOr:` (`SmallInteger.st:183`); an answer of
  the bitwise operations that is `-(256^n)` loses its last digit, as the carry of
  the complement has no place; a negative large integer shifted right sends
  `anyBitOfMagnitudeFrom:to:`, which nothing implements (`LargeInteger.st:362`);
  a negative small integer shifted right by 32 or more answers 0; the method
  `bitShift:` shifts by a negative count (`SmallInteger.st:196`; compiled code
  opens the send out and does not come there); `quo:` divides before its test for
  zero (`SmallInteger.st:147`), and the errors of division are sent by names that
  nothing implements; the test for overflow of `*` may be optimised away
  (`CCodeGenerator.st:882`).
* Compiled code: `and:` and `or:` that are opened out answer the receiver where
  the method answers `true` (`Object.st:337-341`).
* Collections: `Set` and `Dictionary` have no `species`, so inherited operations
  that make a like collection abort, and `rehash` sends `newSelf array`, which
  nothing implements. `AVLTree` sends selectors no class implements in `find:`
  and `remove:`; the true depths of siblings may differ by 2. `peek` and `next` of
  a `WriteStream` abort. A `SlotDictionary` finds nil in a place that is not
  filled, so that `at: nil put:` stores a slot the tally does not count. A `do:`
  of a `LinkedList` whose block removes the link it was given ends early, as that
  link no longer leads on.
* Parser of jolt2: a structure that fails keeps the item it took, and reads on
  behind it when it is in a choice or negated (`ParsingExpression.st:92`); a text
  kept for an action inside a structure is copied from the outer input
  (`ParsingExpression.st:175`, `186`); actions are never cleared, so every later
  `next` runs them again, and with them those noted by a `Grammar parse:`
  (`Parser.st:97`, `main.st:64`); `PeAction` does not pass on `resolveIn:`
  (`Grammar.st:82`, `101`), so `<=` with an expression is never compiled; `save` of
  a rule is never set (`Grammar.st:75`), so a rule that is finalised twice has its
  frame twice, which does no harm.
* Profiler: the guards of enable and disable test the wrong pointer
  (`_profile.c:238`, `252`): the hooks are never taken out, and a second
  `printExecutionProfile` makes them call themselves; profiles are freed and stay
  in their methods' information; `decreasingProfileTimes`
  compares an entry with itself (`_profile.c:262-263`).
* Linkage: an import that follows an include of a file that imports the same
  library is dropped as well; hence `OnlyImports`.
* Dispatch: `_libid_bind2` reads a cache line without testing that there is one.

## 6. Not modelled

Text in and out (scanner, parser, C text, printing), fractions and floats, the
collector and what depends on it, the machine-code generators, and examples, for
the reasons in the table. The larger part of the repository's C is generated: the
files of `object/boot/src` are what `idc` made of the sources that are modelled
here; the collector and the mathematical library are third-party. Within the
modelled parts: the search for files and `{ external }` / `{ internal }` in
Linkage, argument counts and variadic methods, the text of backtraces, the
SIGHUP handler that prints one between any two instructions, and the counts of
calls and samples in profiles. `_libid_bind` allocates a cache entry on each miss
(without a collector it is never freed); memory never runs out in the models.

## 7. Plan

1. **bind2 in Dispatch**: a third bind function along fragments of an object,
   with the missing test as an undefined outcome; `RefersToLive` and
   `CacheCoherent` extended to it.
2. **The symbol table** (`Symbol intern:`) over HashSet's probing, and elements
   whose hash changes while they are in a set.
3. **Fractions and floats** over Numbers: coercion and normal form.
4. Proofs: the recognition of ParsingExpressions, and that the code of OpenCode does
   what SourceMeaning says: the meaning of a node would have to be a function of the
   levels too, with the loops cut at a number of tests, and each form's code shown to
   reach its end in a state that has it.
