----------------------------- MODULE Activation -----------------------------
(***************************************************************************)
(* Activations of compiled code: how methods and blocks enter and leave    *)
(* the position stack of src/object/id/libid.c (_libid_enter, _libid_line, *)
(* _libid_leave), which _libid_backtrace prints, and how a block returns   *)
(* from the method it was created in (_libid_nlreturn), by longjmp past    *)
(* the _leave() of every activation between.  The code that calls these    *)
(* functions is the one CCodeGenerator emits for a program compiled with   *)
(* debugging information.                                                  *)
(***************************************************************************)
EXTENDS Naturals, Sequences

CONSTANTS Method,      \* methods, and ...
          Block,       \* ... literal blocks, each with a method info
          Line,        \* line numbers
          Start,       \* Start[u]: the line unit u starts at
          Junk,        \* what memory fresh from malloc or realloc holds
          FirstSize,   \* records in the first array (128 in the code)
          MaxDepth,    \* bound: activations on the C stack
          MaxPosition  \* bound: records in use

Unit == Method \cup Block

ASSUME ActivationAssumption ==
  /\ Method # {} /\ Method \cap Block = {}
  /\ Start \in [Unit -> Line]
  /\ Junk \notin [info : Unit, line : Line]
  /\ FirstSize \in Nat \ {0}
  /\ MaxDepth \in Nat /\ MaxPosition \in Nat

VARIABLES frames,      \* the activations on the C stack, innermost last
          closures,    \* blocks the program holds on to
          positions,   \* the array of records, as long as it is allocated
          position,    \* how many of them are in use
          halted       \* the program has jumped to an activation that is gone

vars == <<frames, closures, positions, position, halted>>

Record == [info : Unit, line : Line]

(***************************************************************************)
(* An activation: the unit it runs, the activation of the method whose     *)
(* jump buffer its closure holds (itself, for a method) as a place in      *)
(* frames, the cookie _libid_enter gave it, the line it has reached, and   *)
(* whether a non-local return has ever answered to it.                     *)
(***************************************************************************)
Frame == [unit : Unit, home : Nat, cookie : Nat, line : Line, escapedTo : BOOLEAN]
Activated(u, h, c, n, e) ==
  [unit |-> u, home |-> h, cookie |-> c, line |-> n, escapedTo |-> e]

\* f at line n; f once a non-local return has answered to it.
At(f, n) == Activated(f.unit, f.home, f.cookie, n, f.escapedTo)
EscapedTo(f) == Activated(f.unit, f.home, f.cookie, f.line, TRUE)

\* A block and its home; 0 once the home has returned.
Closure == [block : Block, home : Nat]
Held(b, h) == [block |-> b, home |-> h]

Top == frames[Len(frames)]
Below(s) == SubSeq(s, 1, Len(s) - 1)

\* The closures after the activations from place n up are gone.
Orphaned(n) == {Held(c.block, IF c.home >= n THEN 0 ELSE c.home) : c \in closures}
-----------------------------------------------------------------------------
(* The position stack.                                                     *)

\* realloc to twice the records, or malloc of the first ones.
Grown(p) ==
  [i \in 1..(IF p = <<>> THEN FirstSize ELSE 2 * Len(p)) |->
     IF i <= Len(p) THEN p[i] ELSE Junk]

RoomForLate(p) == IF position > Len(p) THEN Grown(p) ELSE p
RoomFor(p) == IF position >= Len(p) THEN Grown(p) ELSE p

Noted(u, n) == [info |-> u, line |-> n]

\* _libid_line(n): rewrites the line of the topmost record.
Lined(p, n) ==
  [i \in DOMAIN p |-> IF i = position THEN Noted(p[i].info, n) ELSE p[i]]

(***************************************************************************)
(* What a send at line n executes before the callee's first statement:     *)
(* _libid_line(n) in the caller, _libid_enter(info) and _libid_line of its *)
(* own line in the callee.                                                 *)
(***************************************************************************)
Enter(u, h, n) ==
  LET room == RoomFor(Lined(positions, n))
  IN /\ Len(frames) < MaxDepth /\ position < MaxPosition
     /\ frames' = Append(Append(Below(frames), At(Top, n)),
                         Activated(u, h, position, Start[u], FALSE))
     /\ positions' = [i \in DOMAIN room |->
                        IF i = position + 1 THEN Noted(u, Start[u]) ELSE room[i]]
     /\ position' = position + 1

\* _libid_leave(cookie): back to what it was before the matching enter.
LeaveOne == position' = position - 1
LeaveCaller == position' = IF Top.cookie = 0 THEN 0 ELSE Top.cookie - 1
Leave == position' = Top.cookie

-----------------------------------------------------------------------------
Init ==
  /\ \E m \in Method :
       /\ frames = << Activated(m, 1, 0, Start[m], FALSE) >>
       /\ positions = [i \in 1..FirstSize |-> IF i = 1 THEN Noted(m, Start[m]) ELSE Junk]
  /\ closures = {}
  /\ position = 1
  /\ halted = FALSE

Running == ~halted /\ frames # <<>>

\* A message send at line n, answered by a compiled method.
Call(m, n) ==
  /\ Running
  /\ Enter(m, Len(frames) + 1, n)
  /\ UNCHANGED <<closures, halted>>

\* A 'value' sent at line n to a closure; its C function enters too.
Evaluate(c, n) ==
  /\ Running
  /\ Enter(c.block, c.home, n)
  /\ UNCHANGED <<closures, halted>>

CloseHere(b) ==
  /\ Running
  /\ closures' = closures \cup {Held(b, Len(frames))}
  /\ UNCHANGED <<frames, positions, position, halted>>

\* A block literal is evaluated: its closure inherits the home.
Close(b) ==
  /\ Running
  /\ closures' = closures \cup {Held(b, Top.home)}
  /\ UNCHANGED <<frames, positions, position, halted>>

\* ReturnNode>>generate: _leave(); return.
Return ==
  /\ Running
  /\ Leave
  /\ frames' = Below(frames)
  /\ closures' = Orphaned(Len(frames))
  /\ UNCHANGED <<positions, halted>>

(***************************************************************************)
(* _leave(); return _libid->nlreturn(v__self->v__nlr, ...): control        *)
(* reappears in the setjmp of the home, which returns to its caller at     *)
(* once without a _leave() of its own.                                     *)
(***************************************************************************)
NonLocalReturn ==
  /\ Running
  /\ Top.unit \in Block /\ Top.home > 0
  /\ Leave
  /\ LET h == Top.home
     IN /\ frames' = [i \in 1..(h - 1) |->
                        IF i = h - 1 THEN EscapedTo(frames[i]) ELSE frames[i]]
        /\ closures' = Orphaned(h)
  /\ UNCHANGED <<positions, halted>>

\* The home has returned: longjmp through a buffer that is gone.  What
\* follows is undefined; nothing is said of the program after it.
DeadReturn ==
  /\ Running
  /\ Top.unit \in Block /\ Top.home = 0
  /\ halted' = TRUE
  /\ Leave
  /\ UNCHANGED <<frames, closures, positions>>

Next ==
  \/ \E m \in Method, n \in Line : Call(m, n)
  \/ \E c \in closures, n \in Line : Evaluate(c, n)
  \/ \E b \in Block : Close(b)
  \/ Return
  \/ NonLocalReturn
  \/ DeadReturn

Spec == Init /\ [][Next]_vars
-----------------------------------------------------------------------------
TypeOK ==
  /\ frames \in Seq(Frame)
  /\ closures \subseteq Closure
  /\ positions \in Seq(Record \cup {Junk})
  /\ position \in 0..Len(positions)
  /\ halted \in BOOLEAN
  /\ \A i \in 1..position : positions[i] # Junk

(***************************************************************************)
(* Every home recorded in an activation or a closure is a live activation  *)
(* of a method (or 0): a non-local return never lands in another block or  *)
(* beyond the top of the stack, whatever returned, normally or not, since  *)
(* the closure was made.                                                   *)
(***************************************************************************)
LiveHome(h, n) == h = 0 \/ (h \in 1..n /\ frames[h].unit \in Method)
HomesLive ==
  /\ \A i \in 1..Len(frames) :
       /\ LiveHome(frames[i].home, i)
       /\ frames[i].unit \in Method => frames[i].home = i
  /\ \A c \in closures : LiveHome(c.home, Len(frames))

(***************************************************************************)
(* Whatever was skipped by non-local returns, the record an activation     *)
(* made on entry is still in the stack, still names it, and lies above its *)
(* caller's: a backtrace shows every activation, in order.                 *)
(***************************************************************************)
RecordsIntact ==
  ~halted => \A i \in 1..Len(frames) :
               /\ frames[i].cookie < position
               /\ \A j \in (i + 1)..Len(frames) : frames[i].cookie < frames[j].cookie
               /\ positions[frames[i].cookie + 1].info = frames[i].unit

(***************************************************************************)
(* A backtrace is wrong only about an activation that a non-local return   *)
(* has answered to, and only until that one returns: above its record may  *)
(* stand records of activations that are gone, its own line may be old.    *)
(* Any other has its next line and its callee's record right: the absolute *)
(* cookie of _libid_leave heals what a missing _leave() left.              *)
(***************************************************************************)
Following(i) == IF i = Len(frames) THEN position ELSE frames[i + 1].cookie

StaleRecordsConfined ==
  ~halted => \A i \in 1..Len(frames) :
               ~frames[i].escapedTo =>
                 /\ Following(i) = frames[i].cookie + 1
                 /\ positions[frames[i].cookie + 1].line = frames[i].line

=============================================================================
