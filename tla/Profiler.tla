------------------------------ MODULE Profiler ------------------------------
(***************************************************************************)
(* The profiler of src/function/objects (_profile.c, BlockClosure.st):     *)
(* printExecutionProfile puts functions of its own in the place of         *)
(* _libid_enter and _libid_leave, evaluates its receiver, and prints and   *)
(* frees what they noted.  Activations that were entered before it, and    *)
(* non-local returns that leave without _leave(), both cross it.           *)
(*                                                                         *)
(* A profile belongs to a method or block, an edge to a caller and callee; *)
(* of their figures the time spent is modelled, the numbers of calls and   *)
(* of samples are not.  Where the code runs into undefined behaviour the   *)
(* behaviour ends, with the cause noted.                                   *)
(***************************************************************************)
EXTENDS Activation

CONSTANTS Profiling,    \* the method printExecutionProfile
          FirstEntries, \* records in the first array of entries (128 in the code)
          MaxTime,      \* bound: ticks of the timer
          MaxSessions,  \* bound: times profiling is enabled
          MaxActive     \* bound: activations counted for a profile or edge

ASSUME ProfilerAssumption ==
    /\ Profiling \in Method
    /\ FirstEntries \in Nat \ {0}
    /\ MaxTime \in Nat /\ MaxSessions \in Nat /\ MaxActive \in Nat

VARIABLES hook,      \* what _libid->enter and leave point to: "libid" or "profiler"
          kept,      \* what enter and leave hold: "none" or one of these
          profiles,  \* the units in the list of profiles
          stale,     \* the units whose meta points to a profile that is freed
          entries,   \* the array of entries, as long as it is allocated
          active,    \* active[c]: activations of profile or edge c, as far as counted
          total,     \* total[c]: the time spent in them
          time,      \* currentTime
          ticking,   \* the timer is set
          stage,     \* stage[i]: what frames[i] is to the profiler
          sessions,  \* how often profiling was enabled, and ...
          deep,      \* ... how many records there were the first time
          cause      \* the undefined behaviour met, "none" as yet

profilerVars == <<hook, kept, profiles, stale, entries, active, total, time, ticking,
                  stage, sessions, deep, cause>>

\* What time is charged to: a profile <<u>> or an edge <<caller, u>>.
Charge == {<<u>> : u \in Unit} \cup (Unit \X Unit)

\* hooked: entered through profileEnter; session: of printExecutionProfile.
Stage == [hooked : BOOLEAN, session : {"none", "open", "done"}]
Staged(h, s) == [hooked |-> h, session |-> s]

Entry == [time : Nat, charged : SUBSET Charge]
ASSUME EntryAssumption == Junk \notin Entry

ProfilerInit ==
    /\ hook = "libid" /\ kept = "none"
    /\ profiles = {} /\ stale = {} /\ entries = <<>>
    /\ active = [c \in Charge |-> 0] /\ total = [c \in Charge |-> 0]
    /\ time = 0 /\ ticking = FALSE
    /\ stage = <<Staged(FALSE, "none")>>
    /\ sessions = 0 /\ deep = 0 /\ cause = "none"

Stops(why) ==
    /\ cause' = why
    /\ UNCHANGED <<hook, kept, profiles, stale, entries, active, total, time, ticking,
                   stage, sessions, deep>>

-----------------------------------------------------------------------------
(* profileEnter, once _libid_enter has made the record of u.               *)

\* Mutant: the array grows one entry late.
RoomLate(size) == IF position > size THEN (IF size = 0 THEN FirstEntries ELSE 2 * size) ELSE size
Room(size) == IF position >= size THEN (IF size = 0 THEN FirstEntries ELSE 2 * size) ELSE size

\* Mutant: malloc for realloc.
EnlargedAnew ==
    [i \in 1 .. Room(Len(entries)) |->
        IF Room(Len(entries)) = Len(entries) THEN entries[i] ELSE Junk]
Enlarged ==
    [i \in 1 .. Room(Len(entries)) |-> IF i <= Len(entries) THEN entries[i] ELSE Junk]

\* _libid->methodAt(1), with the new record in place; mutant: before it is.
CallersBefore == IF position > 1 THEN {positions'[position - 1].info} ELSE {}
Callers == IF position > 0 THEN {positions'[position].info} ELSE {}

Charges(u) == {<<u>>} \cup {<<c, u>> : c \in Callers \cap profiles}

ProfileEnter(u) ==
    IF ({u} \cup Callers) \cap stale # {} THEN Stops("freed")
    ELSE IF position >= Room(Len(entries)) THEN Stops("array")
    ELSE /\ \A c \in Charges(u) : active[c] < MaxActive
         /\ profiles' = profiles \cup {u}
         /\ entries' = [Enlarged EXCEPT ![position + 1] = [time |-> time, charged |-> Charges(u)]]
         /\ active' = [c \in Charge |-> active[c] + (IF c \in Charges(u) THEN 1 ELSE 0)]
         /\ stage' = Append(stage, Staged(TRUE, "none"))
         /\ UNCHANGED <<hook, kept, stale, total, time, ticking, sessions, deep, cause>>

PlainEnter ==
    /\ stage' = Append(stage, Staged(FALSE, "none"))
    /\ UNCHANGED <<hook, kept, profiles, stale, entries, active, total, time, ticking,
                   sessions, deep, cause>>

\* While printExecutionProfile runs it only evaluates its receiver.
Busy == cause = "none" /\ (Top.unit = Profiling => stage[Len(stage)].session = "open")

Entering(u, A) ==
    /\ Running /\ Busy
    /\ \/ hook = "libid" /\ A /\ PlainEnter
       \/ hook = "profiler" /\ kept = "libid" /\ A /\ ProfileEnter(u)
       \/ hook = "profiler" /\ kept # "libid" /\ UNCHANGED vars /\ Stops("hooks")

ProfiledCall(m, n) == Entering(m, Call(m, n))
ProfiledEvaluate(c, n) == Entering(c.block, Evaluate(c, n))

-----------------------------------------------------------------------------
(* profileLeave, before _libid_leave.                                      *)

SpentNested(e, c) == time - e.time   \* mutant
Spent(e, c) == IF time > e.time /\ active[c] = 1 THEN time - e.time ELSE 0

Discharge(e) ==
    /\ total' = [c \in Charge |-> total[c] + (IF c \in e.charged THEN Spent(e, c) ELSE 0)]
    /\ active' = [c \in Charge |-> active[c] - (IF c \in e.charged THEN 1 ELSE 0)]

\* The entry of an activation that never made one is what malloc left there:
\* nothing, when that is zero.
ProfileLeave ==
    LET c == Top.cookie + 1
    IN  IF c \notin DOMAIN entries THEN Stops("unentered")
        ELSE IF entries[c] = Junk
        THEN \/ Stops("unentered")
             \/ /\ stage' = SubSeq(stage, 1, Len(frames'))
                /\ UNCHANGED <<hook, kept, profiles, stale, entries, active, total, time,
                               ticking, sessions, deep, cause>>
        ELSE IF \E u \in stale : <<u>> \in entries[c].charged THEN Stops("freed")
        ELSE /\ Discharge(entries[c])
             /\ stage' = SubSeq(stage, 1, Len(frames'))
             /\ UNCHANGED <<hook, kept, profiles, stale, entries, time, ticking, sessions,
                            deep, cause>>

PlainLeave ==
    /\ stage' = SubSeq(stage, 1, Len(frames'))
    /\ UNCHANGED <<hook, kept, profiles, stale, entries, active, total, time, ticking,
                   sessions, deep, cause>>

Leaving(A) ==
    /\ Running /\ cause = "none"
    /\ \/ hook = "libid" /\ A /\ PlainLeave
       \/ hook = "profiler" /\ kept = "libid" /\ A /\ ProfileLeave
       \/ hook = "profiler" /\ kept # "libid" /\ UNCHANGED vars /\ Stops("hooks")

ProfiledReturn ==
    /\ Running /\ (Top.unit = Profiling => stage[Len(stage)].session = "done")
    /\ Leaving(Return)
ProfiledNonLocalReturn == Leaving(NonLocalReturn)
ProfiledDeadReturn == cause = "none" /\ DeadReturn /\ UNCHANGED profilerVars

ProfiledClose(b) ==
    Running /\ cause = "none" /\ Top.unit # Profiling /\ Close(b) /\ UNCHANGED profilerVars

-----------------------------------------------------------------------------
(* printExecutionProfile.                                                  *)

AtStage(s) ==
    Running /\ cause = "none" /\ Top.unit = Profiling /\ stage[Len(stage)].session = s
ToStage(s) == stage' = [stage EXCEPT ![Len(stage)].session = s]

\* enableExecutionProfile
EnableProfile ==
    /\ AtStage("none") /\ sessions < MaxSessions
    /\ IF kept # "profiler" THEN kept' = hook /\ hook' = "profiler" ELSE UNCHANGED <<hook, kept>>
    /\ profiles' = profiles \cup ({Top.unit} \ stale)
    /\ ticking' = TRUE
    /\ sessions' = sessions + 1
    /\ deep' = IF sessions = 0 THEN position ELSE deep
    /\ ToStage("open")
    /\ UNCHANGED <<vars, stale, entries, active, total, time, cause>>

\* disableExecutionProfile, printExecutionProfile and clearExecutionProfile
DisableProfile ==
    /\ AtStage("open")
    /\ IF kept = "profiler" THEN hook' = kept /\ kept' = "none" ELSE UNCHANGED <<hook, kept>>
    /\ profiles' = {} /\ stale' = stale \cup profiles
    /\ ticking' = FALSE
    /\ ToStage("done")
    /\ UNCHANGED <<vars, entries, active, total, time, sessions, deep, cause>>

\* SIGALRM
Tick ==
    /\ cause = "none" /\ ticking /\ time < MaxTime
    /\ time' = time + 1
    /\ UNCHANGED <<vars, hook, kept, profiles, stale, entries, active, total, ticking,
                   stage, sessions, deep, cause>>

ProfilerNext ==
    \/ \E m \in Method, n \in Line : ProfiledCall(m, n)
    \/ \E c \in closures, n \in Line : ProfiledEvaluate(c, n)
    \/ \E b \in Block : ProfiledClose(b)
    \/ ProfiledReturn \/ ProfiledNonLocalReturn \/ ProfiledDeadReturn
    \/ EnableProfile \/ DisableProfile \/ Tick

ProfiledInit == Init /\ ProfilerInit

ProfilerSpec == ProfiledInit /\ [][ProfilerNext]_<<vars, profilerVars>>

-----------------------------------------------------------------------------
Defined == cause = "none" /\ ~halted
Hooked == {i \in DOMAIN frames : stage[i].hooked}
EntryOf(i) == entries[frames[i].cookie + 1]

(* Whatever returned normally or not since, the entry of an activation is  *)
(* its own when it leaves: _profile.c keeps entries by the position of the *)
(* record, which non-local returns let grow past the depth of the stack.   *)
EntriesOwn ==
    Defined => \A i \in Hooked :
                 /\ frames[i].cookie < Len(entries)
                 /\ EntryOf(i) # Junk
                 /\ <<frames[i].unit>> \in EntryOf(i).charged

(* A call is charged to the edge from its caller, unless a non-local       *)
(* return has answered to the caller: methodAt(1) may then be an           *)
(* activation that is gone.                                                *)
CallersRight ==
    Defined => \A i \in Hooked \ {1} : ~frames[i - 1].escapedTo =>
                 EntryOf(i).charged \subseteq {<<frames[i].unit>>, <<frames[i - 1].unit, frames[i].unit>>}

(* Time is charged once, however a unit calls itself, and whatever leaves  *)
(* without profileLeave: the totals never exceed the time that passed.     *)
TimeOnce == \A c \in Charge : total[c] <= time

(* While its block runs, for the first time in the program and not inside  *)
(* another, printExecutionProfile does no harm, provided that it was sent  *)
(* at a depth below the size of the first array of entries.                *)
SessionSound ==
    cause # "none" /\ sessions = 1 /\ (\E i \in DOMAIN stage : stage[i].session = "open")
      => cause = "array" /\ deep >= FirstEntries
=============================================================================
