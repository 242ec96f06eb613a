---------------------------- MODULE MCActivation ----------------------------
(* Methods, a block and two lines; every unit starts at the first line.    *)
EXTENDS Profiler, TLC

CONSTANTS m1, m2, b1
MCLine == 1 .. 2
MCStart == [u \in Unit |-> 1]

(* The program is explored with two ordinary methods and both lines, or    *)
(* with one of them and printExecutionProfile, all on one line and a       *)
(* record less; and not far once the profile has been printed.             *)
Smaller ==
    \/ \A i \in DOMAIN frames : frames[i].unit # Profiling
    \/ /\ \A i \in DOMAIN frames : frames[i].unit # m2 /\ frames[i].line = 1
       /\ position < MaxPosition
       /\ sessions > 0 /\ ~ticking => position < 4
=============================================================================
