------------------------------- MODULE MCLinkage -------------------------------
(* Instances of Linkage for TLC: a program and two libraries, or three.    *)
EXTENDS Linkage

CONSTANTS main, lib1, lib2, lib3, p, q

MCBuild == <<main, lib1, lib2>>

F(o, a) == [op |-> o, arg |-> a]
Short(n, forms) == [1..n -> forms]
Sources(ms, ls1, ls2) ==
  {[f \in File |-> CASE f = main -> m [] f = lib1 -> l1 [] f = lib2 -> l2] :
     m \in ms, l1 \in ls1, l2 \in ls2}

\* Every program of three forms, with libraries of two.
MCTexts ==
  Sources(Short(3, {F("import", lib1), F("import", lib2), F("include", lib1),
                    F("use", p), F("use", q), F("assign", q)}),
          Short(2, {F("import", lib2), F("input", lib2), F("prototype", p), F("use", q)}),
          Short(2, {F("import", lib1), F("import", main), F("prototype", q), F("variable", p)}))

\* A program that imports one library of a circle, and a third library that
\* both of the circle may import.
MCCircleBuild == <<main, lib1, lib2, lib3>>
MCCircleTexts ==
  {[f \in File |-> CASE f = main -> <<F("import", l)>>
                     [] f \in {lib1, lib2} -> text2[f]
                     [] f = lib3 -> <<F("variable", p)>>] :
     l \in {lib1, lib2},
     text2 \in [{lib1, lib2} -> Short(2, {F("import", lib1), F("import", lib2), F("import", lib3)})]}
=============================================================================
