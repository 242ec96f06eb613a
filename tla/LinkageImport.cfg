CONSTANTS
  main = main
  lib1 = lib1
  lib2 = lib2
  lib3 = lib3
  p = p
  q = q
  Main = main
  Library = {lib1, lib2, lib3}
  Name = {p}
  Build <- MCCircleBuild
  Texts <- MCCircleTexts

SPECIFICATION Spec
INVARIANT
  ImportsAlwaysLoad
CHECK_DEADLOCK FALSE
