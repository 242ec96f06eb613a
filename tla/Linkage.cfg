CONSTANTS
  main = main
  lib1 = lib1
  lib2 = lib2
  lib3 = lib3
  p = p
  q = q
  Main = main
  Library = {lib1, lib2}
  Name = {p, q}
  Build <- MCBuild
  Texts <- MCTexts

SPECIFICATION Spec
INVARIANTS
  ImportsSuffice
  ImportsLoad
  OneObject
PROPERTY
  Stops
CHECK_DEADLOCK FALSE
