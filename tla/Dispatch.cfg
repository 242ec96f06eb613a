SPECIFICATION Spec
CONSTANTS
  object = object
  meta = meta
  a = a
  b = b
  lookup = lookup
  dnu = dnu
  foo = foo
  native = native
  user = user
  l1 = l1
  l2 = l2
  Nil = Nil
  VTable = {object, meta, a, b}
  Selector = {lookup, dnu, foo}
  Impl = {native, user}
  Probe = {l1, l2}
  Hash <- HashBoth
  Object = object
  Meta = meta
  Lookup = lookup
  Dnu = dnu
  NativeLookup = native
  Program <- BothProgram
  Copied <- FooCopied
  Deferred = FALSE
  MaxDepth = 2
INVARIANTS
  GuardCoversLookups
  NoReentrantLookup
  CacheCoherent
CONSTRAINT OneOrOther
PROPERTY SendsSpec
CHECK_DEADLOCK FALSE
