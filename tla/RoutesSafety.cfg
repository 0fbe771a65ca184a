\* Three requests race for the first use of the routes.
SPECIFICATION Spec
SYMMETRY Interchangeable
CONSTANTS
  Request = {r1, r2, r3}
  NoChain = NoChain
INVARIANTS
  TypeOK
  OnlyWholeChains
  BuiltOnce
  BuilderIsServed
