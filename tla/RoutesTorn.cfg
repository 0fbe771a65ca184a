\* One request sees the type word of the other's store without its data word.
SPECIFICATION Spec
CONSTANTS
  Request = {r1, r2}
  NoChain = NoChain
INVARIANTS
  FullyWired
