\* A panic under gzip.
SPECIFICATION Spec
CONSTANTS
  Route = {"servers"}
INVARIANTS
  PanicIs500
