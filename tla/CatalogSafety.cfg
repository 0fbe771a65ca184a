\* Two uploads under two names next to the startup load, kills and restarts.
SPECIFICATION Spec
SYMMETRY Interchangeable
CONSTANTS
  Boot = boot
  BootName = n1
  Unloaded = Unloaded
  Absent = Absent
  Torn = Torn
  Uploader = {u1, u2}
  Getter = {}
  Name = {n1, n2}
  Payload = {p1, p2, bad}
  Parses = {p1, p2}
  CanSpill = FALSE
INVARIANTS
  TypeOK
  ReadyFlag
  AuditDirectory
  AuditCopy
