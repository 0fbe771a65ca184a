\* A large form without the field "file" leaves its temporary file behind.
SPECIFICATION Spec
CONSTANTS
  Boot = boot
  BootName = n1
  Unloaded = Unloaded
  Absent = Absent
  Torn = Torn
  Uploader = {u1}
  Getter = {}
  Name = {n1}
  Payload = {p1}
  Parses = {p1}
  CanSpill = TRUE
INVARIANTS
  SpillDeleted
