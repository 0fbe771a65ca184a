\* Two uploads and one query against the abstract register, under the
\* scheduling the runtime gives them.
SPECIFICATION FairSpec
CONSTANTS
  Boot = boot
  BootName = n1
  Unloaded = Unloaded
  Absent = Absent
  Torn = Torn
  Uploader = {u1, u2}
  Getter = {g1}
  Name = {n1}
  Payload = {p1, p2, bad}
  Parses = {p1, p2}
  CanSpill = FALSE
PROPERTIES
  Implements
  NeverUnloads
  RequestsEnd
  BootEnds
  ShutdownEnds
