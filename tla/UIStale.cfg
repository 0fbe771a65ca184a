\* A body that comes late overwrites the rows of a newer request.
SPECIFICATION Spec
\* The user may stop at any time, and stops after MaxRequests requests.
CHECK_DEADLOCK FALSE
CONSTANTS
  all = all
  few = few
  Filter = {all, few}
  NoFilter = all
  Pages <- MCPages
  MaxRequests = 3
INVARIANTS
  NeverStale
