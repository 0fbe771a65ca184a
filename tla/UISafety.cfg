\* Two filters, four requests, answers in any order.
SPECIFICATION Spec
\* The user may stop at any time, and stops after MaxRequests requests.
CHECK_DEADLOCK FALSE
CONSTANTS
  all = all
  few = few
  Filter = {all, few}
  NoFilter = all
  Pages <- MCPages
  MaxRequests = 4
INVARIANTS
  TypeOK
  AskedIsState
  NeverStuckLoading
  SettledShows
