\* Three launches: an instance, one that loses the name to it and one more.
CONSTANTS
  Process = {p1, p2, p3}
  NoProcess = NoProcess
  Requests <- MCRequests
SPECIFICATION Spec
INVARIANTS AloneUnlessVanished CarriedOutOnce 
PROPERTY LaunchConcludes
\* Every process has ended.
CHECK_DEADLOCK FALSE
