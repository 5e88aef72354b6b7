\* One item (two keys), three workers, shutdown at any time; no symmetry, since
\* liveness is checked.
SPECIFICATION FairSpec
CONSTANTS
  Items = {i1}
  Workers = {w1, w2, w3}
  Shutdown = Shutdown
INVARIANTS
  TypeOK
  OneRunPerKey
  NoLostRequest
PROPERTIES
  CoalescedSpec
  RequestsServed
  DropReturns
CHECK_DEADLOCK FALSE
