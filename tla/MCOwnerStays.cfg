CONSTANTS
  Threads = {s, t}
  People = {u, v}
  Ledgers = {1, 2}
  Nobody = Nobody
  MaxRequests = 5
SPECIFICATION MemberSpec
INVARIANT OwnerStays
CHECK_DEADLOCK FALSE
