SPECIFICATION FairSpec
CONSTANTS
  p1 = p1  p2 = p2  r1 = r1  r2 = r2  r3 = r3
  k1 = k1  k2 = k2  d1 = d1  d2 = d2
  Plans = {p1, p2}
  Chats = {c1}
  Drafts = {d1, d2}
  Keys = {k1}
  Requests = {r1, r2}
  NumActions = 2
  RefOf <- TwoActions
  Guarded = {}
  Ttl = 1
  Lease = 0
  MaxAttempts = 2
  DbFaults = FALSE
  MaxClock = 2
  MaxCrashes = 1
  None = None
INVARIANTS OnePendingPerChat
PROPERTIES Implements ExecutionSettles
CHECK_DEADLOCK FALSE
