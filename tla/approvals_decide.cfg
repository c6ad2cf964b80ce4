SPECIFICATION FairSpec
CONSTANTS
  r1 = r1  r2 = r2  c1 = c1  c2 = c2  u1 = u1  m1 = m1
  Requests = {r1, r2}
  Calls = {c1, c2}
  Keys = {k1}
  Users = {u1, m1}
  Managers = {m1}
  Submissions <- FourWays
  Asked = {"approved", "changes_requested", "cancelled"}
  Lifetimes = {1}
  BatchSize = 1
  MaxClock = 1
  MaxFaults = 1
  Worker = Worker
  None = None
INVARIANTS OneDecision DecidedInTime AnswerIsDecision
PROPERTIES OverdueSettles Implements
CHECK_DEADLOCK FALSE
