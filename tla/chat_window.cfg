SPECIFICATION Spec
CONSTANTS
  a1 = a1  a2 = a2
  Answers = {a1, a2}
  NumRequests = 2
  MaxEvents = 5
  MaxDrops = 1
  MaxRestarts = 1
INVARIANTS ShownInOrder OutcomeTrue OneHolder
PROPERTIES ResolvedStays EndSeen
CHECK_DEADLOCK FALSE
