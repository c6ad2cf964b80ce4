SPECIFICATION Spec
CONSTANTS
  c1 = c1  c2 = c2  k1 = k1  k2 = k2  r1 = r1  r2 = r2
  None = None
  Calls = {c1, c2}
  Keys = {k1, k2}
  Resources = {r1, r2}
  Listings <- TwoListings
  Budget <- Calling
  MaxPublications = 1
SYMMETRY Symmetry
INVARIANTS TokensInForce OneWriter ReceiptOfAttempt
PROPERTIES FreshPublication
CHECK_DEADLOCK FALSE
