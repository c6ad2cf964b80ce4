SPECIFICATION Spec
CONSTANTS
  ana = ana  bob = bob  mia = mia  c1 = c1  c2 = c2  c3 = c3  deck = deck
  Users = {ana, bob, mia}
  Managers = {mia}
  Calls = {c1, c2, c3}
  Library = deck
  Commands <- Mixed
  Boards <- BoardsDef
INVARIANTS OnePrimaryOwner CommittedIsReplayed UploadsAccounted
PROPERTIES EntitledAtCommit
SYMMETRY Symmetry
