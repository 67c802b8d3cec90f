CONSTANTS
  P1 = P1
  P2 = P2
  Proc <- MCProc
  Remote = {"r"}
  Local = {"l"}
  Malformed = {2}
  Ttl = 1
  Slow = 1
  MaxTime = 4
  Ahead = 2
  MaxRev = 2
SPECIFICATION Spec
SYMMETRY MCSymmetry
PROPERTIES FreshEnough NoRollback RegistrationsAreKept
