\* Tasks or threads that check access while the token is rotated.
SPECIFICATION Spec
CONSTANTS
  c1 = c1  c2 = c2  k1 = k1
  Callers = {c1, c2}
  Keys = {k1}
  Rotator = Rotator
  Nobody = Nobody
  MaxRotations = 2
INVARIANTS EntriesAreOwn RotationTakes DenyNeverCached
SYMMETRY CallerSymmetry
