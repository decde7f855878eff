\* Two merges into one project.
SPECIFICATION Spec
CONSTANTS
  PR = {1, 2}
  Tx = {t1, t2}
  t1 = t1
  t2 = t2
  MaxVersions = 2
SYMMETRY TxSymmetry
INVARIANT VersionSequenceIsLocked
\* Once the bounds are used up, nothing is left to do.
CHECK_DEADLOCK FALSE
