\* Two transactions about two pull requests of one project or group, each begun
\* again and again, with fair scheduling.
SPECIFICATION FairSpec
CONSTANTS
  PR = {1, 2}
  Tx = {t1, t2}
  t1 = t1
  t2 = t2
  MaxVersions = 4
INVARIANTS
  OneWriterOfHistory
  GroupHeadIsFresh
PROPERTIES
  Implements
  EveryMergeEnds
\* Once the bounds are used up, nothing is left to do.
CHECK_DEADLOCK FALSE
