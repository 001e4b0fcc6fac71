SPECIFICATION FairSpec
CONSTANTS
  Instances = {i1, i2}
  Slots = {s1, s2}
  TTL = 2
  MaxRun = 3
  NoRun = NoRun
INVARIANTS TypeOK OneRunner
PROPERTIES LocksEndWithTheirRun ForeignLocksStay LockComesBack
