\* A damaged database, and a death in the middle of its restore.
CONSTANTS
  MaxWrites = 1
  MaxRots = 1
  MaxDeaths = 2
  Corrupt = Corrupt
  Mixed = Mixed
  Newer = Newer
  None = None
SPECIFICATION Spec
INVARIANTS WhatIsThere
CHECK_DEADLOCK FALSE
