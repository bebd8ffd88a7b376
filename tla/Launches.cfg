SPECIFICATION Spec
CONSTANTS
  Goals = {g1, g2}
  Ids = {i1, i2}
  Processes = {p1, p2}
  None = None
  Absent = Absent
  Lengths = {0, 2}
  MaxLaunches = 3
  MaxCrashes = 1
  MaxResets = 1
INVARIANTS OwnGoal IdsKeepApart
PROPERTIES ForeignWorkWasAbandoned StoredRunIsTaskQueue
SYMMETRY Symmetry
CHECK_DEADLOCK FALSE
