SPECIFICATION Spec
CONSTANTS
  s1 = s1
  s2 = s2
  Objects <- MCObjects
  Content <- MCContent
  PageSize = 2
  Handled = {"orders"}
  Transactional = {"orders"}
  Needs <- MCNeeds
  Cancelled = {"o3"}
  OutOfScope = {"o4"}
  Invalid <- MCInvalid
  Versions = {1, 2}
  Controls <- MCControls
  Changing = {"o1", "o2"}
  Sessions = {s1, s2}
  Rehearsed = 1
  MaxChanges = 1
  MaxStarts = 2
  None = None
SYMMETRY Symmetry
INVARIANTS TypeOK CheckpointCovers CrosswalkIsTruth CutoverIsWhole
PROPERTY Implements
\* Sessions stop when the bounds on starts and changes are reached.
CHECK_DEADLOCK FALSE
