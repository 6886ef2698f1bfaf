\* Ctrl+Z or Ctrl+Shift+Z while an edit is open.
CONSTANTS
  TimelineCapacity = 3
  NoId = 0
  Vals = {a, b}
  Slot = Slot
  Marked = Marked
  Home = Home
  Away = Away
  StartLength = 1
  MaxLayer = 1
  Habits = {}
SYMMETRY Symmetric
SPECIFICATION Spec
INVARIANT NoPanic
CHECK_DEADLOCK FALSE
