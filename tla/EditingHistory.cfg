\* Undo and redo as a line of versions: layers of up to two elements, so indices shift.
CONSTANTS
  TimelineCapacity = 2
  NoId = 0
  Vals = {a, b}
  Slot = Slot
  Marked = Marked
  Home = Home
  Away = Away
  StartLength = 2
  MaxLayer = 2
  Habits = {}
SYMMETRY Symmetric
SPECIFICATION Spec
PROPERTY HistoryRefined
CHECK_DEADLOCK FALSE
