\* Every habit: what holds of the timeline however the user works.
CONSTANTS
  TimelineCapacity = 2
  NoId = 0
  Vals = {a, b}
  Slot = Slot
  Marked = Marked
  Home = Home
  Away = Away
  StartLength = 1
  MaxLayer = 0
  Habits = {"cut", "insertOverRedo", "insertInWindow", "evictWhileTyping", "enterNothing"}
SPECIFICATION Spec
PROPERTIES PanicOnlyFromInsert MergesKeepBefore
CHECK_DEADLOCK FALSE
