\* Tab gestures while an undo or redo runs.
CONSTANTS
  TimelineCapacity = 2
  NoId = NoId
  Contents = 1
  Instances = {i1, i2, i3}
  Settings = Settings
  Placeholder = Placeholder
  Vals = {a, b}
  MaxTabs = 2
  EntryBound = 4
  Habits = {"tabInFlight"}
SPECIFICATION Spec
INVARIANT TabsOwnProviders
