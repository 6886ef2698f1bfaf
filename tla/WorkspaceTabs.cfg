\* Three tabs opened, closed and used in any order, with undo and redo running
\* between tab gestures.
CONSTANTS
  TimelineCapacity = 2
  NoId = NoId
  Contents = 1
  Instances = {i1, i2, i3, i4}
  Settings = Settings
  Placeholder = Placeholder
  Vals = {a, b}
  MaxTabs = 3
  EntryBound = 2
  Habits = {}
SPECIFICATION Spec
SYMMETRY Symmetric
INVARIANTS TabsOwnProviders EntriesFindOwner ValuesFollowTimeline
PROPERTY MruInOrderOfUse
