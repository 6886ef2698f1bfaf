\* Everything at once, in tabs that have the shared provider and nothing else.
CONSTANTS
  TimelineCapacity = 1
  NoId = NoId
  Contents = 0
  Instances = {i1}
  Settings = Settings
  Placeholder = Placeholder
  Vals = {a, b}
  MaxTabs = 3
  EntryBound = 3
  Habits = {"tabInFlight", "repeatInFlight", "opFails", "restart"}
SPECIFICATION FairSpec
INVARIANT SettingsKept
PROPERTY ProvidersComeBack
