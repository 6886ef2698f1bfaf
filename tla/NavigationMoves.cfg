\* Arrows, Home, searches, undo and redo over two trees, one with a link.
CONSTANTS
  TimelineCapacity = 3
  NoId = NoId
  NoPath = NoPath
  MaxPath = 3
  Kids <- TwoTrees
  Links <- TheLink
  Shells <- Nowhere
  Habits = {}
SPECIFICATION FairSpec
INVARIANT LockStep
PROPERTIES HistoryRefined HomeArrives
