\* A Home double-tap at a shell prompt.
CONSTANTS
  TimelineCapacity = 2
  NoId = NoId
  NoPath = NoPath
  MaxPath = 3
  Kids <- TwoTrees
  Links <- Nowhere
  Shells <- TheShell
  Habits = {}
SPECIFICATION FairSpec
PROPERTY HomeArrives
CHECK_DEADLOCK FALSE
