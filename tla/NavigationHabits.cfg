\* Every way of searching, and a level with a shell.
CONSTANTS
  TimelineCapacity = 2
  NoId = NoId
  NoPath = NoPath
  MaxPath = 2
  Kids <- SmallTrees
  Links <- SmallLink
  Shells <- TheShell
  Habits = {"undoSearch", "searchRight", "searchIntoLink", "doubleTap"}
SPECIFICATION Spec
PROPERTY LevelsRefined
\* A Home double-tap at a shell prompt goes on for ever.
CHECK_DEADLOCK FALSE
