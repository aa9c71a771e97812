CONSTANTS
  Nodes = {n1, n2, n3, n4}
  NULL = NULL
  MinSize <- Low
  NumChild = 4
  Throws <- SomeThrows
  Letters = {"A", "B"}
  PageCounts = {1, 3}
  Lifetimes = {1, 2, 3}
  MaxPages = 4
  Overlaid = {1, 2}
  MaxTouches = 7
  MaxLength = 6
  Values = {1, 2, 3}
CHECK_DEADLOCK FALSE
SPECIFICATION MCSpec
INVARIANTS ProgramTypesOK ListHolds FailsOnlyForFork EveryDartCounted WritesBeforeFree AliveOnce RoutinesAgree
