SPECIFICATION Spec
CONSTANTS
  Calendar <- MCCalendar
  CrqcDay = 9
  Nodes = {1, 2, 3, 4}
  Backlogs <- MCBacklogs
  Enabler = Enabler
  Far = 50
  SlackUnit = 2
INVARIANTS OrderIsExact LatestPlanIsFeasible ScheduleIsFeasible StreamsAreUsed CriticalPathBinds CycleIsReal
