\* Two days, each a week of its own, and an overdue occurrence: three in all for a
\* limit of two, and one to skip after them.
SPECIFICATION Spec
CONSTANTS
  FirstDay = 1
  LastDay = 2
  WeekLength = 1
  Limit = 2
  Skips = {3}
  ReminderDays = {0}
  MaxTasks = 6
  MaxEvents = 2
  Nobody = Nobody
INVARIANTS
  TypeOK
  OccurrencesOnce
  LimitIsKept
PROPERTIES
  OccurrencesAreMade
  ReportsConverge
  NoticesConverge
