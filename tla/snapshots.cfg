SPECIFICATION SnapshotsSpec
CONSTANTS
  Day = 2
  MonthDays = 2
  WeekDays = 3
  Offsets <- Everywhere
  MaxTime = 9
  MaxId = 3
  Unread = Unread
INVARIANTS WeeklyKept LastHoursKept ListedComparedWhole
