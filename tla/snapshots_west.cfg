SPECIFICATION SnapshotsSpec
CONSTANTS
  Day = 2
  MonthDays = 2
  WeekDays = 3
  Offsets <- West
  MaxTime = 9
  MaxId = 3
  Unread = Unread
INVARIANTS LastDayKept
