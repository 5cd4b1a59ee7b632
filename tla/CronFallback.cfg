SPECIFICATION ScheduleSpec
CONSTANTS
    Minutes = 3
    Hours = 3
    MonthDays = 3
    WeekDays = 3
    Changes = {"none", "forward", "back"}
    ChangeAt = 12
    Horizon = 30
    ScanLimit = 60
    Expressions <- MCExpressions
INVARIANTS
    NextRunIsLater
CHECK_DEADLOCK FALSE
