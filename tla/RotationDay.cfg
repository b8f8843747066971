SPECIFICATION RPSpec
CONSTANTS
    MonthLengths <- ShortMonths
    Points <- EveryPoint
    WeekLength = 3
    DayLength = 3
PROPERTY RotatesOnTheSpecifiedDay
CHECK_DEADLOCK FALSE
