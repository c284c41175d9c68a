SPECIFICATION ClockSpec
CONSTANTS
    Years = {0, 1979, 1980, 2000, 2001, 2100, 2107, 2108, 9999}
    Months = {0, 1, 2, 3, 4, 5, 6, 7, 8, 9, 10, 11, 12, 13, 15, 99}
    Days = {0, 1, 15, 28, 29, 30, 31, 32, 99}
    Hours = {0, 22, 23, 24, 31}
    Minutes = {0, 59, 60, 63}
    Seconds = {0, 58, 59, 60, 62}
    Unset = Unset
    NoMoment = NoMoment
    MaxTicks = 2
PROPERTIES
    AdvanceIsCalendar
    MonthStaysNamed
CHECK_DEADLOCK FALSE
