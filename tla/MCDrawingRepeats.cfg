SPECIFICATION Spec
CONSTANTS
    Events = {e1}
    Spans <- MCSpans
    Bits = 3
    Months = 2
    Days <- MCDays
    Hours = 3
    Clock <- MCClock
    Views <- MCViews
    Day = 3
    LongMonth = 6
    LongYear = 9
INVARIANT DrawnOnce
