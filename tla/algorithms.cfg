SPECIFICATION Spec
CONSTANTS
    Months <- CalendarMonths
    First = 3
    Weekday0 = 2
    Slots = 3
    ChunkSize = 2
    MaxFile = 5
INVARIANTS OccurrenceIsFiring TailIsTail AcceptedIsFaithful
