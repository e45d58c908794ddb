SPECIFICATION Spec
CONSTANTS
    theory = theory  practice = practice  None = None
    Admin = {a, b}
    Reader = {r}
    Code = {theory, practice}
    LastDay = 13
    YearLength = 7
    Requests <- Bodies
    Ranges <- Weeks
    InitCalendars <- OneCalendar
    InitGroups <- Groups
    MaxWrites = 4
SYMMETRY Symmetry
INVARIANTS
    OverrideIsOneDay
