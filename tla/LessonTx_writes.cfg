SPECIFICATION Spec
CONSTANTS
    None = None
    LessonId = {1, 2, 3, 4, 5, 6}
    a1 = a1  a2 = a2  b = b  c = c
    Slot = {a1, a2, b, c}
    x = x  y = y
    Subject = {x, y}
    t1 = t1  t2 = t2
    Teacher = {t1, t2}
    f1 = f1
    Flow = {f1}
    R1 = R1  R2 = R2  On = On
    Location = {R1, R2, On}
    mon = mon  tue = tue  wed = wed
    Day = {mon, tue, wed}
    pair1 = pair1  pair2 = pair2
    Time = {pair1, pair2}
    Proc = {p, q, r}
    DayOf <- MCDayOf
    TimeOf <- MCTimeOf
    Virtual <- MCVirtual
    InitLessons <- SlotLessons
    InitRooms <- NoRooms
    InitDayRule <- WednesdayClosed
    InitTeacherRule <- TeacherLimits
    Requests <- WriteRequests
    MaxInFlight = 3
SYMMETRY Symmetry
INVARIANTS
    IInv
    SlotUnique
    NoLostUpdate
    ExpectedVersionHonoured
    JournalVersions
PROPERTIES
    RulesRespected
    RegSpec
