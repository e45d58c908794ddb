SPECIFICATION PartsSpec
CONSTANTS
  None = None
  Groups <- MCGroups
  Days <- MCDays
  Period <- MCDays
  MondayOf <- MCMondayOf
  HalfOf <- MCHalfOf
  Course <- MCCourse
  Rooms = {"r1", "gym", "web"}
  Subjects = {"math", "pe"}
  Teachers = {"t1", "t2"}
  Flows = {"f1", "f2"}
  MaxChain = 3
  Meta <- MCMeta
  Kind <- MCKind
  Curriculum <- MCCurriculum
  Teaching <- MCTeaching
  Blocked <- MCBlocked
  HoursPerPair = 2
  StudentWeeklyHours = 6
  TeacherWeeklyHours = 4
  GroupsPerFacility = 1
  StudyDays = 2
  Tables <- MCTables
  SourceChoices <- MCSources
  MaxEdits = 3
  FillLessons <- MCFillLessons
  TimeOf <- MCTimeOf
  GroupOf <- MCGroupOf
  WithSubject <- MCWithSubject
  Places = {"a", "b", "web"}
  VirtualPlaces = {"web"}
  Candidates <- MCCandidates
  Fillers = {"f1", "f2"}
  Clerks = {"c"}
  FillRequests <- MCFillRequests
  ClerkRows <- MCClerkRows
  MaxRows = 3
  MaxClerkWork = 2
  Keys = {"k1", "k2"}
  KeyGroup <- MCKeyGroup
  KeySemester <- MCKeySemester
  KeySubject <- MCKeySubject
  Staff = {"t1"}
  Publishers = {"p1", "p2"}
  Editors = {"e"}
  PublishRequests <- MCPublishRequests
  CourseTables <- MCCourseTables
  InitAllowed <- MCInitAllowed
  MaxCourseIds = 5
  MaxCourseWork = 2
  Apps <- MCApps
  UserOf <- MCUserOf
  Handlers = {"h1", "h2"}
  TokenLife = 0
  MaxTokens = 3
  MaxTime = 1
  Phones = {1, 2}
  Classes = {1, 2}
  Senders = {"s1", "s2"}
  MaxVersion = 2
  MaxMoves = 1
  Addresses = {"a1", "a2"}
  Calls = {"c1", "c2"}
  Cost = 2
  Burst = 1
  ClientTTL = 4
  Delay = 1
  MaxBuckets = 3
  MaxNow = 5
  Importers = {"p", "q"}
  ItemNames = {"A", "B"}
  TableFiles <- MCTableFiles
  PlanFiles <- MCPlanFiles
  PlanChoices <- MCPlanChoices
  EditorHours = {3}
  MaxPlanIds = 6
  MaxPlanWork = 3
INVARIANTS
  UntouchedExact ConflictsMutual ChecksSuffice WorkloadOnce
  OneRowPerLesson NewestHeard
PROPERTIES
  ClashesAreNewer RoomsKept PublishMoves ChangesAnnounced TradesAreFair RateKept MergeExact PlanExact
CHECK_DEADLOCK FALSE
