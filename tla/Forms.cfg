SPECIFICATION Spec
CONSTANTS
  Questions = 2
  Options = {1, 2}
  MaxReloads = 1
  MaxLate = 1
  CodePages = {p1, p2}
  MaxCodes = 2
  MaxVerify = 2
  MaxTurns = 3
  ActiveLimit = 1
  Teachers = {a, b}
  MaxQuestions = 2
  Subjects = {1, 2}
  MaxRequests = 2
  Entries = {1, 2, 3}
  MaxInFlight = 3
  SchoolClasses = {1, 2}
  MaxOpen = 2
  Feed = {1, 2}
  MaxEvents = 3
  PageSize = 1
  Selections = {1, 2}
  MaxVersion = 2
  MaxAsked = 2
SYMMETRY Symmetry
INVARIANTS
  TypeOK
  ShownIsStored
  FinishIsComplete
  CodeUsedOnce
  OneCodePerCooldown
  ShownInOrder
  RedirectsEnd
  LastTeacherStays
  OneCorrectOption
  
CHECK_DEADLOCK FALSE
