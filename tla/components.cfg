SPECIFICATION Spec
CONSTANTS
  r1 = r1
  r2 = r2
  u1 = u1
  c1 = c1
  Request = {r1, r2}
  User = {u1}
  Conversation = {c1}
  Sizes <- SomeSizes
  Budget = 4
  Doubtful = {2}
  Nobody = Nobody
  d1 = d1
  d2 = d2
  Document = {d1, d2}
  Chunk <- SomeChunks
  Queries <- SomeQueries
  Role = {"EMPLOYEE"}
  Scale = 10000
  Threshold = 5500
  TopK = 2
  TopN = 2
  Block <- SomeBlocks
  MinRepeats = 3
  MaxTokens = 4
  MaxBlocks = 5
  Message <- SomeMessages
  Submission <- SomeSubmissions
  LeaveType = {"annual", "sick"}
  LastDay = 1
  None = None
  MaxWords = 4
  YearLength = 10
  HolidayDay = {1, 8, 9, 11, 19, 24}
  Window = {8, 11, 19, 24, 29}
  m1 = m1
  m2 = m2
  Manager = {m1, m2}
  PromptKey = {"prompt"}
  Connection <- SomeConnection
  Texts <- SomeTexts
  Default <- SomeDefault
  Initial <- SomeLines
  MaxSaves = 2
  Absent = Absent
  Lower <- SomeLower
  SkillAliases <- SomeSkills
  Proposals <- SomeProposals
  Resumes <- SomeResumes
  Careers <- SomeCareers
  Replies <- SomeReplies
  CurrentYear = 9
  Unknown = Unknown
  Titles <- SomeTitles
  WithoutMarks <- SomeMarks
  PartOf <- SomeParts
  StartOf <- SomeStarts
  EndOf <- SomeEnds
  Short = {"c", "it"}
  Requests <- SomeRequests
  MaxChanges = 1
  NoOne = NoOne
INVARIANTS
  TypeOK
  Transcript
  PriorTurnsOnly
  Accounted
  ServedFromIndex
  CitesWhatItSays
  Chunked
  ConfirmedAsShown
  BoundaryAgrees
  ChargeIsOpenDays
  SavedIsUsed
  Screened
  WithdrawsWhatIsNamed
CHECK_DEADLOCK FALSE
