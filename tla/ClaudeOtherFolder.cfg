\* A session opened in another folder after the process exited.
CONSTANTS
  Accounts = {alice}
  NoAccount = NoAccount
  Threads = 2
  StreamBound = 3
  TimelineMax = 2
  PageSize = 1
  BatchLimit = 2
  Rooms = {r1, r2}
  NoRoom = NoRoom
  Names = {n1, n2, n3}
  TextBound = 2
  Folders = {in, work}
  Inbox = in
  MailBound = 2
  TaskBound = 2
  VersionBound = 3
  Fields = {f, g}
  Lines = {l}
  UrlBound = 3
  Tasks = {t1, t2}
  Always = 2
  Boxes = {1, 3}
  ByDefault = {3}
  StepBound = 1
  TabBound = 2
  Bases = {1}
  FileSteps = 4
  Projects = {top, sub}
  NoProject = NoProject
  TopFolder = top
  PromptBound = 2
  MaxAnswer = 2
  KeyBound = 2
  Words = {1, 2}
  BodyRows = 3
  Mails = {m1, m2}
  EmptyDraft = EmptyDraft
  NoDraft = NoDraft
  CopyBound = 2
  BodySteps = 3
  Deep = 2
  Locked = {2}
  GivenBound = 2
  OutputBound = 2
  Callers = {1, 2}
  CallTimeout = 3
  RequestTimeout = 2
  RobotsTtl = 3
  CrawlDelay = 2
  MaxRedirects = 1
  Cases <- ClaudeAfterExit
SPECIFICATION Spec
INVARIANT ResumesItsOwn
CHECK_DEADLOCK FALSE
