CONSTANTS
  MaxItems = 4
  NotCounted = NotCounted
  Partitions = {t0, t1}
  MaxOffset = 2
  ResetsAndPurges <- MCRequests
  Reads <- MCReads
  Subscriptions = {s1, s2}
  MaxBacklog = 2
  BodyLimit = 2
  Attempts = 2
  Commands = {a, b}
  Scopes = {write, read}
  Patterns = {all}
  NoPattern = NoPattern
  Creators = {c1, c2}
  NameServers = {n1, n2}
  Queues = {1, 2}
  Pruners = {p1, p2}
  Selectors <- MCSelectors
  Policies = {open, closed}
  Permits = {open}
  MaxFile = 3
  NoOne = NoOne
  Ops = {o1, o2}
  Failures <- MCFailures
  MaxSeq = 2
  NoOp = NoOp
  Unused = Unused
SPECIFICATION MCSpec
CHECK_DEADLOCK FALSE
INVARIANTS OutcomeAccepted NothingHidden NothingInvented
  Typed ChangesCounted SuccessHolds PurgeNeverUnderReports WindowShown
  VisibleNeverOverwritten NotSelfDisturbed LoggedOnce
PROPERTIES BusyOnlyByRace LostOnlyByOverlap UnderCurrentPolicy CommandsEnd
