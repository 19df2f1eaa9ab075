SPECIFICATION MessagesSpec
CONSTANTS
  kSecsPerMinute = 2
  kSecsPerHour = 4
  kSecsPerDay = 12
  TmYearMax = 2047
  NanosDigits = 2
  IntMax = 16777215
  Bits = 1
  kPadding = padding
  kOther = other
  Seconds <- MCSeconds
  Counts <- MCCounts
  Periods <- MCPeriods
  Nanos <- MCNanos
  Durations <- MCDurations
  Years <- MCYears
  Months <- MCMonths
  Days <- MCDays
  Ids <- MCIds
  NoName = NoName
  DisplayNames = {"x", "y"}
  NodeCounts = {1, 7}
  Labels <- MCLabels
  Instances <- MCInstances
  MaxCalls = 3
  Replies <- MCReplies
  MaxFailures = 2
INVARIANTS
  CivilTimeAgrees
  TimesSurvive
  DatesAgree
  TimestampTextAgrees
  ConversionsInvert
  ResultsAreComplete
  RequestsAreFaithful
  BuilderIsFaithful
  CallsPassThrough
CHECK_DEADLOCK FALSE
