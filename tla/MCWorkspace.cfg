SPECIFICATION FairSpec
CONSTANTS
  ann = ann
  bob = bob
  Members = {ann, bob}
  Ideas = {1, 2}
  Suggested = {1}
  Statuses = {"new", "planned"}
  Requests = {1, 2}
  Hires = {"administrator", "viewer"}
  Founded <- MCFounded
  MaxRequests = 2
  Normal <- MCNormal
  Folded <- MCFolded
  Suffixed <- MCSuffixed
  Sample = 2
  MaxRows = 4
  Studies = {1, 2}
  Title <- MCTitle
  Instrument <- MCInstrument
  Answers <- MCAnswers
  Started <- MCStarted
  Built <- MCBuilt
  Derived = "derived"
  MaxResponses = 2
  MaxVersions = 3
  Files <- MCFiles
  Base <- MCBase
  Trim <- MCTrim
  OptionValue <- MCOptionValue
  LongHeaders = {"Why"}
  LongNames = {"e"}
  MaxSpecs = 2
  Taken = {"a"}
  MaxClicks = 4
  RPages = {1, 2, 3}
  Fresh <- MCFresh
  Links = {"two", "promo"}
  Fields = {"size", "note"}
  FieldType <- MCFieldType
  FieldOptions <- MCFieldOptions
  Raw = {"", "s", "x"}
  NamesGiven = {"Eva", "Ida"}
  Editors = {1, 2}
  Visitors = {1}
  Address <- MCAddress
  Pages0 <- MCPages0
  MaxJobs = 2
  MaxSubmits = 3
  Agendas = {{"administration", "sessions"}, {"administration", "datasets"}, {"datasets", "fieldwork"}, {"administration", "runs"}, {"administration", "inbox"}, {"import"}, {"pages"}, {"pages", "visitors"}}
INVARIANTS TypeOK LawfulOnly AdministratorRemains AnalyticsSound AnswersToldApart TrailReplays ImportsAsShown PagesConsistent LastSubmissionWins DoneIsStored
PROPERTIES CollectsOnlyWhileActive EveryCallEnds
CHECK_DEADLOCK FALSE
