CONSTANTS
  host = host
  addr = addr
  owner = owner
  lists = lists
  resolves = resolves
  owns = owns
  first = first
  other = other
  x1 = x1
  x2 = x2
  x3 = x3
  call = call
  retry = retry
  rival = rival
  repeat = repeat
  Entity = {host, addr, owner}
  Relationship = {lists, resolves, owns}
  Ends <- MCEnds
  Execution = {x1, x2, x3}
  Investigation = {first, other}
  Call = {call, retry, rival, repeat}
  Result <- MCResult
  Identifier = {"mail", "nick", "town", "addr"}
  TypeOf <- MCTypeOf
  Relation = {"owns"}
  EvidenceId = {"v1", "v2", "v3"}
  GlobalIdentifiers = {"mail", "nick", "town", "addr"}
  GlobalRelations = {"owns"}
  Watched = {"mail", "addr"}
  Findable <- MCFindable
  PluginId = {"dns", "whois"}
  DefaultAdapted = {"dns"}
  Raised <- MCRaised
  FailureThreshold = 2
  WindowHours = 1
  MaxRuns = 3
  MaxHour = 3
  Url = {"u1", "u2", "u3", "u4"}
  RefusedUrl = {"u4"}
  MaxHops = 3
  Item = {"i1", "i2"}
  CertMargin = 1
  Scopes <- MCScopes
  EntityKey = {"e1", "e2", "e3"}
  InvId = {"n1"}
  IdentityId = {"p", "q"}
  SignalTables <- MCTables
  ClientPath = {"k1", "k2"}
  Limit <- MCLimit
  Window = 2
  MaxTime = 4
SPECIFICATION PlatformSpec
SYMMETRY Symmetry
INVARIANTS
  PlatformTypeOK
  StoreIsItsEvidence
  CountsMatchLinks
  OneRowPerRelationship
  RefusedOnlyForRepeats
  StrongScoreIsTierOne
  WatchedIsReviewed
  QuarantineIsEarned
  OutageIsReported
  LoopsAreTold
  ConfidenceIsEarned
  WindowsHoldTheLimit
PROPERTIES
  IngestionIsAtomic
  MoreEvidenceNeverLowersScore
  FalseAlarmsNeedAnOutage
  ChangesAreTold
  SignalsAreKept
\* a call, a plugin or a walk has ended
CHECK_DEADLOCK FALSE
