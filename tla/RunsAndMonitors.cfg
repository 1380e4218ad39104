SPECIFICATION RunsOrMonitorsSpec
CONSTANTS
  dns = dns
  whois = whois
  certs = certs
  site = site
  mail = mail
  bulk = bulk
  other = other
  first = first
  second = second
  none = none
  third = third
  Plugin = {dns, whois, certs}
  Target = {site, mail}
  Request = {bulk, other}
  Investigation = {first, second, none, third}
  Submitted <- MCSubmitted
  TargetOf <- MCTargetOf
  PluginsOf <- MCPluginsOf
  MaxConcurrent = 2
  MaxCrashes = 1
  Monitor = {m1, m2}
  Fingerprint = {f1, f2}
  ForeignKeysEnforced = FALSE
  MaxRestarts = 1
  None = None
INVARIANTS
  RunnerTypeOK
  AllOrNothing
  BulkStopsAtFirstDeath
  MonitorTypeOK
  BaselineIsCurrent
  AlertsFollowTheSave
PROPERTIES
  TasksEnd
  DueMonitorsAreChecked
\* every request has been made and every task has ended, or every monitor may
\* have been deleted
CHECK_DEADLOCK FALSE
