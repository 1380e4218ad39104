\* Production sessions: autoflush is off.
CONSTANTS
  i1 = i1  i2 = i2  i3 = i3
  d1 = d1  d2 = d2  d3 = d3
  email = email  handle = handle  city = city
  home = home  away = away
  s1 = s1
  Identity = {i1, i2}
  Entity = {email, handle, city}
  Decision = {d1}
  Investigation = {home, away}
  InvestigationsOf <- MCInvestigationsOf
  Source = {s1}
  Observable <- MCObservable
  Promoting <- MCPromoting
  AutoFlush = FALSE
  MaxEvents = 0
  None = None
SPECIFICATION Spec
SYMMETRY Symmetry
INVARIANT TentativeIsBelowThreshold
CHECK_DEADLOCK FALSE
