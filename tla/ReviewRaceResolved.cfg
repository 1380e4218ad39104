\* Production sessions: autoflush is off.
CONSTANTS
  i1 = i1  i2 = i2  i3 = i3
  d1 = d1  d2 = d2  d3 = d3
  email = email  handle = handle  city = city
  home = home  away = away
  s1 = s1
  q1 = q1  q2 = q2
  Identity = {i1, i2, i3}
  Entity = {email, handle, city}
  Decision = {d1}
  Request = {q1, q2}
  Investigation = {home, away}
  InvestigationsOf <- MCInvestigationsOf
  Source = {s1}
  Observable <- MCObservable
  Promoting <- MCPromoting
  AutoFlush = FALSE
  MaxEvents = 0
  None = None
SPECIFICATION RaceSpec
SYMMETRY RaceSymmetry
PROPERTY ResolvedIsFinal
CHECK_DEADLOCK FALSE
