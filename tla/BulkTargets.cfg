SPECIFICATION FairSpec
CONSTANTS
  dns = dns
  whois = whois
  certs = certs
  site = site
  mail = mail
  bulk = bulk
  other = other
  first = first
  second = second
  none = none
  third = third
  Plugin = {dns, whois, certs}
  Target = {site, mail}
  Request = {bulk, other}
  Investigation = {first, second, none, third}
  Submitted <- MCSubmitted
  TargetOf <- MCTargetOf
  PluginsOf <- MCPluginsOf
  MaxConcurrent = 2
  MaxCrashes = 0
PROPERTY EveryTargetRuns
CHECK_DEADLOCK FALSE
