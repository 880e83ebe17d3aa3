SPECIFICATION WebSpec
CONSTANTS
  a = a
  b = b
  a1 = a1
  a2 = a2
  b1 = b1
  Unset = Unset
  Unreachable = Unreachable
  Hosts = {a, b}
  Urls = {a1, a2, b1}
  Host <- MCHost
  MaxFetches = 2
  MaxRedirects = 1
  MaxClients = 1
  CacheSize = 1
  Interval = 1
INVARIANTS
  BadgeIsTrue
  OneClientPerHost
  PagesAreAllowed
CHECK_DEADLOCK FALSE
