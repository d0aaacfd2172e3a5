\* The same instance: a prefix is due a minute after its second scan.
SPECIFICATION HistorySpec
CONSTANTS
  p1 = p1
  h1 = h1
  h2 = h2
  None = None
  Prefixes = {p1}
  Hosts = {h1, h2}
  HostsOf <- MCHostsOf
  Rows = {r1, r2}
  Scans = {s1, s2}
  Starters = {ticker, op}
  Ticker = ticker
  Acceptors = {a1}
  Scopes <- MCScopes
PROPERTIES
  DueAfterInterval
