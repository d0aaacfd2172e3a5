\* Two requests, users, pages, monitors and channels, one incident, one prefix:
\* what races and what does not, restarts, and the notices of an incident.
SPECIFICATION ServicesSpec
CONSTANTS
  Users = {u1, u2}
  Calls = {c1, c2}
  Nobody = Nobody
  AuthScopes <- MCAuthScopes
  p1 = p1
  p2 = p2
  s1 = s1
  s2 = s2
  m1 = m1
  m2 = m2
  Pages = {p1, p2}
  Slugs = {s1, s2}
  Monitors = {m1, m2}
  PageCalls = {q1, q2}
  Views = {v1}
  MaxOrder = 31
  IncidentLimit = 3
  PageScopes <- MCPageScopes
  Nothing = Nothing
  Channels = {ch1, ch2}
  Incidents = {i1}
  Resolvers = {t1, t2}
  ChannelCalls = {r1, r2}
  NoticeScopes <- MCNoticeScopes
  Unset = Unset
  AddressBits <- MCAddressBits
  IntBits = 6
  MaxIPv4PrefixSize = 2
  Ids = {lan}
  CIDRs <- MCCIDRs
  Addresses <- MCAddresses
  Requests = {n1}
INVARIANTS
  AuthTypeOK
  AdminRemains
  StatusPagesTypeOK
  ReorderIsWhole
  AggregateIsDocumented
  NotificationsTypeOK
  GaugeAgrees
  ResolvedIsToldOnce
  TriedOnce
PROPERTIES
  AttachGoesLast
  HostsAgree
  
  EveryChannelIsTried
\* Once nothing is left to send, and no operation is in the scope, a behaviour stops.
CHECK_DEADLOCK FALSE
