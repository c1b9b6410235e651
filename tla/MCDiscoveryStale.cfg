SPECIFICATION DiscoverySpec
CONSTANTS
  c1 = c1
  p1 = p1
  p2 = p2
  t1 = t1
  t2 = t2
  h1 = h1
  h2 = h2
  Conn = {c1, p1, p2}
  Method = {m1}
  Host = {h1, h2}
  NoHost = NoHost
  Rid = {t1, t2}
  Thread = {t1, t2}
  ClientOf <- OneClient
  HostsOf <- EitherHost
  MaxQueue = 2
  MaxMethods = 1
CHECK_DEADLOCK FALSE
PROPERTY
  DiscoveredHostServes
