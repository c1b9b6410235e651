SPECIFICATION ServerSpec
CONSTANTS
  c1 = c1
  c2 = c2
  c3 = c3
  h1 = h1
  h2 = h2
  Conn = {c1, c2, c3}
  Method = {m1, m2}
  Host = {h1, h2}
  NoHost = NoHost
  Rid = {r1}
  HostsOf <- SharedHosts
  MaxQueue = 2
  MaxMethods = 2
SYMMETRY MethodsAlike
INVARIANTS
  IndexesAgree
  ListedAreConnected
  AnswersAreTakenBack
PROPERTIES
  ShutdownNotified
  ImplementsDirectory
