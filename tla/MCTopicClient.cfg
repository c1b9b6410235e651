SPECIFICATION ClientSpec
CONSTANTS
  c1 = c1
  c2 = c2
  t1 = t1
  r = r
  Conn = {c1, c2}
  Topic = {k1, k2}
  Rid = {t1, r}
  Thread = {t1}
  ClientOf <- OneProcess
  MaxQueue = 2
CHECK_DEADLOCK FALSE
INVARIANTS
  ClientTypeOK
  SubscribedHaveCallback
  PublicationsFindCallback
  SubscriptionsAgree
  SubscriptionsAreLive
PROPERTIES
  CallsReturn
  ImplementsPubSub
