SPECIFICATION Spec
CONSTANTS
  Thread = {t1, t2}
  Rid = {r1, r2, r3}
  NoRid = NoRid
CHECK_DEADLOCK FALSE
INVARIANTS
  AnswerFindsDescribe
  NoIdleDescribe
  FailsOnlyOnError
PROPERTIES
  CallsAreSettled
