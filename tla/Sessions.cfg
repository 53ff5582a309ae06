SPECIFICATION Spec
CONSTANTS
  t1 = t1
  t2 = t2
  s1 = s1
  s2 = s2
  Tabs = {t1, t2}
  Slots = {s1, s2}
  MaxTokens = 3
  Instances <- MCInstances
INVARIANTS
  TypeOK
  OneLiveSessionPerFamily
  ReuseHasACause
  PortalRefreshesOnce
  SignedInHasTokens
  WrongRoleLeaves
  LogoutEndsTheSession
CHECK_DEADLOCK FALSE
