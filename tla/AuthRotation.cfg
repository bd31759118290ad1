CONSTANTS
  Emails = {e1}
  Codes = {c1, c2}
  Slots = {r1, r2}
  OtpTtl = 1
  AccessTtl = 1
  RefreshTtl = 2
  MaxTime = 2
SPECIFICATION Spec
PROPERTIES StaleTokensAreRefused
CHECK_DEADLOCK FALSE
