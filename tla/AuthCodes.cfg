CONSTANTS
  Emails = {e1}
  Codes = {c1, c2, c3}
  Slots = {r1, r2}
  OtpTtl = 1
  AccessTtl = 1
  RefreshTtl = 2
  MaxTime = 2
SYMMETRY Symmetry
SPECIFICATION Spec
INVARIANTS TypeOK CodesKeepTheirPurpose SessionsAreEarned SpentCodesAreGone LoginsPerCode CodesDoNotPileUp AuthInv
PROPERTIES LogoutIsFinal
CHECK_DEADLOCK FALSE
