CONSTANTS
  Sessions = {s1, s2}
  Others = {}
  Profiles = {p1}
  NoProfile = NoProfile
  Handlers = {h1}
  Slots = {q1, q2}
  MonthlyMinutes = 1
  TicksPerMinute = 1
  MonthTicks = 2
  TokenTtl = 0
  MaxTime = 2
VIEW BudgetView
SYMMETRY Symmetry
SPECIFICATION Spec
INVARIANTS TypeOK BudgetOvershoot
CHECK_DEADLOCK FALSE
