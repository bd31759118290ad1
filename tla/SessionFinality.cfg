CONSTANTS
  Sessions = {s1}
  Others = {"agent"}
  Profiles = {p1}
  NoProfile = NoProfile
  Handlers = {h1, h2}
  Slots = {q1}
  MonthlyMinutes = 1
  TicksPerMinute = 1
  MonthTicks = 2
  TokenTtl = 1
  MaxTime = 2
SPECIFICATION Spec
PROPERTIES EndedIsFinal
CHECK_DEADLOCK FALSE
