CONSTANTS
  Users = {u1}
  Assets = {a1, a2, a3, a4}
  Contents <- GoodOnly
  Files <- DeclareGood
  Policies <- LogoPolicy
  Handlers = {h1}
  Slots = {q1, q2}
  FilesPerIntent = 1
  PendingPerUser = 1
  AssetsPerUser = 1
  BytesPerUser = 1
  CommitWindow = 1
  UploadUrlTtl = 0
  MaxTime = 2
VIEW QuotaView
SYMMETRY Symmetry
SPECIFICATION Spec
INVARIANTS QuotaOvershoot
CHECK_DEADLOCK FALSE
