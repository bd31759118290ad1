CONSTANTS
  Users = {u1, u2}
  Assets = {a1, a2}
  Contents <- GoodOnly
  Files <- DeclareGood
  Policies <- LogoPolicy
  Handlers = {h1}
  Slots = {q1}
  FilesPerIntent = 2
  PendingPerUser = 2
  AssetsPerUser = 2
  BytesPerUser = 2
  CommitWindow = 1
  UploadUrlTtl = 0
  MaxTime = 2
SPECIFICATION FairSpec
PROPERTIES IntentsEnd
CHECK_DEADLOCK FALSE
