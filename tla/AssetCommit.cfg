CONSTANTS
  Users = {u1}
  Assets = {a1}
  Contents <- GoodAndBomb
  Files <- DeclareEither
  Policies <- LogoPolicy
  Handlers = {h1, h2, h3}
  Slots = {q1}
  FilesPerIntent = 1
  PendingPerUser = 1
  AssetsPerUser = 1
  BytesPerUser = 1
  CommitWindow = 2
  UploadUrlTtl = 1
  MaxTime = 3
SPECIFICATION Spec
INVARIANTS TypeOK DeliveredWasInspected CommittedIsServed AnswersAreTrue UploadInv
PROPERTIES ImplementsUpload
CHECK_DEADLOCK FALSE
