CONSTANTS
  Names = {"x", "y", "z"}
  Cap <- MCCap
  Planable = {"works", "identity", "social"}
  Answers <- MCAnswers
  BUDGET = 5
  RequestTimeout = 3
  MaxAttempts = 3
  MaxTime = 7
SPECIFICATION FairSpec
INVARIANTS TypeOK AnswersInTime SectionsAreIsolated DraftKeepsTheRules NothingUsableIsLost
PROPERTIES EveryRequestIsAnswered
CHECK_DEADLOCK FALSE
