CONSTANTS
  Clients = {c1}
  MaxEntries = 2
  MaxMinted = 6
  MAX_FIXED_SLIDES = 10
  MAX_SLIDES = 13
SPECIFICATION Spec
INVARIANTS TypeOK SlideNamesAreUnique AgentPointsAtWhatItMeans ServedFieldsConform WorksAreWhole AcceptedListsAreStored PreviewIsTheDeckUnlessCleared
PROPERTIES BackfillKeepsAndIsIdempotent
CHECK_DEADLOCK FALSE
