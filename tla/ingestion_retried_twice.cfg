SPECIFICATION LoadedSpec
CONSTANTS
  TitleOf <- Titles
  BytesOf <- Contents
  Worker = {w1}
  Admin = {a1, a2}
  Limit = 1
  MaxUploads = 3
  Loads <- OneDocument
PROPERTY OnlyFailedRetried
CHECK_DEADLOCK FALSE
