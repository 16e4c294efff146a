SPECIFICATION LoadedSpec
CONSTANTS
  TitleOf <- Titles
  BytesOf <- Contents
  Worker = {w1, w2}
  Admin = {a1, a2}
  Limit = 2
  MaxUploads = 3
  Loads <- EveryLoad
INVARIANTS
  TypeOK
  ServedOnce
  SourceStored
PROPERTIES
  KeepsServing
SYMMETRY Alike
CHECK_DEADLOCK FALSE
