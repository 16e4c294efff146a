SPECIFICATION Spec
CONSTANTS
  s1 = s1
  s2 = s2
  v1 = v1
  v2 = v2
  Session = {s1, s2}
  Ann = Ann
  Person = {Ann}
  Vacancy = {v1, v2}
  None = None
  Edits <- SomeEdits
INVARIANTS
  Announced
  HiredOnce
  OneOutcome
  LoginMatches
  OnlyEditsCollide
SYMMETRY Alike
CHECK_DEADLOCK FALSE
