SPECIFICATION Spec
CONSTANTS
  t1 = t1
  t2 = t2
  p1 = p1
  Predictors = {p1}
  Trainers = {t1, t2}
  Boot = Boot
  MaxModel = 4
  None = None
  Torn = Torn
CHECK_DEADLOCK FALSE
SYMMETRY TrainerSymmetry
INVARIANTS
  TypeOK
  FileMatches
  AnsweredIsSaved
  UsableAtRest
  VersionNamesScorer
