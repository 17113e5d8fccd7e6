SPECIFICATION Spec
CONSTANTS
  s1 = s1
  s2 = s2
  Emails = {"alice"}
  MaxToken = 3
  Sessions = {s1, s2}
  None = None
SYMMETRY SessionSymmetry
INVARIANTS
  TypeOK
  OneUserPerEmail
  HandedOutIsStored
  SpentStaysSpent
PROPERTY SessionsContinue
