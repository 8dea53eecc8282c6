SPECIFICATION Spec
CONSTANTS
  r1 = r1
  r2 = r2
  s1 = s1
  s2 = s2
  i1 = i1
  i2 = i2
  a1 = a1
  a2 = a2
  f1 = f1
  k1 = k1
  k2 = k2
  o1 = o1
  o2 = o2
  None = None
  Matches <- MCMatches
  FieldMatches <- MCFieldMatches
  Keywords <- MCKeywords
  Situations <- MCSituations
  DdlModes = {TRUE}
  Changes <- MCChanges
  MaxCrashes = 1
  MaxChanges = 1
INVARIANTS
  PartialNeverStamped
