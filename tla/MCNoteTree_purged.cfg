SPECIFICATION Spec
CONSTANTS
  A = A
  B = B
  C1 = C1
  C2 = C2
  E = E
  f = f
  Folders = {A}
  Files = {f}
  Courses = {}
  Bundles = {}
  Titles = {"document", "other"}
  Title <- MCTitle
  Extracted = {}
  Top = Top
  MaxTrashed = 2
PROPERTIES OnlyExpiredIsPurged
CHECK_DEADLOCK FALSE
