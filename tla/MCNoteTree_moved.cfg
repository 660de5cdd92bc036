SPECIFICATION Spec
CONSTANTS
  A = A
  B = B
  C1 = C1
  C2 = C2
  E = E
  f = f
  Folders = {A, E}
  Files = {f}
  Courses = {}
  Bundles = {E}
  Titles = {"document", "other"}
  Title <- MCTitle
  Extracted = {f}
  Top = Top
  MaxTrashed = 1
PROPERTIES TreeRowsStay
CHECK_DEADLOCK FALSE
