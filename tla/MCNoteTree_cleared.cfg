SPECIFICATION ClearSpec
CONSTANTS
  A = A
  B = B
  C1 = C1
  C2 = C2
  E = E
  f = f
  Folders = {A}
  Files = {f}
  Courses = {}
  Bundles = {}
  Titles = {"document", "other"}
  Title <- MCTitle
  Extracted = {}
  Top = Top
  MaxTrashed = 1
INVARIANTS TrashIsWhole
CHECK_DEADLOCK FALSE
