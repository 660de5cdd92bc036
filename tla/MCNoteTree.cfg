\* Two course folders, a document that is extracted and the folder of its extraction.
SPECIFICATION PurgeSpec
CONSTANTS
  A = A
  B = B
  C1 = C1
  C2 = C2
  E = E
  f = f
  Folders = {C1, C2, E}
  Files = {f}
  Courses = {C1, C2}
  Bundles = {E}
  Titles = {"document", "other"}
  Title <- MCTitle
  Extracted = {f}
  Top = Top
  MaxTrashed = 2
INVARIANTS
  ActiveIsReachable
  TrashIsWhole
PROPERTIES
  ConfirmedRestore
  ExpiredLeaves
CHECK_DEADLOCK FALSE
