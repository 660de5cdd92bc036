\* Two workers propose topics, classify and analyse one note of a map that its user edits.
SPECIFICATION Spec
CONSTANTS
  Note = {1}  Paper = {}  Worker = {w1, w2}  Setup = {}  Visitor = {}
  Attempts = 2  Cap = 1  None = None
  Asked = {"paper", "taxonomy"}  Reviewed = {1}  Year = {0}  Blank = {}
  MaxText = 1  MaxMeaning = 1  MaxVersion = 3  MaxJobs = 1  MaxMaps = 1
SYMMETRY Symmetry
INVARIANTS
  JudgedAsStored
  CompletedIsPublished
PROPERTIES
  WithdrawnWorkChangesNothing
  EditsWin
CHECK_DEADLOCK FALSE
