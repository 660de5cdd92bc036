\* a setup that began before the account was closed
CONSTANTS
  Note = {1}  Paper = {}  Worker = {w1}  Setup = {c1}  Visitor = {}
  Attempts = 2  Cap = 2  None = None
  Asked = {}  Reviewed = {}  Year = {0}  Blank = {}
  MaxText = 0  MaxMeaning = 1  MaxVersion = 2  MaxJobs = 2  MaxMaps = 1
SPECIFICATION Spec
PROPERTY ClosedStartsNothing
CHECK_DEADLOCK FALSE
