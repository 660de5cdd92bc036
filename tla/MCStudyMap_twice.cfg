\* two setups ask for a proposal, one of them late
CONSTANTS
  Note = {1}  Paper = {}  Worker = {w1}  Setup = {c1, c2}  Visitor = {}
  Attempts = 2  Cap = 3  None = None
  Asked = {}  Reviewed = {}  Year = {0}  Blank = {}
  MaxText = 0  MaxMeaning = 1  MaxVersion = 2  MaxJobs = 3  MaxMaps = 1
SPECIFICATION Spec
INVARIANT ProposedOnce
CHECK_DEADLOCK FALSE
