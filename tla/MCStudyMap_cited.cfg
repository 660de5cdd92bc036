\* a material is removed while a proposal that read it is made
CONSTANTS
  Note = {1}  Paper = {}  Worker = {w1}  Setup = {}  Visitor = {}
  Attempts = 2  Cap = 1  None = None
  Asked = {"taxonomy"}  Reviewed = {}  Year = {0}  Blank = {}
  MaxText = 0  MaxMeaning = 1  MaxVersion = 2  MaxJobs = 1  MaxMaps = 1
SPECIFICATION Spec
PROPERTY ProposalCitesMembers
CHECK_DEADLOCK FALSE
