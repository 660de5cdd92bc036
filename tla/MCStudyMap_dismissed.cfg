\* two openings of the page list the course; the map one makes is deleted before the other makes its own
CONSTANTS
  Note = {}  Paper = {}  Worker = {}  Setup = {}  Visitor = {v1, v2}
  Attempts = 2  Cap = 1  None = None
  Asked = {}  Reviewed = {}  Year = {0}  Blank = {}
  MaxText = 0  MaxMeaning = 1  MaxVersion = 2  MaxJobs = 1  MaxMaps = 2
SPECIFICATION Spec
PROPERTY DismissedStaysDeleted
CHECK_DEADLOCK FALSE
