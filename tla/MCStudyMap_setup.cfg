\* A course with or without a map, and a note written or not: the page or the user makes a map,
\* the setup takes the note in and asks for jobs, a worker does them, and text and topics change.
SPECIFICATION LiveSpec
CONSTANTS
  Note = {1}  Paper = {}  Worker = {w1}  Setup = {c1}  Visitor = {v1}
  Attempts = 2  Cap = 1  None = None
  Asked = {}  Reviewed = {}  Year = {0}  Blank = {2}
  MaxText = 2  MaxMeaning = 2  MaxVersion = 2  MaxJobs = 4  MaxMaps = 1
INVARIANT
  FailedWaitsForUser
PROPERTIES
  SetupKeepsOut
  EventuallyJudged
CHECK_DEADLOCK FALSE
