SPECIFICATION FairSpec
CONSTANTS
  MaxWrites = 1
  MaxFaults = 1
  MaxJobs = 3
INVARIANTS WhenSentIsSent QuietIsCurrent
PROPERTY ResumeHeals
CHECK_DEADLOCK FALSE
