\* A chain of dates of which two come, whose names come round after two, with failures,
\* a restart and an edit.
CONSTANTS
  Period = 2
  MaxNow = 2
  Horizon = 10
  MaxFailures = 3
  MaxCrashes = 1
  MaxEdits = 1
  Absent = Absent
SPECIFICATION RepeatSpec
INVARIANTS OncePerName NoGap
PROPERTIES EarlyByReruns ChainKept ChainGoesOn
CHECK_DEADLOCK FALSE
