\* One window answers three gates, two others cancel, pause and resume.
CONSTANTS
  N = 3
  OutputGates = {2}
  Dashboards = {d1}
  Operators = {o1, o2}
  MaxRequests = 3
SPECIFICATION FairSpec
INVARIANTS HonoursTheAnswer NoAnswerLost CancelWins PauseHolds
PROPERTIES CancelEndsUnlessPaused
\* Nobody has to answer a gate, and a run ends.
CHECK_DEADLOCK FALSE
