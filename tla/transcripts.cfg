SPECIFICATION Spec
CONSTANTS
  t1 = t1
  t2 = t2
  u1 = u1
  u2 = u2
  u3 = u3
  u4 = u4
  u5 = u5
  Tasks = {t1, t2}
  Uploads = {u1, u2, u3, u4, u5}
  TaskOf <- TwoTasks
  EntriesOf <- Sessions
  MaxReceived <- Repeats
  Horizon = 6
INVARIANTS ScoreFollowsTheTranscript ExplainedCallsAreSpared
PROPERTIES ReasoningNeverHurts UploadsMoveTheScoreLittle
CHECK_DEADLOCK FALSE
