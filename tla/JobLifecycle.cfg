SPECIFICATION FairSpec
CONSTANTS
  Callers = {c1, c2}
  NumExecutions = 2
  MaxFaults = 2
INVARIANTS
  TypeOK
  SuccessIsComplete
  OrphanHasNoWorker
  CancelEndsTheJob
  RunningCandidateIsRecorded
PROPERTIES
  ImplementsJobRecord
  WorkerHonoursCancel
  WatchedJobEnds
  EveryJobEndsBarringFaults
CHECK_DEADLOCK FALSE
