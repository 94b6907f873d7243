SPECIFICATION FairSpec
CONSTANTS
  Calls = {c1, c2, c3}
  None = None

INVARIANTS WaitersAreServed FifoExactlyOnce DrainTakesOnlyOldTasks OwnSubmitOnlyTimesOut
PROPERTIES DrainCountsExecuted ImplementsMarshalledCalls TaskRunsOrIsCleared
