SPECIFICATION Spec
CONSTANTS
  Jobs <- MCJobs
  Tables <- MCTables
INVARIANTS StoresStayInside PlannedIsWritten RoundTrip
\* A call ends.
CHECK_DEADLOCK FALSE
