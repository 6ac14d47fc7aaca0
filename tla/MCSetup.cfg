CONSTANTS
    MaxRuns = 4
    None = None
SPECIFICATION Spec
INVARIANTS FreshSetupWorks TeardownLeavesNothing
PROPERTIES OtherEntryIsKept
CHECK_DEADLOCK FALSE
