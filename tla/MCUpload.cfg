CONSTANTS
    Requests = {r1}
    MaxMedia = 2
    Missing = Missing
SPECIFICATION Spec
PROPERTIES FailedUploadsAreAnswered
CHECK_DEADLOCK FALSE
