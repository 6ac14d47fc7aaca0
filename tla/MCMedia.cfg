CONSTANTS
    Requests = {r1, r2}
    MaxMedia = 3
    Missing = Missing
SPECIFICATION Spec
INVARIANTS TypeOK AcceptedMediaInOrder StoredMediaAreHosted NoUploadOutlivesMediaHandle
PROPERTIES EveryRequestAnswered
CHECK_DEADLOCK FALSE
