\* As called in this repository: context.Background(), a positive timeout.
CONSTANTS
    ZeroTimeout = FALSE
    Cancellable = FALSE
    StartMayFail = FALSE
SPECIFICATION Spec
PROPERTY WaiterTerminates
