\* Every outcome of runCtx: start failure, exit, timeout, caller cancellation.
CONSTANTS
    ZeroTimeout = FALSE
    Cancellable = TRUE
    StartMayFail = TRUE
SPECIFICATION Spec
INVARIANT NoProcessLeftRunning
PROPERTY RunnerReturns
