\* Replace with a reliable node-id lookup and a new node registered from the
\* start; admin calls, timeouts and status patches may fail at any step.
CONSTANTS
    c1 = c1
    c2 = c2
    nOld = nOld
    nNew = nNew
    nOther = nOther
    Chains <- MCChains
    Old <- nOld
    New <- nNew
    Other <- nOther
    ListNodesFlaky = FALSE
    LateRegister = FALSE
    DupCreateIsError = FALSE
    MaxFaults = 3
SPECIFICATION Spec
INVARIANT TypeOK
INVARIANT ReplaceComplete
PROPERTY RemoveOnlyOffline
PROPERTY EventuallyFinished
PROPERTY ImplementsAbstractReplace
