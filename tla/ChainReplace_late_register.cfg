\* The new node registers with mgmtd only after the request has started.
CONSTANTS
    c1 = c1
    c2 = c2
    nOld = nOld
    nNew = nNew
    nOther = nOther
    Chains <- MCChains
    Old <- nOld
    New <- nNew
    Other <- nOther
    ListNodesFlaky = FALSE
    DupCreateIsError = FALSE
    LateRegister = TRUE
    MaxFaults = 0
SPECIFICATION Spec
INVARIANT ReplaceComplete
