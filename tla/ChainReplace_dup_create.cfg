\* create-target of an existing target prints an error; one fault may hit a pass.
CONSTANTS
    c1 = c1
    c2 = c2
    nOld = nOld
    nNew = nNew
    nOther = nOther
    Chains <- MCChains
    Old <- nOld
    New <- nNew
    Other <- nOther
    ListNodesFlaky = FALSE
    DupCreateIsError = TRUE
    LateRegister = FALSE
    MaxFaults = 1
SPECIFICATION Spec
PROPERTY EventuallyFinished
