\* Replace under every fault the code meets: failing list-nodes lookups, a
\* new node that registers late, failing admin calls and status patches.
\* Only the removal guard is checked: completion does not hold here.
CONSTANTS
    c1 = c1
    c2 = c2
    nOld = nOld
    nNew = nNew
    nOther = nOther
    Chains <- MCChains
    Old <- nOld
    New <- nNew
    Other <- nOther
    ListNodesFlaky = TRUE
    LateRegister = TRUE
    DupCreateIsError = FALSE
    MaxFaults = 2
SPECIFICATION Spec
SYMMETRY ChainSymmetry
PROPERTY RemoveOnlyOffline
