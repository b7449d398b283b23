CONSTANTS
    Prefix <- MCPrefix
    Disks <- MCDisks
    LiveIdx <- MCLiveIdx
    FragIdx <- MCFragIdx0
SPECIFICATION Spec
INVARIANT MergeNoCollision
