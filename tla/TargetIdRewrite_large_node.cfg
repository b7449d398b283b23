CONSTANTS
    NodeIds <- MCNodeIdsLarge
    DiskIdx <- MCDiskIdx
    Slots <- MCSlots
SPECIFICATION Spec
INVARIANT ReplacementOnSameDisk
