SPECIFICATION Spec
INVARIANT TypeOK
INVARIANT MergeNoCollision
INVARIANT ReplacementOnSameDisk
