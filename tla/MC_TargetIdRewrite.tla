------------------------- MODULE MC_TargetIdRewrite -------------------------
EXTENDS TargetIdRewrite

\* A cluster grown past 100 storage nodes.
MCNodeIdsLarge == {10001, 10100, 10101, 10102}
MCDiskIdx == {1, 3}
MCSlots == {1, 19}
=============================================================================
