--------------------------- MODULE MC_Identifiers ---------------------------
(***************************************************************************)
(* The two addressing schemes of the chain table checked in one model:    *)
(* the chain-id renumbering of a merged fragment (ChainIdMerge) and the   *)
(* target-id rewrite of a replace (TargetIdRewrite).  They share no state  *)
(* and interleave freely; each keeps its own bounds.                      *)
(***************************************************************************)
EXTENDS Naturals

VARIABLES live, listOut, fragment, chainsOut, tableOut, targetsOut, merged,
          oldId, newId, targetId, added, diskArg

\* Chain ids of the form 1 ddd iiiii, as the spec's sample 100000001, on two
\* disks; a live table from {1, 3} leaves gaps and a disk may be absent.
Merge == INSTANCE ChainIdMerge
           WITH Prefix <- 1, Disks <- {0, 1}, LiveIdx <- {1, 3}, FragIdx <- {1, 2}

\* Node ids from 10001 on, with ids whose digits repeat the prefix (10010)
\* or another id's digits (10001, 10011); two disks and two slots.
Rewrite == INSTANCE TargetIdRewrite
             WITH NodeIds <- {10001, 10002, 10010, 10011, 10020},
                  DiskIdx <- {1, 3}, Slots <- {1, 19}

mergeVars == <<live, listOut, fragment, chainsOut, tableOut, targetsOut, merged>>
rewriteVars == <<oldId, newId, targetId, added, diskArg>>

Init == Merge!Init /\ Rewrite!Init

Next == \/ Merge!Next /\ UNCHANGED rewriteVars
        \/ Rewrite!Next /\ UNCHANGED mergeVars

Spec == Init /\ [][Next]_<<mergeVars, rewriteVars>>

\* ChainIdMerge's type invariant.
TypeOK == Merge!TypeOK

\* After UpdateChainIdWithExistingChain no renumbered chain id collides with a
\* live or another renumbered one, keeps its disk, and the three files agree.
MergeNoCollision == Merge!MergeNoCollision

\* The target AddTargetRelatedNode adds and CreateTargetTmpFile creates is
\* the old target moved to the new node, on the same disk and slot.
ReplacementOnSameDisk == Rewrite!ReplacementOnSameDisk

=============================================================================
