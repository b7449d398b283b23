--------------------------- MODULE TargetIdRewrite ---------------------------
(***************************************************************************)
(* Target ids and the node-id arithmetic on them (tfsct_resources.go).     *)
(*                                                                         *)
(* A target id is a fixed-format decimal string: a 2-digit prefix, the    *)
(* 5-digit storage node id, the 3-digit 1-based disk index and a 2-digit  *)
(* slot, e.g. 101000300319 (node 10003, disk 3, slot 19).  The code:       *)
(*  - decides which node a target is on by comparing id[2:7] with          *)
(*    strconv.Itoa(nodeId);                                                *)
(*  - derives the replacement target of a replace request with             *)
(*    strings.Replace(targetId, Itoa(oldId), Itoa(newId), 1), in           *)
(*    AddTargetRelatedNode and again in CreateTargetTmpFile, which also    *)
(*    reads the disk index from id[7:10].                                  *)
(* Strings are sequences of digits.  One step rewrites one target id of   *)
(* the old node, as both functions do for every recorded pair.             *)
(***************************************************************************)
EXTENDS Naturals, Sequences, SequencesExt

CONSTANTS
    NodeIds,   \* storage node ids list-nodes may report
    DiskIdx,   \* 1-based disk indexes
    Slots      \* target slots on a disk

TargetIdPrefix == <<1, 0>>

\* The decimal digits of n, zero-padded to width w (fmt "%0*d").
RECURSIVE Pow10(_)
Pow10(k) == IF k = 0 THEN 1 ELSE 10 * Pow10(k - 1)
Pad(n, w) == [i \in 1..w |-> (n \div Pow10(w - i)) % 10]

\* strconv.Itoa: the decimal digits of n without leading zeros.
RECURSIVE Itoa(_)
Itoa(n) == IF n < 10 THEN <<n>> ELSE Itoa(n \div 10) \o <<n % 10>>

\* strconv.Atoi on a digit string.
RECURSIVE Atoi(_)
Atoi(s) == IF s = <<>> THEN 0 ELSE Atoi(SubSeq(s, 1, Len(s) - 1)) * 10 + s[Len(s)]

\* The id the placement generator gives the target of node n, disk d, slot k.
TargetIdOf(n, d, k) == TargetIdPrefix \o Pad(n, 5) \o Pad(d, 3) \o Pad(k, 2)

\* target.TargetId[2:7] == strconv.Itoa(nodeId), the node filter of
\* GetChainTablesWithNode, HandleProcessChains and the step helpers.
OnNodeId(tid, nodeId) == SubSeq(tid, 3, 7) = Itoa(nodeId)

\* newTargetId := strings.Replace(targetId, Itoa(oldId), Itoa(newId), 1)
NewTargetId(tid, oldId, newId) == ReplaceFirstSubSeq(Itoa(newId), Itoa(oldId), tid)

\* Mutant: the 1-based disk field passed on unconverted.
CreateTargetDiskIndexOneBased(tid) == Atoi(SubSeq(tid, 8, 10))

\* CreateTargetTmpFile: --disk-index is Atoi(newTargetId[7:10]) - 1.
CreateTargetDiskIndex(tid) == Atoi(SubSeq(tid, 8, 10)) - 1

VARIABLES
    oldId,      \* resolved id of spec.oldNode[0]
    newId,      \* resolved id of spec.newNode[0]
    targetId,   \* a target of the old node in a recorded chain
    added,      \* the target id update-chain --mode add was given
    diskArg     \* the --disk-index of its create-target line

vars == <<oldId, newId, targetId, added, diskArg>>

Init ==
    /\ \E o, n \in NodeIds, d \in DiskIdx, k \in Slots :
          /\ o # n
          /\ oldId = o /\ newId = n
          /\ targetId = TargetIdOf(o, d, k)
    /\ added = <<>> /\ diskArg = 0

\* AddTargetRelatedNode and CreateTargetTmpFile for one recorded pair.
RewriteTarget ==
    /\ added = <<>>
    /\ OnNodeId(targetId, oldId)
    /\ added' = NewTargetId(targetId, oldId, newId)
    /\ diskArg' = CreateTargetDiskIndex(added')
    /\ UNCHANGED <<oldId, newId, targetId>>

Done == added # <<>> /\ UNCHANGED vars

Next == RewriteTarget \/ Done

Spec == Init /\ [][Next]_vars /\ WF_vars(RewriteTarget)

TypeOK ==
    /\ oldId \in NodeIds /\ newId \in NodeIds
    /\ targetId \in Seq(0..9) /\ added \in Seq(0..9)
    /\ diskArg \in Int

(***************************************************************************)
(* Properties.                                                             *)
(***************************************************************************)
\* The target added to a chain and created for the new node is the old
\* target moved to the new node: its node field is the new node's id and its
\* disk, slot and prefix are those of the old target, so the create-target
\* line names the same disk (0-based) the old target used.
ReplacementOnSameDisk ==
    added # <<>> =>
        /\ OnNodeId(added, newId)
        /\ SubSeq(added, 8, 12) = SubSeq(targetId, 8, 12)
        /\ SubSeq(added, 1, 2) = TargetIdPrefix
        /\ diskArg = Atoi(SubSeq(targetId, 8, 10)) - 1

=============================================================================
