---------------------------- MODULE ChainIdMerge ----------------------------
(***************************************************************************)
(* Renumbering of a generated chain-table fragment into the live chain-id *)
(* space (internal/controller/tfsct_resources.go, lines 636-854).          *)
(*                                                                         *)
(* A chain id is decimal: the low 5 digits are the chain index, the next 3 *)
(* the disk index, the rest a prefix.  ParseMaxChainIdForEachDisk parses  *)
(* the list-chains output (ChainTableParse) and keeps the largest chain    *)
(* index per disk; the three                                               *)
(* fragment files (chains, chain table, create-target lines) then have     *)
(* every chain id rewritten to id + max[disk].  One step of the model      *)
(* reads a live table and a fragment and performs the whole merge; the     *)
(* files are abstracted to the chain ids they carry, in file order being   *)
(* irrelevant to the properties.                                           *)
(***************************************************************************)
EXTENDS Naturals, FiniteSets, ChainTableParse, SequencesExt

CONSTANTS
    Prefix,     \* the chain-id prefix above the disk digits
    Disks,      \* disk indexes that occur
    LiveIdx,    \* chain indexes that may occur in the live table
    FragIdx     \* chain indexes the placement generator may number a fragment with

ChainIdxBase == 100000   \* chainId % 100000 is the chain index
DiskIdxBase  == 1000     \* (chainId / 100000) % 1000 is the disk index

ASSUME Prefix \in Nat /\ Disks \subseteq 0..(DiskIdxBase - 1)
ASSUME LiveIdx \subseteq 0..(ChainIdxBase - 1) /\ FragIdx \subseteq 0..(ChainIdxBase - 1)

ChainIdOf(d, i) == (Prefix * DiskIdxBase + d) * ChainIdxBase + i

LiveIds == {ChainIdOf(d, i) : d \in Disks, i \in LiveIdx}
FragIds == {ChainIdOf(d, i) : d \in Disks, i \in FragIdx}

(***************************************************************************)
(* list-chains output for the live chain ids: a header, one line per chain *)
(* in id order (its targets are irrelevant here), a trailing "" after the  *)
(* last "\n", and possibly a diagnostic line or an empty line after the    *)
(* header.                                                                 *)
(***************************************************************************)
Header == <<Word("ChainId"), Word("ReferencedBy"), Word("ChainVersion"),
            Word("Status"), Word("PreferredOrder"), Word("Target")>>
ChainLine(x) == <<Num(x), Word("-"), Num(1), Word("SERVING"), Word("-"),
                  TargetField(1, "SERVING-UPTODATE")>>
Diagnostic == <<Word("WARNING:"), Word("Long"), Word("delay"), Word("(Ctrl-C"),
                Word("to"), Word("interrupt)")>>
ListChainsOutputs(ids) ==
    LET sorted == SetToSortSeq(ids, <)
        body == [n \in 1..Len(sorted) |-> ChainLine(sorted[n])]
    IN {<<Header>> \o extra \o body \o <<<<>>>> :
          extra \in {<<>>, <<Diagnostic>>, <<<<>>>>}}

VARIABLES
    live,        \* chain ids list-chains reports
    listOut,     \* its output
    fragment,    \* chain ids of the generated fragment (same in its three files)
    chainsOut,   \* rewritten chains file: original id -> new id
    tableOut,    \* rewritten chain-table file
    targetsOut,  \* rewritten create-target file (its --chain-id arguments)
    merged       \* the merge has run

vars == <<live, listOut, fragment, chainsOut, tableOut, targetsOut, merged>>

(***************************************************************************)
(* ParseChainId: (chain index, disk index).                                *)
(***************************************************************************)
ParseChainId(id) == <<id % ChainIdxBase, (id \div ChainIdxBase) % DiskIdxBase>>

(***************************************************************************)
(* ParseMaxChainIdForEachDisk: for every disk of the parsed chains the    *)
(* largest chain index (the map entry starts at 0).                        *)
(***************************************************************************)
ParseMaxChainIdForEachDisk(chains) ==
    LET ids == {chains[n].ChainId.v : n \in DOMAIN chains}
        disks == {ParseChainId(x)[2] : x \in ids}
        idx(d) == {ParseChainId(x)[1] : x \in {y \in ids : ParseChainId(y)[2] = d}}
    IN [d \in disks |-> CHOOSE m \in idx(d) \cup {0} :
                           \A j \in idx(d) \cup {0} : j <= m]

\* maps[diskIdx] in Go: the zero value for a disk the map lacks.
Lookup(maps, d) == IF d \in DOMAIN maps THEN maps[d] ELSE 0

\* Plausible faults of the rewriting loops, used as mutants: a loop started
\* one row late (the header skip done twice), and a target line whose
\* --chain-id is left as generated.
FirstRow(ids) == CHOOSE x \in ids : \A y \in ids : x <= y
UpdateChainFileSkipRow(ids, maps) ==
    [x \in ids \ {FirstRow(ids)} |-> x + Lookup(maps, ParseChainId(x)[2])]
UpdateTargetFileUnchanged(ids, maps) == [x \in ids |-> x]

\* UpdateChainFile / UpdateChainTableFile: records[i][0] = num + maps[diskIdx].
UpdateChainFile(ids, maps) ==
    [x \in ids |-> x + Lookup(maps, ParseChainId(x)[2])]

UpdateChainTableFile(ids, maps) ==
    [x \in ids |-> x + Lookup(maps, ParseChainId(x)[2])]

\* UpdateTargetFile: the number after --chain-id becomes chainID + maps[diskIdx].
UpdateTargetFile(ids, maps) ==
    [x \in ids |-> x + Lookup(maps, ParseChainId(x)[2])]

TypeOK ==
    /\ live \subseteq LiveIds /\ fragment \subseteq FragIds
    /\ merged \in BOOLEAN
    /\ \A f \in {chainsOut, tableOut, targetsOut} :
          merged => f \in [fragment -> Nat]

Init ==
    /\ live \in SUBSET LiveIds
    /\ listOut \in ListChainsOutputs(live)
    /\ fragment \in (SUBSET FragIds) \ {{}}
    /\ chainsOut = <<>> /\ tableOut = <<>> /\ targetsOut = <<>>
    /\ merged = FALSE

\* UpdateChainIdWithExistingChain after ParseMaxChainIdForEachDisk.
UpdateChainIdWithExistingChain ==
    /\ ~merged
    /\ LET maps == ParseMaxChainIdForEachDisk(ParseChainTable(listOut))
       IN /\ targetsOut' = UpdateTargetFile(fragment, maps)
          /\ chainsOut'  = UpdateChainFile(fragment, maps)
          /\ tableOut'   = UpdateChainTableFile(fragment, maps)
    /\ merged' = TRUE
    /\ UNCHANGED <<live, listOut, fragment>>

Next == UpdateChainIdWithExistingChain \/ (merged /\ UNCHANGED vars)

Spec == Init /\ [][Next]_vars

(***************************************************************************)
(* Properties.                                                             *)
(***************************************************************************)
NewIds == {chainsOut[x] : x \in fragment}

\* After UpdateChainIdWithExistingChain no renumbered chain id collides with a
\* live chain id or with another renumbered one, each keeps its disk index,
\* and the chains, chain-table and target files name every chain by the same
\* new id (spec 3 and 8: chain indexes of a disk stay disjoint across merges).
MergeNoCollision ==
    merged =>
        /\ NewIds \cap live = {}
        /\ Cardinality(NewIds) = Cardinality(fragment)
        /\ \A x \in fragment :
              /\ ParseChainId(chainsOut[x])[2] = ParseChainId(x)[2]
              /\ tableOut[x] = chainsOut[x] /\ targetsOut[x] = chainsOut[x]

=============================================================================
