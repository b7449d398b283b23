--------------------------- MODULE MC_ChainReplace ---------------------------
(* Model-checking instance of ChainReplace: two chains, each with one      *)
(* replica on the old node and one on another node.                        *)
EXTENDS ChainReplace, TLC

CONSTANTS c1, c2, nOld, nNew, nOther

MCChains == {c1, c2}

\* Chains are interchangeable: the initial table treats them alike.
ChainSymmetry == Permutations(MCChains)
=============================================================================
