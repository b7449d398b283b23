--------------------------- MODULE MC_ChainIdMerge ---------------------------
EXTENDS ChainIdMerge

\* Chain ids of the form 1 ddd iiiii, as the spec's sample 100000001.
MCPrefix == 1
MCDisks == {0, 1}
MCLiveIdx == {1, 2, 3}
\* A fragment numbered from 0, as in the spec's merge example.
MCFragIdx0 == {0, 1}
=============================================================================
