--------------------------- MODULE AbstractReplace ---------------------------
(***************************************************************************)
(* What a replace request promises, chain by chain (spec 4.5 and 5): the   *)
(* request records the chains that hold a replica on the old node; a       *)
(* recorded chain gives up that replica only once it is offline (or the    *)
(* request is forced), and only then is the new node's replica attached;   *)
(* the request is Finished only when every recorded chain holds the new    *)
(* replica, serving, and not the old one.  Several chains may change in    *)
(* one step, as one admin_cli loop changes them.  ChainReplace is shown to *)
(* implement this module through a refinement mapping.                     *)
(***************************************************************************)
CONSTANT Chains

VARIABLES
    phase,       \* "", "Processing", "Finished"
    force,       \* the request's force flag
    working,     \* the recorded chains
    holdsOld,    \* chains that hold the old node's replica
    holdsNew,    \* chains that hold the new node's replica
    serving,     \* chains whose new replica serves
    oldOffline   \* chains whose old replica is offline

vars == <<phase, force, working, holdsOld, holdsNew, serving, oldOffline>>

Init ==
    /\ phase = "" /\ force \in BOOLEAN /\ working = {}
    /\ holdsOld = Chains /\ holdsNew = {} /\ serving = {}
    /\ oldOffline \in SUBSET Chains

Begin ==
    /\ phase = "" /\ phase' = "Processing"
    /\ UNCHANGED <<force, working, holdsOld, holdsNew, serving, oldOffline>>

\* The working set is the chains that hold the old replica when recorded.
Record ==
    /\ phase = "Processing"
    /\ working' = holdsOld
    /\ UNCHANGED <<phase, force, holdsOld, holdsNew, serving, oldOffline>>

\* The old node's replica goes offline (the request asked, or the node died).
TakeOffline(c) ==
    /\ c \notin oldOffline
    /\ oldOffline' = oldOffline \cup {c}
    /\ UNCHANGED <<phase, force, working, holdsOld, holdsNew, serving>>

\* Break: recorded chains drop their offline (or forced) old replicas.
Detach(S) ==
    /\ phase = "Processing"
    /\ S \subseteq working \cap holdsOld
    /\ force \/ S \subseteq oldOffline
    /\ holdsOld' = holdsOld \ S
    /\ UNCHANGED <<phase, force, working, holdsNew, serving, oldOffline>>

\* Make: recorded chains that gave up the old replica take the new one.
Attach(S) ==
    /\ phase = "Processing"
    /\ S \subseteq (working \ holdsOld) \ holdsNew
    /\ holdsNew' = holdsNew \cup S
    /\ UNCHANGED <<phase, force, working, holdsOld, serving, oldOffline>>

\* An attached new replica finishes syncing.
Serve(c) ==
    /\ c \in holdsNew \ serving
    /\ serving' = serving \cup {c}
    /\ UNCHANGED <<phase, force, working, holdsOld, holdsNew, oldOffline>>

Finish ==
    /\ phase = "Processing"
    /\ working \cap holdsOld = {}
    /\ working \subseteq holdsNew \cap serving
    /\ phase' = "Finished"
    /\ UNCHANGED <<force, working, holdsOld, holdsNew, serving, oldOffline>>

Next ==
    \/ Begin \/ Record \/ Finish
    \/ \E S \in SUBSET Chains : Detach(S) \/ Attach(S)
    \/ \E c \in Chains : TakeOffline(c) \/ Serve(c)

Spec == Init /\ [][Next]_vars

=============================================================================
