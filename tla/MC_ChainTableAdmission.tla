----------------------- MODULE MC_ChainTableAdmission -----------------------
(***************************************************************************)
(* Requests over storage hosts a, b, c and backup nodes d, e, f, g (g has *)
(* the fault label): two replaces that both want d, a create of d, e, f,   *)
(* a delete request and one of an unknown type.  Cluster: replica 3, two  *)
(* target paths, one target per disk, stripe size 2.                       *)
(***************************************************************************)
EXTENDS ChainTableAdmission, TLC

CONSTANTS a, b, c, d, e, f, g, r1, r2, r3, r4, r5

MCRequests == {r1, r2, r3, r4, r5}
MCType == (r1 :> "replace" @@ r2 :> "replace" @@ r3 :> "create"
           @@ r4 :> "delete" @@ r5 :> "other")
MCOldNode == (r1 :> {a} @@ r2 :> {b} @@ r3 :> {} @@ r4 :> {c} @@ r5 :> {})
MCNewNode == (r1 :> {d} @@ r2 :> {d} @@ r3 :> {d, e, f} @@ r4 :> {} @@ r5 :> {})
MCBackupNodes == {d, e, f, g}
MCFaultNodes == {g}
MCInitStorage == {a, b, c}

=============================================================================
