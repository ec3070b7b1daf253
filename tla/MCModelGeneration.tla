------------------------- MODULE MCModelGeneration -------------------------
(* Two bindings of an export with two schemas in a workspace of one          *)
(* organization, one in another organization, and one of an internal export. *)
(* For CapGroup, all names of up to five of two letters, of which a relation *)
(* may have twelve: eight are taken by create_ and _.                        *)
EXTENDS ModelGeneration, CapGroup

\* What ModelGeneration_proofs proves for all names.
ASSUME CapsOfSmallNames == CapsAgreeAndFit

\* The instance meets the conditions of the theorems on models.
ASSUME OrdinaryBindings == ExemptAreInternal /\ SchemasApart

MCWorkspaceOf == [b \in Bindings |-> IF b = "c" THEN "w2" ELSE "w1"]
MCOrgOf       == [w \in Workspaces |-> IF w = "w1" THEN "org1" ELSE "org2"]
MCExportOf    == [b \in Bindings |-> IF b = "kcp.io" THEN "tenancy.kcp.io" ELSE "wildwest"]
MCSchemasOf   == [e \in {"wildwest", "tenancy.kcp.io"} |->
                    IF e = "wildwest" THEN {"cowboys", "horses"} ELSE {"accounts"}]

MCNames == UNION {[1 .. n -> Letters] : n \in 0 .. 5}
MCCore  == <<"x", "y", "x", "y">>

MCMaxFaults == [p \in BOOLEAN |-> IF p THEN 1 ELSE 0]
MCNoFaults  == [p \in BOOLEAN |-> 0]
=============================================================================
