--------------------------- MODULE MCExportPolicy ---------------------------
(* Two organizations, the first with an account in it, and specs that        *)
(* overlap: root:orgs:* and org1:* stand for the same tuple of org1.         *)
EXTENDS ExportPolicy

MCOrgOf == [a \in Accounts |-> IF a = "org2" THEN "org2" ELSE "org1"]

AllOrgs == [path |-> RootOrgs, star |-> TRUE]
InOrg1  == [path |-> "org1", star |-> TRUE]
Org1    == [path |-> "org1", star |-> FALSE]
InSub   == [path |-> "org1:sub", star |-> TRUE]
Bad     == [path |-> Outside, star |-> TRUE]

MCSpecs == {{AllOrgs}, {InOrg1}, {AllOrgs, InSub}, {InOrg1, Org1}, {AllOrgs, InOrg1}, {InOrg1, Bad}}

\* Patient users make more edits, the others fewer.
MCMaxEdits  == [p \in BOOLEAN |-> IF p THEN 5 ELSE 4]
MCMaxFaults == [p \in BOOLEAN |-> 1]
=============================================================================
