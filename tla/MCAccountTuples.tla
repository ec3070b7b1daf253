-------------------------- MODULE MCAccountTuples --------------------------
(* Two accounts and two workspaces: an account is deleted and created again, *)
(* or lives next to another one of the same organization.                    *)
EXTENDS AccountTuples
=============================================================================
