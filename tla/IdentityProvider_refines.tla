---------------------- MODULE IdentityProvider_refines ----------------------
(***************************************************************************)
(* IdentityProvider implements Provisioning: the clients of the spec are   *)
(* what is wanted, those with an id in status.managedClients are recorded, *)
(* and a client is granted when Keycloak has it, under its name, with the  *)
(* id that the status gives.                                               *)
(***************************************************************************)
EXTENDS IdentityProvider

GrantedClients ==
  {n \in Names : Live(idp.status[n].id) /\ kc[idp.status[n].id].name = n}

Provided == [phase |-> idp.phase, wanted |-> Declared(idp.spec),
             recorded |-> Recorded(idp.status), granted |-> GrantedClients,
             bound |-> patient]

Promise == INSTANCE Provisioning WITH Things <- Names, obj <- Provided

\* To patient users the controller of identity providers keeps the promise of
\* Provisioning: a client that spec and status agree on is in Keycloak under the
\* id of the status, and stays while both have it. That in the end the status has
\* all clients of the spec is part of ClientsConverge
\* (internal/subroutine/idp/subroutine.go).
IdpProvides == Promise!Spec
=============================================================================
