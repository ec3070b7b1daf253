---------------------------- MODULE Provisioning ----------------------------
(***************************************************************************)
(* What a controller promises to whoever creates one of its objects and    *)
(* then watches the status: the things the spec asks for are provided in   *)
(* an outside system, and the status records those that are.               *)
(*                                                                         *)
(* The Store controller provides relationship tuples in OpenFGA and the    *)
(* IdentityProviderConfiguration controller OIDC clients in Keycloak; both *)
(* implement this specification.  The initializer of an organization knows *)
(* no more of them than what is said here.                                 *)
(***************************************************************************)

CONSTANT Things   \* what may be asked for: tuples, clients

VARIABLE obj      \* the object, and what is granted to it

(* The fields of obj:                                                      *)
(*   wanted    what the spec asks for                                      *)
(*   recorded  what the status says is provided                            *)
(*   granted   what the outside system has                                 *)
(*   bound     the users have waited so far: only then anything is promised *)
Objects == [phase : {"absent", "live", "deleting"}, wanted : SUBSET Things,
            recorded : SUBSET Things, granted : SUBSET Things, bound : BOOLEAN]

Init ==
  /\ obj \in Objects
  /\ obj.phase = "absent" /\ obj.wanted = {} /\ obj.recorded = {} /\ obj.granted = {}

Settled == obj.recorded = obj.wanted

----------------------------------------------------------------------------
\* A user creates the object, or edits its spec.
Ask(wanted) ==
  /\ obj.phase \in {"absent", "live"}
  /\ obj' = [obj EXCEPT !.phase = "live", !.wanted = wanted,
                        !.bound = @ /\ (obj.phase = "live" => Settled)]

Delete ==
  /\ obj.phase = "live"
  /\ obj' = [obj EXCEPT !.phase = "deleting", !.bound = @ /\ Settled]

\* What must be true of an object whenever its users have waited: what the spec
\* asks for and the status records is there.
Kept(recorded, granted) == obj.wanted \cap recorded \subseteq granted

\* The controller works, or reports.  It does not take away or forget what is
\* wanted and recorded, and neither grants nor records what was never asked for.
Serve(recorded, granted) ==
  /\ obj.phase # "absent"
  /\ obj.bound =>
       /\ obj.phase = "live" => /\ Kept(recorded, granted)
                                /\ obj.wanted \cap obj.recorded \subseteq recorded
       /\ recorded \subseteq obj.recorded \cup obj.wanted
       /\ granted \subseteq obj.granted \cup obj.recorded \cup obj.wanted
  /\ obj' = [obj EXCEPT !.recorded = recorded, !.granted = granted]

Vanish ==
  /\ obj.phase = "deleting"
  /\ \E bound \in BOOLEAN :
        obj' = [phase |-> "absent", wanted |-> {}, recorded |-> {}, granted |-> {},
                bound |-> obj.bound /\ bound]

Next ==
  \/ \E wanted \in SUBSET Things : Ask(wanted)
  \/ Delete
  \/ \E recorded, granted \in SUBSET Things : Serve(recorded, granted)
  \/ Vanish

Spec == Init /\ [][Next]_obj

\* Once the users stop, the status of a live object records what is wanted.
Progress == <>[](obj.bound /\ obj.phase = "live" => Settled)

----------------------------------------------------------------------------
\* What a status records and a spec still asks for is there, as long as users
\* wait for one reconcile to succeed before they edit again.  This is what the
\* initializer of an organization concludes from a status
\* (internal/subroutine/workspace_initializer.go, internal/subroutine/idp.go).
RecordedIsGranted ==
  obj.bound /\ obj.phase = "live" => Kept(obj.recorded, obj.granted)
=============================================================================
