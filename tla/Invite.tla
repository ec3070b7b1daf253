------------------------------- MODULE Invite -------------------------------
(***************************************************************************)
(* The Invite of an organization's creator: its controller creates a user  *)
(* in the realm of the organization, unless there is one, and has Keycloak *)
(* send an e-mail.                                                         *)
(*                                                                         *)
(* What it finds in the AccountInfo and in Keycloak is not its own: the    *)
(* module that composes it says how these change, and counts the failures. *)
(***************************************************************************)

CONSTANT OrgClient    \* the client named like the realm

VARIABLES
  info,       \* read only: the AccountInfo as the operator's cache has it
  clients,    \* read only: the clients of the realm
  invite,     \* the object: does it exist, its Ready condition, is it queued
  user,       \* the creator's account in the realm, and how it came about
  inviteRun,  \* the reconcile
  abandoned   \* one failed after it created the user (only observed)

inviteVars == <<invite, user, inviteRun, abandoned>>

Waiting == [pc |-> "idle", known |-> FALSE]

InviteTypeOK ==
  /\ invite \in [exists : BOOLEAN, ready : BOOLEAN, queued : BOOLEAN]
  /\ user \in {"none", "self", "created", "mailed"}
  /\ inviteRun \in [pc : {"idle", "query", "client", "create", "mail", "persist"},
                    known : BOOLEAN]
  /\ abandoned \in BOOLEAN

InviteInit ==
  /\ invite = [exists |-> FALSE, ready |-> FALSE, queued |-> FALSE]
  /\ user = "none" /\ inviteRun = Waiting /\ abandoned = FALSE

\* CreateOrUpdate by the initializer; the address of the creator never changes.
EnsureInvite ==
  /\ invite' = IF invite.exists THEN invite
                                ELSE [invite EXCEPT !.exists = TRUE, !.queued = TRUE]
  /\ UNCHANGED <<user, inviteRun, abandoned>>

\* The creator registers before he is invited.
SignUp ==
  /\ user = "none" /\ OrgClient \in clients
  /\ user' = "self"
  /\ UNCHANGED <<invite, inviteRun, abandoned>>

----------------------------------------------------------------------------
GoOn(pc) ==
  /\ inviteRun' = [inviteRun EXCEPT !.pc = pc]
  /\ UNCHANGED <<invite, abandoned>>

\* An error or a requeue; the condition says so.
Retry ==
  /\ inviteRun' = Waiting
  /\ invite' = [invite EXCEPT !.ready = FALSE, !.queued = TRUE]

BeginInvite ==
  /\ invite.queued /\ inviteRun.pc = "idle"
  /\ invite' = [invite EXCEPT !.queued = FALSE]
  /\ inviteRun' = [pc |-> "query", known |-> OrgClient \in info.clients]
  /\ UNCHANGED <<user, abandoned>>

\* A user with this address is taken for invited.
QueryUsers ==
  /\ inviteRun.pc = "query"
  /\ \/ user # "none" /\ GoOn("persist")
     \/ user = "none" /\ inviteRun.known /\ GoOn("client")
     \/ user = "none" /\ ~ inviteRun.known /\ Retry /\ UNCHANGED abandoned
  /\ UNCHANGED user

VerifyClient ==
  /\ inviteRun.pc = "client"
  /\ IF OrgClient \in clients THEN GoOn("create") ELSE Retry /\ UNCHANGED abandoned
  /\ UNCHANGED user

\* Mutant: the reconcile succeeds once the user is created.
CreateUserOnly ==
  /\ inviteRun.pc = "create"
  /\ \/ user = "none" /\ user' = "created" /\ GoOn("persist")
     \/ user # "none" /\ Retry /\ UNCHANGED <<user, abandoned>>

\* Keycloak refuses an address it knows.
CreateUser ==
  /\ inviteRun.pc = "create"
  /\ \/ user = "none" /\ user' = "created" /\ GoOn("mail")
     \/ user # "none" /\ Retry /\ UNCHANGED <<user, abandoned>>

SendMail ==
  /\ inviteRun.pc = "mail"
  /\ user' = "mailed"
  /\ GoOn("persist")

PersistInvite ==
  /\ inviteRun.pc = "persist"
  /\ invite' = [invite EXCEPT !.ready = TRUE]
  /\ inviteRun' = Waiting
  /\ UNCHANGED <<user, abandoned>>

InviteStep ==
  \/ BeginInvite \/ QueryUsers \/ VerifyClient \/ CreateUser \/ SendMail \/ PersistInvite

Abandon ==
  /\ abandoned' = (abandoned \/ inviteRun.pc = "mail")
  /\ UNCHANGED user

\* A call that fails.
BreakInvite == inviteRun.pc # "idle" /\ Retry /\ Abandon

\* The end of the process; the next one finds the object.
RestartInvite ==
  /\ inviteRun' = Waiting
  /\ invite' = [invite EXCEPT !.queued = invite.exists]
  /\ Abandon
=============================================================================
