------------------------- MODULE MCIdentityProvider -------------------------
(* Two clients and two secrets, and specs that add and drop a client, rename *)
(* one that keeps its secret, and move one to another secret.                *)
EXTENDS IdentityProvider_refines

Clients(a, b) == [n \in Names |-> IF n = "a" THEN a ELSE b]

MCSpecs == {Clients("s1", NoSecret), Clients("s2", NoSecret), Clients(NoSecret, "s1"),
            Clients("s1", "s2")}

MCAddDrop == {Clients(NoSecret, "s2"), Clients("s1", "s2")}
=============================================================================
