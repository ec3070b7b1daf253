--------------------------- MODULE MCOrganization ---------------------------
(* One client of the organization and one of a user: the second client of the *)
(* organization, kubectl, goes the way of the first.                          *)
EXTENDS Organization
=============================================================================
