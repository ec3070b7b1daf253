--------------------------- MODULE MCStoreIDCache ---------------------------
(* Callers and names are interchangeable: no property tells them apart. *)
EXTENDS StoreIDCache, TLC

Interchangeable == Permutations(Callers) \cup Permutations(Names)
=============================================================================
