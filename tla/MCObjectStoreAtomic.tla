------------------------- MODULE MCObjectStoreAtomic -------------------------
(* The instance of MCObjectStore with its abstraction. *)
EXTENDS MCObjectStore, ObjectStoreAtomic
=============================================================================
