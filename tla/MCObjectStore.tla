--------------------------- MODULE MCObjectStore ---------------------------
(* Small instances of ObjectStore for TLC.                                  *)
EXTENDS ObjectStore
============================================================================
