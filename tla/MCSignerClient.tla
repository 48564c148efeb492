--------------------------- MODULE MCSignerClient ---------------------------
(* Two loads, two submits and two captures at once; two drawings.           *)
EXTENDS SignerClient
=============================================================================
