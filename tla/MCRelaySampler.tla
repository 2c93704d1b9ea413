--------------------------- MODULE MCRelaySampler ---------------------------
(* Model-checking instance of RelaySampler; the constants are in the cfgs. *)
EXTENDS RelaySampler
=============================================================================
