----------------------------- MODULE MCProvider -----------------------------
(* Instances of ProviderFallback. *)
EXTENDS ProviderFallback

CONSTANTS c1, c2
=============================================================================
