--------------------------- MODULE MCFxResilience ----------------------------
(***************************************************************************)
(* Instances of FxResilience for TLC: two callers of two quoted pairs, one *)
(* of them at both providers, and one pair the feed does not have.         *)
(***************************************************************************)
EXTENDS FxResilience

CONSTANTS c1, c2, USDNGN, USDGHS, USDXXX
=============================================================================
