-------------------------- MODULE MCExternalEffect --------------------------
(* Two effects of one ledger, or one effect with two competing payloads.    *)
EXTENDS ExternalEffect, TLC

EffectSymmetry == Permutations(Effects) \cup Permutations(Payloads)
=============================================================================
