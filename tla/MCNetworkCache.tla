---------------------------- MODULE MCNetworkCache ----------------------------
(***************************************************************************)
(* Instances of NetworkCache for TLC.                                      *)
(***************************************************************************)
EXTENDS NetworkCache, TLC

Symmetry == Permutations(Loads)

\* Routes of an AS, then a list of the policy itself.
ASNThenPrefixes == <<"asn", "direct">>
=============================================================================
