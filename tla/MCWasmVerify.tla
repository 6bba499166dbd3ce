----------------------------- MODULE MCWasmVerify -----------------------------
(***************************************************************************)
(* Instances of WasmVerify for TLC.                                        *)
(***************************************************************************)
EXTENDS WasmVerify, TLC

Symmetry == Permutations(Verifiers) \cup Permutations(Makers)
=============================================================================
