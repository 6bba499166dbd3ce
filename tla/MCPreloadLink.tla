----------------------------- MODULE MCPreloadLink -----------------------------
(***************************************************************************)
(* Instances of Awaiter and PreloadLink for TLC.                           *)
(***************************************************************************)
EXTENDS PreloadLink

LinkSolvers == Handlers \X {1, 2}
=============================================================================
