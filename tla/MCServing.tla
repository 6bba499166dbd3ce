------------------------------- MODULE MCServing -------------------------------
(***************************************************************************)
(* Instances of Serving for TLC: a host with a backend of its own, one that*)
(* only a wildcard names, and one that nothing does.                       *)
(***************************************************************************)
EXTENDS Serving

MCHosts == {<<"git", "example">>, <<"www", "example">>, <<"localhost:80">>}
MCBackends == {<<"git", "example">>, <<"*", "example">>}
=============================================================================
