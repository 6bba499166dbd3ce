------------------------------- MODULE MCLookups -------------------------------
(***************************************************************************)
(* An instance of Lookups for TLC: two addresses in countries, one the     *)
(* database knows nothing of, and one it cannot read.                      *)
(***************************************************************************)
EXTENDS Lookups

MCAddresses == {"at", "de", "nowhere", "bad"}
MCCountry == [a \in MCAddresses |-> CASE a = "at" -> "AT" [] a = "de" -> "DE" [] OTHER -> ""]
=============================================================================
