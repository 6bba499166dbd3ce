------------------------------- MODULE Lookups -------------------------------
(***************************************************************************)
(* What requests look up while they are handled: the country conditions of *)
(* rules (GeoIPCache) and the block list or page tags (DecayMap), one      *)
(* after the other in a request, side by side among requests.  They share  *)
(* the process: a fatal error in one cache ends the other.                 *)
(***************************************************************************)
EXTENDS DecayMap, GeoIPCache

ASSUME CallersAssumption == Callers = Visitors

LookupsInit == Init /\ GeoInit

\* A rule's condition, RuleState.Evaluate.
Condition(p) == ~dead /\ pc[p] = "idle" /\ Evaluate(p) /\ UNCHANGED vars

\* The dnsbl challenge, or a page with the backend's tags.
Cached(p) ==
    /\ ~dead /\ step[p] = "idle"
    /\ (\E k \in Keys : GetRead(p, k)) \/ GetCheck(p) \/ GetDelete(p) \/ Fetch(p) \/ Set(p)
    /\ UNCHANGED geoVars

Sweep == ~dead /\ Decay /\ UNCHANGED geoVars
End == ~dead /\ Close /\ UNCHANGED geoVars
Clock == ~dead /\ Tick /\ UNCHANGED geoVars

\* All goroutines end with the process, the sweeping one too.
Crash ==
    /\ ~dead /\ Fault
    /\ closed' = TRUE
    /\ UNCHANGED <<now, data, pc, key, entry, remembered, promised>>

LookupsNext ==
    \/ \E p \in Callers : Condition(p) \/ Cached(p)
    \/ Sweep \/ End \/ Clock \/ Crash

\* The ticker ticks for as long as it is not stopped.
LookupsSpec ==
    LookupsInit /\ [][LookupsNext]_<<vars, geoVars>> /\ WF_<<vars, geoVars>>(Sweep)
=============================================================================
