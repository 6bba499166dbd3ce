------------------------------- MODULE DecayMap -------------------------------
(***************************************************************************)
(* utils.DecayMap and the read-through caches built on it: the block list  *)
(* answers of lib/challenge/dnsbl (lookup) and the page tags of lib/http.go*)
(* (fetchTags).  A caller asks the map, fetches the value if the map has   *)
(* none, and stores it.  Get takes the map's lock twice, and reads the     *)
(* clock between the two; a ticker goroutine sweeps the map until Close.   *)
(***************************************************************************)
EXTENDS Integers

CONSTANTS
    Callers,    \* goroutines that look values up
    Keys,
    Values,
    Unstored,   \* fetched values that are not stored: nil tags; none for dnsbl
    TTL,        \* the ttl Set is called with
    MaxTime     \* bound on the clock

ASSUME UnstoredAssumption == Unstored \subseteq Values
ASSUME TTLAssumption == TTL \in Nat /\ MaxTime \in Nat

VARIABLES
    now,          \* time.Now()
    data,         \* data[k]: the entry of k, if any
    pc,           \* pc[p]: "idle", "read", "expired", "fetch" or "set"
    key,          \* key[p]: the key p looks up, if it does
    entry,        \* entry[p]: what Get read, or what p fetched and is about to store
    closed,       \* the ticker goroutine has ended
    remembered,   \* history: remembered[k], the expiry the latest Set of k promised; -1 before
    promised      \* history: promised[p], remembered[key] when p's Get read the map

vars == <<now, data, pc, key, entry, closed, remembered, promised>>

Entry == [value: Values, expiry: Nat]

\* time.Now().After(entry.expiry)
Expired(e) == now > e.expiry

Init ==
    /\ now = 0
    /\ data = [k \in Keys |-> {}]
    /\ pc = [p \in Callers |-> "idle"]
    /\ key = [p \in Callers |-> {}]
    /\ entry = [p \in Callers |-> {}]
    /\ closed = FALSE
    /\ remembered = [k \in Keys |-> -1]
    /\ promised = [p \in Callers |-> -1]

-----------------------------------------------------------------------------
\* The lookup is over, and the caller's local variables are gone.
Return(p) ==
    /\ pc' = [pc EXCEPT ![p] = "idle"]
    /\ key' = [key EXCEPT ![p] = {}]
    /\ entry' = [entry EXCEPT ![p] = {}]
    /\ promised' = [promised EXCEPT ![p] = -1]

\* Get, under RLock: read the entry; a missing one is a miss.
GetRead(p, k) ==
    /\ pc[p] = "idle"
    /\ key' = [key EXCEPT ![p] = {k}]
    /\ entry' = [entry EXCEPT ![p] = data[k]]
    /\ pc' = [pc EXCEPT ![p] = IF data[k] = {} THEN "fetch" ELSE "read"]
    /\ promised' = [promised EXCEPT ![p] = remembered[k]]
    /\ UNCHANGED <<now, data, closed, remembered>>

\* Get, between the locks: an entry that has not expired is returned.
GetCheck(p) ==
    /\ pc[p] = "read"
    /\ \/ /\ \E e \in entry[p] : Expired(e)
          /\ pc' = [pc EXCEPT ![p] = "expired"]
          /\ UNCHANGED <<key, entry, promised>>
       \/ /\ \A e \in entry[p] : ~Expired(e)
          /\ Return(p)
    /\ UNCHANGED <<now, data, closed, remembered>>

\* Mutant: the second test is left out.
GetDeleteAny(p) ==
    /\ pc[p] = "expired"
    /\ data' = [k \in Keys |-> IF k \in key[p] THEN {} ELSE data[k]]
    /\ pc' = [pc EXCEPT ![p] = "fetch"]
    /\ UNCHANGED <<now, key, entry, closed, remembered, promised>>

\* Get, under Lock: delete the expired entry, unless it was updated meanwhile.
GetDelete(p) ==
    /\ pc[p] = "expired"
    /\ data' = [k \in Keys |->
                  {e \in data[k] : ~(k \in key[p] /\ \E x \in entry[p] : x.expiry = e.expiry)}]
    /\ pc' = [pc EXCEPT ![p] = "fetch"]
    /\ UNCHANGED <<now, key, entry, closed, remembered, promised>>

\* The caller asks the resolver or the backend; some values are not stored.
Fetch(p) ==
    /\ pc[p] = "fetch"
    /\ \/ Unstored # {} /\ Return(p)
       \/ \E v \in Values \ Unstored :
            /\ entry' = [entry EXCEPT ![p] = {[value |-> v, expiry |-> 0]}]
            /\ pc' = [pc EXCEPT ![p] = "set"]
            /\ UNCHANGED <<key, promised>>
    /\ UNCHANGED <<now, data, closed, remembered>>

\* Mutant: the ttl is taken off the clock.
SetPast(p) ==
    /\ pc[p] = "set"
    /\ data' = [k \in Keys |-> IF k \in key[p] THEN {[e EXCEPT !.expiry = now - TTL] : e \in entry[p]}
                               ELSE data[k]]
    /\ remembered' = [k \in Keys |-> IF k \in key[p] THEN now + TTL ELSE remembered[k]]
    /\ Return(p)
    /\ UNCHANGED <<now, closed>>

\* Set, under Lock.
Set(p) ==
    /\ pc[p] = "set"
    /\ data' = [k \in Keys |-> IF k \in key[p] THEN {[e EXCEPT !.expiry = now + TTL] : e \in entry[p]}
                               ELSE data[k]]
    /\ remembered' = [k \in Keys |-> IF k \in key[p] THEN now + TTL ELSE remembered[k]]
    /\ Return(p)
    /\ UNCHANGED <<now, closed>>

\* Mutants: the test is inverted; one that expires now goes too.
DecayInverted ==
    /\ ~closed
    /\ data' = [k \in Keys |-> {e \in data[k] : Expired(e)}]
    /\ UNCHANGED <<now, pc, key, entry, closed, remembered, promised>>
DecayEarly ==
    /\ ~closed
    /\ data' = [k \in Keys |-> {e \in data[k] : e.expiry > now}]
    /\ UNCHANGED <<now, pc, key, entry, closed, remembered, promised>>

\* The ticker goroutine's Decay, under Lock.
Decay ==
    /\ ~closed
    /\ data' = [k \in Keys |-> {e \in data[k] : ~Expired(e)}]
    /\ UNCHANGED <<now, pc, key, entry, closed, remembered, promised>>

\* The state is closed (closer.Close; state.close): the ticker goroutine ends.
\* Requests that hold the old state still use the map.
Close ==
    /\ ~closed /\ closed' = TRUE
    /\ UNCHANGED <<now, data, pc, key, entry, remembered, promised>>

Tick ==
    /\ now < MaxTime /\ now' = now + 1
    /\ UNCHANGED <<data, pc, key, entry, closed, remembered, promised>>

Next ==
    \/ \E p \in Callers : (\E k \in Keys : GetRead(p, k)) \/ GetCheck(p) \/ GetDelete(p)
                          \/ Fetch(p) \/ Set(p)
    \/ Decay \/ Close \/ Tick

\* The ticker ticks for as long as it is not stopped.
Spec == Init /\ [][Next]_vars /\ WF_vars(Decay)

-----------------------------------------------------------------------------
\* Type invariant of the map and its callers.
TypeOK ==
    /\ now \in Nat
    /\ data \in [Keys -> SUBSET Entry]
    /\ pc \in [Callers -> {"idle", "read", "expired", "fetch", "set"}]
    /\ key \in [Callers -> SUBSET Keys]
    /\ entry \in [Callers -> SUBSET Entry]
    /\ closed \in BOOLEAN
    /\ remembered \in [Keys -> Int]
    /\ promised \in [Callers -> Int]

\* A value that was stored is served until its ttl is over: a caller goes to the
\* resolver or the backend only if what the latest Set before its Get promised
\* has run out.  In particular a Get that finds an old entry never deletes the
\* one a concurrent caller has just stored (the second test in DecayMap.Get).
NoNeedlessFetch ==
    \A p \in Callers : pc[p] \in {"fetch", "set"} => now > promised[p]

\* Neither Get nor Decay drops an entry that is still good.
DropsOnlyExpired ==
    [][\A k \in Keys : data'[k] = {} => \A e \in data[k] : Expired(e)]_vars

\* An entry that has expired is swept away although nobody asks for its key
\* again, until the state that owns the map is closed.
EverySwept ==
    \A k \in Keys : (\E e \in data[k] : Expired(e)) ~> (closed \/ \A e \in data[k] : ~Expired(e))
=============================================================================
