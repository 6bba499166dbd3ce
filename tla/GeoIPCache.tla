------------------------------ MODULE GeoIPCache ------------------------------
(***************************************************************************)
(* The country() conditions of lib/conditions.go and the cache they keep   *)
(* in front of the GeoIP database: a Go map in the State that all requests *)
(* read and write without a lock.                                          *)
(*                                                                         *)
(* What a Go program makes of that race: two goroutines inside the map's   *)
(* own code at once, one of them writing, are a fatal error that ends the  *)
(* process (Fault); but an assignment m[k] = v is two steps, the map's     *)
(* code that returns the place of k, empty if k is new (Assign), and the   *)
(* store of v there (Fill), and between the two other goroutines may use   *)
(* the map, and even move its entries elsewhere.                           *)
(***************************************************************************)
EXTENDS Integers, FiniteSets

CONSTANTS
    Visitors,   \* goroutines that evaluate conditions
    Addresses,
    Country,    \* Country[a]: what the database says; "" if it knows no country
    Unreadable, \* addresses for which the database returns an error
    MaxSize     \* maxGeoIPCacheSize

ASSUME CountryAssumption ==
    /\ DOMAIN Country = Addresses
    /\ Unreadable \subseteq {a \in Addresses : Country[a] = ""}
ASSUME MaxSizeAssumption == MaxSize \in Nat \ {0}
ASSUME FinitelyMany == IsFiniteSet(Visitors) /\ IsFiniteSet(Addresses)

VARIABLES
    cache,      \* cache[a]: the entry of a, if any
    made,       \* the map is not nil
    step,       \* step[p]: "idle", "lookup", "make", "size", "assign" or "fill"
    address,    \* address[p]: the address p evaluates, if any
    adrift,     \* the visitors that are about to store to a place entries have moved from
    misled,     \* history: a condition was evaluated with a country not the database's
    shared,     \* history: a map access fell between another's Assign and Fill
    dead        \* the process has ended

geoVars == <<cache, made, step, address, adrift, misled, shared, dead>>

GeoInit ==
    /\ cache = [a \in Addresses |-> {}]
    /\ made = FALSE /\ adrift = {}
    /\ step = [p \in Visitors |-> "idle"]
    /\ address = [p \in Visitors |-> {}]
    /\ misled = FALSE /\ shared = FALSE /\ dead = FALSE

\* len(state.geoipCache)
Size == Cardinality({a \in Addresses : cache[a] # {}})

Goto(p, s) == step' = [step EXCEPT ![p] = s]
Filling(p) == step[p] = "fill"
AllFilling == {p \in Visitors : Filling(p)}

\* p accesses the map: is another in the middle of an assignment?
Access(p) == shared' = (shared \/ \E o \in Visitors \ {p} : Filling(o))

\* The condition on a is decided by the given country, and p is done with it.
Decide(p, a, country) ==
    /\ misled' = (misled \/ country # Country[a])
    /\ Goto(p, "idle")
    /\ address' = [address EXCEPT ![p] = {}]

-----------------------------------------------------------------------------
\* The condition looks into the cache; a hit decides it.
Lookup(p, a) ==
    /\ step[p] = "idle"
    /\ \/ /\ cache[a] = {} /\ Goto(p, "lookup")
          /\ address' = [address EXCEPT ![p] = {a}]
          /\ UNCHANGED misled
       \/ \E e \in cache[a] : Decide(p, a, e)
    /\ Access(p)
    /\ UNCHANGED <<cache, made, adrift, dead>>

\* Where p goes once there is a map: the database's errors are stored at once, as
\* negative results; a country has to meet the size limit.
WithMap(p) == IF address[p] \subseteq Unreadable THEN "assign" ELSE "size"

\* The database has answered, with a country or an error: is the map nil?
CheckNil(p) ==
    /\ step[p] = "lookup"
    /\ Goto(p, IF ~made THEN "make" ELSE WithMap(p))
    /\ UNCHANGED <<cache, made, address, adrift, misled, shared, dead>>

\* make: also over the map another goroutine has made since.
Make(p) ==
    /\ step[p] = "make"
    /\ cache' = [a \in Addresses |-> {}]
    /\ made' = TRUE /\ adrift' = AllFilling
    /\ Goto(p, WithMap(p))
    /\ UNCHANGED <<address, misled, shared, dead>>

\* Mutant: the limit is not tested.
CheckSizeNever(p) ==
    /\ step[p] = "size"
    /\ Goto(p, "assign")
    /\ Access(p)
    /\ UNCHANGED <<cache, made, address, adrift, misled, dead>>

\* The size limit: a country that does not meet it is used without being stored.
CheckSize(p) ==
    /\ step[p] = "size"
    /\ \E a \in address[p] :
         IF Size < MaxSize
           THEN Goto(p, "assign") /\ UNCHANGED <<address, misled>>
           ELSE Decide(p, a, Country[a])
    /\ Access(p)
    /\ UNCHANGED <<cache, made, adrift, dead>>

\* The map's part of the assignment.  A new entry is empty at first, and may make
\* the map grow, which moves the others.
Assign(p) ==
    /\ step[p] = "assign"
    /\ \E a \in address[p], grows \in BOOLEAN :
         /\ grows => cache[a] = {}
         /\ cache' = [cache EXCEPT ![a] = IF @ = {} THEN {""} ELSE @]
         /\ adrift' = IF grows THEN AllFilling ELSE adrift
    /\ Goto(p, "fill")
    /\ Access(p)
    /\ UNCHANGED <<made, address, misled, dead>>

\* Mutant: what a nil map would have held is stored, the country is forgotten.
FillNegative(p) ==
    /\ step[p] = "fill"
    /\ \E a \in address[p] : Decide(p, a, "")
    /\ adrift' = adrift \ {p}
    /\ UNCHANGED <<cache, made, shared, dead>>

\* The store, lost if the entry has moved, and the end of the condition.
Fill(p) ==
    /\ step[p] = "fill"
    /\ \E a \in address[p] :
         /\ cache' = IF p \in adrift THEN cache ELSE [cache EXCEPT ![a] = {Country[a]}]
         /\ Decide(p, a, Country[a])
    /\ adrift' = adrift \ {p}
    /\ UNCHANGED <<made, shared, dead>>

\* "fatal error: concurrent map writes" (or "read and map write").
Fault ==
    /\ \E p, o \in Visitors :
         p # o /\ step[p] = "assign" /\ step[o] \in {"idle", "size", "assign"}
    /\ dead' = TRUE
    /\ UNCHANGED <<cache, made, step, address, adrift, misled, shared>>

Evaluate(p) ==
    \/ \E a \in Addresses : Lookup(p, a)
    \/ CheckNil(p) \/ Make(p) \/ CheckSize(p) \/ Assign(p) \/ Fill(p)

-----------------------------------------------------------------------------
\* A country condition is evaluated with what the database says of the address,
\* and the cache holds what it says, unless two goroutines have shared the map in
\* the middle of an assignment.  Making the map twice, and losing entries by it,
\* is harmless.
WrongOnlyByRace ==
    shared
    \/ /\ ~misled
       /\ \A a \in Addresses : \A e \in cache[a] :
            \/ e = Country[a]
            \/ \E p \in Visitors : Filling(p) /\ a \in address[p] /\ p \notin adrift

\* "simple size limit": it bounds the positive entries, though goroutines test it
\* and store afterwards; the number of goroutines may come on top of it.
PositiveBounded ==
    Cardinality({a \in Addresses \ Unreadable : cache[a] # {}})
      <= MaxSize + Cardinality(Visitors) - 1
=============================================================================
