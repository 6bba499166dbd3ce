---------------------------- MODULE DecayMapProofs ----------------------------
(***************************************************************************)
(* The caches requests share.  The decaying map keeps what Set promised,   *)
(* for any number of callers and keys and any ttl (nothing of that uses    *)
(* the country cache); the country cache is wrong only by a race inside an *)
(* assignment, and bounded; both also when requests use the two together.  *)
(***************************************************************************)
EXTENDS Lookups, FiniteSetTheorems, TLAPS

\* The entry of a key is the one the latest Set stored.
Latest == \A k \in Keys : \A e \in data[k] : e.expiry = remembered[k]

\* It is there for as long as it was promised.
Kept == \A k \in Keys : remembered[k] >= now => data[k] # {}

\* What a Get has read is what was promised when it read it; on its way to the
\* delete, the promise has run out.
ReadPromise ==
    \A p \in Callers :
      /\ pc[p] \in {"read", "expired"} => entry[p] # {} /\ \A e \in entry[p] : e.expiry = promised[p]
      /\ pc[p] = "expired" => now > promised[p]
      /\ pc[p] = "set" => entry[p] # {}

IInv == TypeOK /\ NoNeedlessFetch /\ Latest /\ Kept /\ ReadPromise

LEMMA InitIInv == Init => IInv
<1>1. Init => TypeOK
  <2>1. Init => closed \in BOOLEAN
    BY Zenon DEF Init
  <2>2. -1 \in Int
    OBVIOUS
  <2>3. Init => remembered \in [Keys -> Int] /\ promised \in [Callers -> Int]
    BY <2>2, Zenon DEF Init
  <2>4. Init => /\ now \in Nat /\ data \in [Keys -> SUBSET Entry]
                /\ pc \in [Callers -> {"idle", "read", "expired", "fetch", "set"}]
                /\ key \in [Callers -> SUBSET Keys] /\ entry \in [Callers -> SUBSET Entry]
    BY DEF Init
  <2>. QED BY <2>1, <2>3, <2>4 DEF TypeOK
<1>2. Init => Kept
  BY DEF Init, Kept
<1>3. Init => NoNeedlessFetch /\ Latest /\ ReadPromise
  BY DEF Init, NoNeedlessFetch, Latest, ReadPromise
<1>. QED BY <1>1, <1>2, <1>3 DEF IInv

\* A caller that returns keeps its type.
LEMMA ReturnType ==
    ASSUME TypeOK, NEW p \in Callers, Return(p)
    PROVE  /\ pc' \in [Callers -> {"idle", "read", "expired", "fetch", "set"}]
           /\ key' \in [Callers -> SUBSET Keys]
           /\ entry' \in [Callers -> SUBSET Entry]
           /\ promised' \in [Callers -> Int]
<1>1. -1 \in Int
  OBVIOUS
<1>2. promised' \in [Callers -> Int]
  BY <1>1 DEF TypeOK, Return
<1>. QED BY <1>2 DEF TypeOK, Return

\* What the invariant says of callers holds of one that returns, and of the
\* others it says the same as before.
LEMMA ReturnPromise ==
    ASSUME TypeOK, NEW p \in Callers, Return(p), UNCHANGED now
    PROVE  /\ NoNeedlessFetch => NoNeedlessFetch'
           /\ ReadPromise => ReadPromise'
<1>1. /\ pc'[p] = "idle"
      /\ \A o \in Callers \ {p} : pc'[o] = pc[o] /\ entry'[o] = entry[o] /\ promised'[o] = promised[o]
  BY DEF TypeOK, Return
<1>2. NoNeedlessFetch => NoNeedlessFetch'
  BY <1>1 DEF NoNeedlessFetch
<1>3. ReadPromise => ReadPromise'
  BY <1>1 DEF ReadPromise
<1>. QED BY <1>2, <1>3

LEMMA GetReadStep ==
    ASSUME IInv, NEW p \in Callers, NEW k \in Keys, GetRead(p, k)
    PROVE  IInv'
<1>. USE DEF IInv, GetRead
<1>1. TypeOK'
  BY DEF TypeOK
<1>2. NoNeedlessFetch'
  BY DEF TypeOK, NoNeedlessFetch, Kept
<1>3. Latest' /\ Kept'
  BY DEF Latest, Kept
<1>4. ReadPromise'
  BY DEF TypeOK, ReadPromise, Latest
<1>. QED BY <1>1, <1>2, <1>3, <1>4

LEMMA GetCheckStep ==
    ASSUME IInv, NEW p \in Callers, GetCheck(p)
    PROVE  IInv'
<1>. USE DEF IInv, GetCheck
<1>1. Latest' /\ Kept'
  BY DEF Latest, Kept
<1>2. CASE Return(p)
  <2>1. TypeOK'
    BY <1>2, ReturnType DEF TypeOK
  <2>. QED BY <1>1, <1>2, <2>1, ReturnPromise
<1>3. CASE /\ \E e \in entry[p] : Expired(e)
           /\ pc' = [pc EXCEPT ![p] = "expired"]
           /\ UNCHANGED <<key, entry, promised>>
  <2>1. TypeOK'
    BY <1>3 DEF TypeOK
  <2>2. NoNeedlessFetch'
    BY <1>3 DEF TypeOK, NoNeedlessFetch
  <2>3. ReadPromise'
    BY <1>3 DEF TypeOK, ReadPromise, Expired
  <2>. QED BY <1>1, <2>1, <2>2, <2>3
<1>. QED BY <1>2, <1>3

LEMMA GetDeleteStep ==
    ASSUME IInv, NEW p \in Callers, GetDelete(p)
    PROVE  IInv' /\ \A k \in Keys : data'[k] = {} => \A e \in data[k] : Expired(e)
<1>. USE DEF IInv, GetDelete
<1>1. TypeOK'
  BY DEF TypeOK
<1>2. NoNeedlessFetch'
  BY DEF TypeOK, NoNeedlessFetch, ReadPromise
<1>3. Latest'
  BY DEF TypeOK, Latest
<1>4. \A k \in Keys : \A e \in data[k] : e \notin data'[k] => now > e.expiry
  BY DEF TypeOK, ReadPromise
<1>5. Kept'
  BY <1>4 DEF TypeOK, Kept, Latest
<1>6. ReadPromise'
  BY DEF TypeOK, ReadPromise
<1>. QED BY <1>1, <1>2, <1>3, <1>4, <1>5, <1>6 DEF Expired

LEMMA FetchStep ==
    ASSUME IInv, NEW p \in Callers, Fetch(p)
    PROVE  IInv'
<1>. USE DEF IInv, Fetch
<1>1. Latest' /\ Kept'
  BY DEF Latest, Kept
<1>2. CASE Return(p)
  <2>1. TypeOK'
    BY <1>2, ReturnType DEF TypeOK
  <2>. QED BY <1>1, <1>2, <2>1, ReturnPromise
<1>3. CASE \E v \in Values \ Unstored :
             /\ entry' = [entry EXCEPT ![p] = {[value |-> v, expiry |-> 0]}]
             /\ pc' = [pc EXCEPT ![p] = "set"]
             /\ UNCHANGED <<key, promised>>
  <2>1. PICK v \in Values \ Unstored :
             /\ entry' = [entry EXCEPT ![p] = {[value |-> v, expiry |-> 0]}]
             /\ pc' = [pc EXCEPT ![p] = "set"]
             /\ UNCHANGED <<key, promised>>
    BY <1>3
  <2>2. [value |-> v, expiry |-> 0] \in Entry
    BY DEF Entry
  <2>3. TypeOK'
    BY <2>1, <2>2 DEF TypeOK
  <2>4. NoNeedlessFetch'
    BY <2>1 DEF TypeOK, NoNeedlessFetch
  <2>5. ReadPromise'
    BY <2>1 DEF TypeOK, ReadPromise
  <2>. QED BY <1>1, <2>3, <2>4, <2>5
<1>. QED BY <1>2, <1>3

LEMMA SetKeepsEntries ==
    ASSUME IInv, NEW p \in Callers, Set(p)
    PROVE  IInv' /\ \A k \in Keys : data'[k] = {} => data[k] = {}
<1>. USE DEF IInv, Set
<1>. DEFINE New == {[e EXCEPT !.expiry = now + TTL] : e \in entry[p]}
<1>1. New \in SUBSET Entry /\ \A e \in New : e.expiry = now + TTL
  BY TTLAssumption DEF TypeOK, Entry
<1>2. entry[p] # {} => New # {}
  OBVIOUS
<1>3. entry[p] # {}
  BY DEF ReadPromise
<1>4. \A k \in Keys : data'[k] = IF k \in key[p] THEN New ELSE data[k]
  OBVIOUS
<1>5. \A k \in Keys : remembered'[k] = IF k \in key[p] THEN now + TTL ELSE remembered[k]
  OBVIOUS
<1>. HIDE DEF New
<1>6. TypeOK'
  <2>1. data' \in [Keys -> SUBSET Entry]
    BY <1>1 DEF TypeOK, New
  <2>2. remembered' \in [Keys -> Int]
    BY TTLAssumption DEF TypeOK
  <2>. QED BY <2>1, <2>2, ReturnType DEF TypeOK
<1>7. NoNeedlessFetch' /\ ReadPromise'
  BY ReturnPromise
<1>8. Latest'
  BY <1>1, <1>4, <1>5 DEF Latest
<1>9. Kept'
  BY <1>2, <1>3, <1>4, <1>5 DEF Kept
<1>. QED BY <1>2, <1>3, <1>4, <1>6, <1>7, <1>8, <1>9

LEMMA DecayStep ==
    ASSUME IInv, Decay
    PROVE  IInv' /\ \A k \in Keys : data'[k] = {} => \A e \in data[k] : Expired(e)
<1>. USE DEF IInv, Decay, Expired
<1>1. TypeOK' /\ NoNeedlessFetch' /\ ReadPromise'
  BY DEF TypeOK, NoNeedlessFetch, ReadPromise
<1>2. Latest'
  BY DEF TypeOK, Latest
<1>3. \A k \in Keys : \A e \in data[k] : e \notin data'[k] => now > e.expiry
  OBVIOUS
<1>4. Kept'
  BY <1>3 DEF TypeOK, Kept, Latest
<1>. QED BY <1>1, <1>2, <1>3, <1>4

LEMMA TickStep == ASSUME IInv, Tick PROVE IInv'
BY DEF IInv, Tick, TypeOK, NoNeedlessFetch, Latest, Kept, ReadPromise

LEMMA CloseStep == ASSUME IInv, Close PROVE IInv'
BY DEF IInv, Close, TypeOK, NoNeedlessFetch, Latest, Kept, ReadPromise

\* A step of the map keeps the invariant and drops only what has expired.
LEMMA NextIInv ==
    ASSUME IInv, [Next]_vars
    PROVE  IInv' /\ (vars' # vars => \A k \in Keys : data'[k] = {} => \A e \in data[k] : Expired(e))
<1>. DEFINE Good == \A k \in Keys : data'[k] = {} => \A e \in data[k] : Expired(e)
<1>1. CASE UNCHANGED vars
  BY <1>1 DEF vars, IInv, TypeOK, NoNeedlessFetch, Latest, Kept, ReadPromise
<1>2. ASSUME NEW p \in Callers, NEW k \in Keys, GetRead(p, k) PROVE IInv' /\ Good
  BY <1>2, GetReadStep DEF GetRead
<1>3. ASSUME NEW p \in Callers, GetCheck(p) PROVE IInv' /\ Good
  BY <1>3, GetCheckStep DEF GetCheck
<1>4. ASSUME NEW p \in Callers, GetDelete(p) PROVE IInv' /\ Good
  BY <1>4, GetDeleteStep
<1>5. ASSUME NEW p \in Callers, Fetch(p) PROVE IInv' /\ Good
  BY <1>5, FetchStep DEF Fetch
<1>6. ASSUME NEW p \in Callers, Set(p) PROVE IInv' /\ Good
  BY <1>6, SetKeepsEntries
<1>7. CASE Decay
  BY <1>7, DecayStep
<1>8. CASE Close
  BY <1>8, CloseStep DEF Close
<1>9. CASE Tick
  BY <1>9, TickStep DEF Tick
<1>. QED BY <1>1, <1>2, <1>3, <1>4, <1>5, <1>6, <1>7, <1>8, <1>9 DEF Next

\* The map and its callers keep their type, whatever values are fetched and stored.
THEOREM DecayMapTyped == Spec => []TypeOK
<1>1. IInv => TypeOK
  BY DEF IInv
<1>. QED BY <1>1, InitIInv, NextIInv, PTL DEF Spec

\* However lookups, sweeps and expiries interleave, a value that was stored is
\* served until its ttl is over.
THEOREM NoNeedless == Spec => []NoNeedlessFetch
<1>1. IInv => NoNeedlessFetch
  BY DEF IInv
<1>. QED BY <1>1, InitIInv, NextIInv, PTL DEF Spec

\* Neither Get nor Decay nor Set ever drops an entry that has not expired.
THEOREM OnlyExpired == Spec => DropsOnlyExpired
<1>1. IInv /\ [Next]_vars => [\A k \in Keys : data'[k] = {} => \A e \in data[k] : Expired(e)]_vars
  BY NextIInv
<1>. QED BY <1>1, InitIInv, NextIInv, PTL DEF Spec, DropsOnlyExpired
-----------------------------------------------------------------------------
\* The types of the country cache, as far as they matter.
GeoTyped ==
    /\ cache \in [Addresses -> SUBSET ({Country[a] : a \in Addresses} \cup {""})]
    /\ step \in [Visitors -> {"idle", "lookup", "make", "size", "assign", "fill"}]
    /\ address \in [Visitors -> SUBSET Addresses]

\* A visitor that evaluates a condition does so for one address.
OneAddress == \A p \in Visitors : step[p] # "idle" => \E a \in Addresses : address[p] = {a}

\* Only a store that is still to come can be adrift; one that is not has its place
\* in the map.
Placed ==
    /\ adrift \subseteq AllFilling
    /\ \A p \in Visitors : Filling(p) /\ p \notin adrift => \A a \in address[p] : cache[a] # {}

\* Two assignments in progress at once are a race.
OneFills == shared \/ \A p, o \in Visitors : Filling(p) /\ Filling(o) => p = o

GeoInv == GeoTyped /\ OneAddress /\ Placed /\ OneFills /\ WrongOnlyByRace

\* Without a race nobody else was in an assignment.
LEMMA Alone ==
    ASSUME NEW p \in Visitors, Access(p)
    PROVE  shared' \/ (~shared /\ \A o \in Visitors : o # p => ~Filling(o))
BY Zenon DEF Access

LEMMA RightDecision ==
    ASSUME NEW p, NEW a, Decide(p, a, Country[a])
    PROVE  ~misled => ~misled'
BY DEF Decide

LEMMA InitGeo == GeoInit => GeoInv
BY DEF GeoInit, GeoInv, GeoTyped, OneAddress, Placed, OneFills, WrongOnlyByRace, Filling, AllFilling

\* Without a race, and if nobody is in an assignment, the cache is right.
LEMMA QuietCache ==
    ASSUME GeoInv, ~shared, \A o \in Visitors : ~Filling(o)
    PROVE  ~misled /\ \A a \in Addresses : \A e \in cache[a] : e = Country[a]
BY DEF GeoInv, WrongOnlyByRace

LEMMA LookupGeo == ASSUME GeoInv, NEW p \in Visitors, NEW a \in Addresses, Lookup(p, a) PROVE GeoInv'
<1>. USE DEF GeoInv, GeoTyped, Filling
<1>1. /\ step[p] = "idle" /\ UNCHANGED <<cache, adrift>>
      /\ (step'[p] = "idle" /\ address'[p] = {}) \/ (step'[p] = "lookup" /\ address'[p] = {a})
      /\ \A o \in Visitors : o # p => step'[o] = step[o] /\ address'[o] = address[o]
      /\ GeoTyped'
  <2>1. CASE Goto(p, "lookup") /\ address' = [address EXCEPT ![p] = {a}]
    BY <2>1 DEF Lookup, Goto
  <2>2. CASE \E e \in cache[a] : Decide(p, a, e)
    <3>1. step' = [step EXCEPT ![p] = "idle"] /\ address' = [address EXCEPT ![p] = {}]
      BY <2>2 DEF Decide, Goto
    <3>. QED BY <3>1 DEF Lookup
  <2>. QED BY <2>1, <2>2 DEF Lookup
<1>2. OneAddress'
  BY <1>1 DEF OneAddress
<1>3. Placed'
  BY <1>1 DEF Placed, AllFilling
<1>4. shared' \/ (~shared /\ \A o \in Visitors : ~Filling(o))
  BY <1>1, Alone DEF Lookup
<1>5. OneFills'
  BY <1>1, <1>4 DEF OneFills
<1>6. shared' \/ ~misled'
  <2>. SUFFICES ASSUME ~shared' PROVE ~misled'
    OBVIOUS
  <2>1. ~misled /\ \A e \in cache[a] : e = Country[a]
    BY <1>4, QuietCache
  <2>2. ASSUME NEW e \in cache[a], Decide(p, a, e) PROVE ~misled'
    <3>1. e = Country[a]
      BY <2>1
    <3>. QED BY <2>1, <2>2, <3>1, RightDecision
  <2>. QED BY <2>1, <2>2 DEF Lookup
<1>7. WrongOnlyByRace'
  <2>1. shared' \/ \A b \in Addresses : \A e \in cache[b] : e = Country[b]
    BY <1>4, QuietCache
  <2>. QED BY <1>1, <1>6, <2>1 DEF WrongOnlyByRace
<1>. QED BY <1>1, <1>2, <1>3, <1>5, <1>7

\* A step of p outside an assignment that leaves the map alone.
LEMMA PlainGeo ==
    ASSUME GeoInv, NEW p \in Visitors, ~Filling(p), UNCHANGED <<cache, adrift>>,
           shared' \/ (~shared /\ (~misled => ~misled')) \/ UNCHANGED <<misled, shared>>,
           NEW s \in {"idle", "lookup", "make", "size", "assign"},
           step' = [step EXCEPT ![p] = s],
           UNCHANGED address \/ (s = "idle" /\ address' = [address EXCEPT ![p] = {}]),
           s # "idle" => step[p] # "idle"
    PROVE  GeoInv'
<1>. USE DEF GeoInv, GeoTyped, Filling
<1>1. /\ \A o \in Visitors : Filling(o)' <=> Filling(o)
      /\ \A o \in Visitors : Filling(o) => address'[o] = address[o]
  OBVIOUS
<1>2. GeoTyped' /\ OneAddress'
  BY DEF OneAddress
<1>3. Placed' /\ OneFills'
  BY <1>1 DEF Placed, OneFills, AllFilling
<1>4. WrongOnlyByRace'
  BY <1>1 DEF WrongOnlyByRace
<1>. QED BY <1>2, <1>3, <1>4

\* A visitor that stores at once has no country: it does not count as admitted.
LEMMA WithMapKnown ==
    ASSUME GeoInv, NEW p \in Visitors, step[p] # "idle"
    PROVE  WithMap(p) \in {"size", "assign"} /\ (WithMap(p) = "assign" => address[p] \cap Unreadable # {})
<1>1. PICK a \in Addresses : address[p] = {a}
  BY DEF GeoInv, OneAddress
<1>. QED BY <1>1 DEF WithMap

LEMMA CheckGeo == ASSUME GeoInv, NEW p \in Visitors, CheckNil(p) \/ CheckSize(p) PROVE GeoInv'
<1>1. CASE CheckNil(p)
  <2>. DEFINE s == IF ~made THEN "make" ELSE WithMap(p)
  <2>1. step[p] = "lookup" /\ step' = [step EXCEPT ![p] = s]
        /\ UNCHANGED <<cache, address, adrift, misled, shared>>
    BY <1>1 DEF CheckNil, Goto
  <2>2. s \in {"idle", "lookup", "make", "size", "assign"}
    BY <2>1, WithMapKnown
  <2>. HIDE DEF s
  <2>. QED BY <2>1, <2>2, PlainGeo DEF Filling
<1>2. CASE CheckSize(p)
  <2>1. PICK a \in address[p] :
          IF Size < MaxSize
            THEN Goto(p, "assign") /\ UNCHANGED <<address, misled>>
            ELSE Decide(p, a, Country[a])
    BY <1>2 DEF CheckSize
  <2>2. step[p] = "size" /\ UNCHANGED <<cache, adrift>> /\ (shared' \/ ~shared)
    BY <1>2, Alone DEF CheckSize
  <2>3. CASE Goto(p, "assign") /\ UNCHANGED <<address, misled>>
    BY <2>2, <2>3, PlainGeo DEF Goto, Filling
  <2>4. CASE Decide(p, a, Country[a])
    <3>1. ~misled => ~misled'
      BY <2>4, RightDecision
    <3>. QED BY <2>2, <2>4, <3>1, PlainGeo DEF Decide, Goto, Filling
  <2>. QED BY <2>1, <2>3, <2>4
<1>. QED BY <1>1, <1>2

LEMMA MakeGeo == ASSUME GeoInv, NEW p \in Visitors, Make(p) PROVE GeoInv'
<1>. USE DEF GeoInv, GeoTyped, Filling
<1>1. /\ step[p] = "make" /\ step' = [step EXCEPT ![p] = WithMap(p)]
      /\ UNCHANGED <<address, misled, shared>> /\ adrift' = AllFilling
      /\ cache' = [a \in Addresses |-> {}]
  BY DEF Make, Goto
<1>0. WithMap(p) \in {"size", "assign"}
  BY <1>1, WithMapKnown
<1>2. \A o \in Visitors : Filling(o)' <=> Filling(o)
  BY <1>0, <1>1
<1>3. GeoTyped' /\ OneAddress'
  BY <1>0, <1>1 DEF OneAddress
<1>4. Placed' /\ OneFills'
  BY <1>1, <1>2 DEF Placed, OneFills, AllFilling
<1>5. WrongOnlyByRace'
  BY <1>1 DEF WrongOnlyByRace
<1>. QED BY <1>3, <1>4, <1>5

LEMMA AssignGeo == ASSUME GeoInv, NEW p \in Visitors, Assign(p) PROVE GeoInv'
<1>. USE DEF GeoInv, GeoTyped, Filling
<1>1. PICK a \in address[p], grows \in BOOLEAN :
         /\ cache' = [cache EXCEPT ![a] = IF @ = {} THEN {""} ELSE @]
         /\ adrift' = IF grows THEN AllFilling ELSE adrift
  BY DEF Assign
<1>2. /\ step[p] = "assign" /\ step' = [step EXCEPT ![p] = "fill"]
      /\ UNCHANGED <<address, misled>> /\ address[p] = {a} /\ a \in Addresses
  <2>1. step[p] = "assign" /\ step' = [step EXCEPT ![p] = "fill"] /\ UNCHANGED <<address, misled>>
    BY DEF Assign, Goto
  <2>. QED BY <2>1 DEF OneAddress
<1>3. /\ cache'[a] = (IF cache[a] = {} THEN {""} ELSE cache[a])
      /\ \A b \in Addresses : b # a => cache'[b] = cache[b]
  BY <1>1, <1>2
<1>4. p \notin adrift' /\ adrift' \subseteq AllFilling
  BY <1>1, <1>2 DEF Placed, AllFilling
<1>5. adrift \subseteq adrift'
  BY <1>1 DEF Placed
<1>6. GeoTyped' /\ OneAddress'
  BY <1>1, <1>2 DEF OneAddress
<1>7. Placed'
  <2>1. \A b \in Addresses : cache[b] # {} => cache'[b] # {}
    BY <1>3
  <2>2. AllFilling \subseteq AllFilling'
    BY <1>2 DEF AllFilling
  <2>. QED BY <1>2, <1>3, <1>4, <1>5, <2>1, <2>2 DEF Placed
<1>8. shared' \/ (~shared /\ \A o \in Visitors : ~Filling(o))
  BY <1>2, Alone DEF Assign
<1>9. OneFills'
  BY <1>2, <1>8 DEF OneFills
<1>10. WrongOnlyByRace'
  <2>. SUFFICES ASSUME ~shared'
                PROVE  ~misled' /\ \A b \in Addresses : \A e \in cache'[b] :
                         e = Country[b] \/ (p \notin adrift' /\ b \in address'[p] /\ step'[p] = "fill")
    BY DEF WrongOnlyByRace
  <2>1. ~misled /\ \A b \in Addresses : \A e \in cache[b] : e = Country[b]
    BY <1>8, QuietCache
  <2>. QED BY <1>2, <1>3, <1>4, <2>1
<1>. QED BY <1>6, <1>7, <1>9, <1>10

LEMMA FillGeo == ASSUME GeoInv, NEW p \in Visitors, Fill(p) PROVE GeoInv'
<1>. USE DEF GeoInv, GeoTyped, Filling
<1>1. PICK a \in address[p] :
         /\ cache' = IF p \in adrift THEN cache ELSE [cache EXCEPT ![a] = {Country[a]}]
         /\ Decide(p, a, Country[a])
  BY DEF Fill
<1>2. /\ step[p] = "fill" /\ step' = [step EXCEPT ![p] = "idle"]
      /\ address' = [address EXCEPT ![p] = {}] /\ address[p] = {a} /\ a \in Addresses
      /\ adrift' = adrift \ {p} /\ UNCHANGED shared
  BY <1>1 DEF Fill, Decide, Goto, OneAddress
<1>3. ~misled => ~misled'
  BY <1>1, RightDecision
<1>4. \A b \in Addresses : cache'[b] = cache[b] \/ (p \notin adrift /\ b = a /\ cache'[b] = {Country[b]})
  BY <1>1, <1>2
<1>5. GeoTyped' /\ OneAddress'
  BY <1>1, <1>2 DEF OneAddress
<1>6. Placed'
  <2>1. \A b \in Addresses : cache[b] # {} => cache'[b] # {}
    BY <1>4
  <2>. QED BY <1>2, <2>1 DEF Placed, AllFilling
<1>7. OneFills'
  BY <1>2 DEF OneFills
<1>8. WrongOnlyByRace'
  <2>. SUFFICES ASSUME ~shared
                PROVE  ~misled' /\ \A b \in Addresses : \A e \in cache'[b] : e = Country[b]
    BY <1>2 DEF WrongOnlyByRace
  <2>1. /\ ~misled
        /\ \A b \in Addresses : \A e \in cache[b] : e = Country[b] \/ (b = a /\ p \notin adrift)
    BY <1>2 DEF WrongOnlyByRace, OneFills
  <2>2. p \notin adrift => cache'[a] = {Country[a]}
    BY <1>1, <1>2
  <2>. QED BY <1>3, <1>4, <2>1, <2>2
<1>. QED BY <1>5, <1>6, <1>7, <1>8
-----------------------------------------------------------------------------
\* The visitors the size limit has let through whose entry is still to come.
Admitted == {p \in Visitors : step[p] = "assign" /\ address[p] \cap Unreadable = {}}
Positive == {a \in Addresses \ Unreadable : cache[a] # {}}

\* Those come on top of the entries that are there: what one of them adds, it was
\* counted for before.
RoomLeft ==
    Cardinality(Positive) + Cardinality(Admitted) <= MaxSize + Cardinality(Visitors) - 1

LEMMA Counts ==
    /\ IsFiniteSet(Positive) /\ Cardinality(Positive) \in Nat
    /\ IsFiniteSet(Admitted) /\ Cardinality(Admitted) \in Nat
    /\ Cardinality(Visitors) \in Nat /\ Cardinality(Admitted) <= Cardinality(Visitors)
<1>1. Positive \in SUBSET Addresses /\ Admitted \in SUBSET Visitors
  BY DEF Positive, Admitted
<1>. QED BY <1>1, FinitelyMany, FS_Subset, FS_CardinalityType

\* Fewer of both leave as much room.
LEMMA RoomKept ==
    ASSUME RoomLeft, Positive' \subseteq Positive, Admitted' \subseteq Admitted
    PROVE  RoomLeft'
<1>1. Cardinality(Positive') \in Nat /\ Cardinality(Positive') <= Cardinality(Positive)
  BY Counts, FS_Subset, FS_CardinalityType
<1>2. Cardinality(Admitted') \in Nat /\ Cardinality(Admitted') <= Cardinality(Admitted)
  BY Counts, FS_Subset, FS_CardinalityType
<1>. QED BY <1>1, <1>2, Counts, MaxSizeAssumption DEF RoomLeft

LEMMA InitRoom == GeoInit => RoomLeft
<1>. SUFFICES ASSUME GeoInit PROVE RoomLeft
  OBVIOUS
<1>1. Positive = {} /\ Admitted = {}
  BY DEF GeoInit, Positive, Admitted
<1>. QED BY <1>1, Counts, FS_EmptySet, MaxSizeAssumption DEF RoomLeft

\* make empties the map, and p itself is not admitted.
LEMMA MakeRoom == ASSUME GeoInv, RoomLeft, NEW p \in Visitors, Make(p) PROVE RoomLeft'
<1>1. Positive' = {}
  BY DEF Make, Positive
<1>2. Admitted' \in SUBSET (Visitors \ {p})
  <2>1. /\ step[p] = "make" /\ step' = [step EXCEPT ![p] = WithMap(p)] /\ UNCHANGED address
    BY DEF Make, Goto
  <2>2. step'[p] = "assign" => address'[p] \cap Unreadable # {}
    BY <2>1, WithMapKnown DEF GeoInv, GeoTyped
  <2>. QED BY <2>2 DEF Admitted
<1>3. /\ IsFiniteSet(Visitors \ {p}) /\ Cardinality(Visitors \ {p}) = Cardinality(Visitors) - 1
  BY FinitelyMany, FS_RemoveElement
<1>4. Cardinality(Admitted') \in Nat /\ Cardinality(Admitted') <= Cardinality(Visitors) - 1
  BY <1>2, <1>3, FS_Subset, FS_CardinalityType
<1>. QED BY <1>1, <1>4, Counts, FS_EmptySet, MaxSizeAssumption DEF RoomLeft

\* A visitor is admitted while there is room for one entry more, whoever else is.
LEMMA CheckRoom == ASSUME GeoInv, RoomLeft, NEW p \in Visitors, CheckSize(p) PROVE RoomLeft'
<1>0. UNCHANGED cache /\ step[p] = "size" /\ Positive' = Positive
  BY DEF CheckSize, Positive
<1>1. PICK a \in address[p] :
          IF Size < MaxSize
            THEN Goto(p, "assign") /\ UNCHANGED <<address, misled>>
            ELSE Decide(p, a, Country[a])
  BY DEF CheckSize
<1>2. CASE ~(Size < MaxSize)
  <2>1. Admitted' \subseteq Admitted
    BY <1>0, <1>1, <1>2 DEF Decide, Goto, Admitted, GeoInv, GeoTyped
  <2>. QED BY <1>0, <2>1, RoomKept
<1>4. CASE Size < MaxSize
  <2>. DEFINE All == {b \in Addresses : cache[b] # {}}
  <2>1. Positive \in SUBSET All /\ All \in SUBSET Addresses
    BY DEF Positive
  <2>2. IsFiniteSet(All) /\ Cardinality(All) \in Nat /\ Cardinality(Positive) <= Cardinality(All)
    BY <2>1, FinitelyMany, FS_Subset, FS_CardinalityType
  <2>3. Cardinality(All) < MaxSize
    BY <1>4 DEF Size
  <2>4. Cardinality(Admitted') \in Nat /\ Cardinality(Admitted') <= Cardinality(Visitors)
    <3>1. Admitted' \in SUBSET Visitors
      BY DEF Admitted
    <3>. QED BY <3>1, FinitelyMany, FS_Subset, FS_CardinalityType
  <2>. QED BY <1>0, <2>2, <2>3, <2>4, Counts, MaxSizeAssumption DEF RoomLeft
<1>. QED BY <1>2, <1>4

LEMMA OneMore ==
    ASSUME NEW S, IsFiniteSet(S), NEW x, NEW T \in SUBSET (S \cup {x})
    PROVE  Cardinality(T) \in Nat /\ Cardinality(T) <= Cardinality(S) + 1
<1>1. Cardinality(S) \in Nat
  BY FS_CardinalityType
<1>2. IsFiniteSet(S \cup {x})
  BY FS_AddElement
<1>3. Cardinality(S \cup {x}) = IF x \in S THEN Cardinality(S) ELSE Cardinality(S) + 1
  BY FS_AddElement
<1>4. IsFiniteSet(T) /\ Cardinality(T) <= Cardinality(S \cup {x})
  BY <1>2, FS_Subset
<1>5. Cardinality(T) \in Nat
  BY <1>4, FS_CardinalityType
<1>. QED BY <1>1, <1>3, <1>4, <1>5

\* The entry a visitor adds is the one it was admitted for.
LEMMA AssignRoom == ASSUME GeoInv, RoomLeft, NEW p \in Visitors, Assign(p) PROVE RoomLeft'
<1>. USE DEF GeoInv, GeoTyped
<1>1. PICK a \in address[p] : cache' = [cache EXCEPT ![a] = IF @ = {} THEN {""} ELSE @]
  BY DEF Assign
<1>2. /\ step[p] = "assign" /\ step' = [step EXCEPT ![p] = "fill"] /\ UNCHANGED address
      /\ address[p] = {a} /\ a \in Addresses
  <2>1. step[p] = "assign" /\ step' = [step EXCEPT ![p] = "fill"] /\ UNCHANGED address
    BY DEF Assign, Goto
  <2>. QED BY <2>1 DEF OneAddress
<1>3. Admitted' = Admitted \ {p}
  BY <1>2 DEF Admitted
<1>4. CASE a \in Unreadable
  <2>1. Positive' \subseteq Positive
    BY <1>1, <1>2, <1>4 DEF Positive
  <2>. QED BY <1>3, <2>1, RoomKept
<1>5. CASE a \notin Unreadable
  <2>1. p \in Admitted
    BY <1>2, <1>5 DEF Admitted
  <2>2. Cardinality(Admitted') = Cardinality(Admitted) - 1
    BY <1>3, <2>1, Counts, FS_RemoveElement
  <2>3. Positive' \in SUBSET (Positive \cup {a})
    BY <1>1, <1>2 DEF Positive
  <2>4. Cardinality(Positive') \in Nat /\ Cardinality(Positive') <= Cardinality(Positive) + 1
    BY <2>3, Counts, OneMore
  <2>. HIDE DEF GeoInv, GeoTyped
  <2>. QED BY <2>2, <2>4, Counts, MaxSizeAssumption DEF RoomLeft
<1>. QED BY <1>4, <1>5

\* The store goes to a place that is there, or nowhere.
LEMMA FillRoom == ASSUME GeoInv, RoomLeft, NEW p \in Visitors, Fill(p) PROVE RoomLeft'
<1>. USE DEF GeoInv, GeoTyped
<1>1. PICK a \in address[p] :
         /\ cache' = IF p \in adrift THEN cache ELSE [cache EXCEPT ![a] = {Country[a]}]
         /\ Decide(p, a, Country[a])
  BY DEF Fill
<1>2. a \in Addresses /\ (p \notin adrift => cache[a] # {})
  BY DEF Fill, Placed, Filling
<1>3. Positive' \subseteq Positive
  BY <1>1, <1>2 DEF Positive
<1>4. Admitted' \subseteq Admitted
  BY <1>1 DEF Decide, Goto, Admitted
<1>. QED BY <1>3, <1>4, RoomKept

\* The others change neither the map nor who is admitted.
LEMMA OtherRoom ==
    ASSUME GeoInv, RoomLeft, NEW p \in Visitors, CheckNil(p) \/ (\E a \in Addresses : Lookup(p, a))
    PROVE  RoomLeft'
<1>. USE DEF GeoInv, GeoTyped
<1>1. Positive' = Positive
  BY DEF CheckNil, Lookup, Positive
<1>2. /\ step'[p] = "assign" => address'[p] \cap Unreadable # {}
      /\ \A o \in Visitors : o # p => step'[o] = step[o] /\ address'[o] = address[o]
  <2>1. CASE CheckNil(p)
    <3>1. /\ step[p] = "lookup" /\ UNCHANGED address
          /\ step' = [step EXCEPT ![p] = IF ~made THEN "make" ELSE WithMap(p)]
      BY <2>1 DEF CheckNil, Goto
    <3>2. WithMap(p) = "assign" => address[p] \cap Unreadable # {}
      BY <3>1, WithMapKnown
    <3>. QED BY <3>1, <3>2
  <2>2. CASE \E a \in Addresses : Lookup(p, a)
    BY <2>2 DEF Lookup, Decide, Goto
  <2>. QED BY <2>1, <2>2
<1>3. Admitted' \subseteq Admitted
  BY <1>2 DEF Admitted
<1>. QED BY <1>1, <1>3, RoomKept

-----------------------------------------------------------------------------
\* A step of the requests is a step of the decaying map, or none: a crash ends the
\* sweeping goroutine as closing the state does.
LEMMA LookupsStep == ASSUME TypeOK, [LookupsNext]_<<vars, geoVars>> PROVE [Next]_vars
<1>1. ASSUME NEW p \in Callers, Condition(p) PROVE UNCHANGED vars
  BY <1>1 DEF Condition
<1>2. ASSUME NEW p \in Callers, Cached(p) PROVE Next
  BY <1>2 DEF Cached, Next
<1>3. CASE Crash
  <2>1. CASE closed
    <3>1. closed = TRUE
      BY <2>1, Zenon DEF TypeOK
    <3>. QED BY <1>3, <3>1 DEF Crash, vars
  <2>2. CASE ~closed
    BY <1>3, <2>2 DEF Crash, Close, Next
  <2>. QED BY <2>1, <2>2
<1>. QED BY <1>1, <1>2, <1>3 DEF LookupsNext, Sweep, End, Clock, Next

LEMMA NextGeo == ASSUME GeoInv, RoomLeft, [LookupsNext]_<<vars, geoVars>> PROVE GeoInv' /\ RoomLeft'
<1>1. ASSUME NEW p \in Visitors, Evaluate(p) PROVE GeoInv'
  BY <1>1, LookupGeo, CheckGeo, MakeGeo, AssignGeo, FillGeo DEF Evaluate
<1>2. ASSUME NEW p \in Visitors, Evaluate(p) PROVE RoomLeft'
  BY <1>2, OtherRoom, CheckRoom, MakeRoom, AssignRoom, FillRoom DEF Evaluate
<1>3. ASSUME UNCHANGED <<cache, step, address, adrift, misled, shared>> PROVE GeoInv' /\ RoomLeft'
  <2>1. GeoInv'
    BY <1>3 DEF GeoInv, GeoTyped, OneAddress, Placed, OneFills, WrongOnlyByRace, Filling, AllFilling
  <2>2. Positive' = Positive /\ Admitted' = Admitted
    BY <1>3 DEF Positive, Admitted
  <2>. QED BY <2>1, <2>2, RoomKept
<1>4. CASE \E p \in Callers : Condition(p)
  BY <1>1, <1>2, <1>4, CallersAssumption DEF Condition
<1>5. CASE (\E p \in Callers : Cached(p)) \/ Sweep \/ End \/ Clock \/ Crash \/ UNCHANGED geoVars
  BY <1>3, <1>5 DEF Cached, Sweep, End, Clock, Crash, Fault, geoVars
<1>. QED BY <1>4, <1>5 DEF LookupsNext

LEMMA LookupsInvariant == LookupsSpec => [](IInv /\ GeoInv /\ RoomLeft)
<1>1. LookupsInit => IInv /\ GeoInv /\ RoomLeft
  BY InitIInv, InitGeo, InitRoom DEF LookupsInit
<1>2. IInv /\ [LookupsNext]_<<vars, geoVars>> => IInv'
  BY NextIInv, LookupsStep DEF IInv
<1>3. GeoInv /\ RoomLeft /\ [LookupsNext]_<<vars, geoVars>> => GeoInv' /\ RoomLeft'
  BY NextGeo
<1>. QED BY <1>1, <1>2, <1>3, PTL DEF LookupsSpec

\* A country condition is decided by what the database says, for any number of
\* visitors and addresses, as long as no map access falls between the two halves of
\* another's assignment: making the map twice and losing entries does no harm.
THEOREM WrongOnlyRacing == LookupsSpec => []WrongOnlyByRace
<1>1. GeoInv => WrongOnlyByRace
  BY DEF GeoInv
<1>. QED BY <1>1, LookupsInvariant, PTL

\* The size limit is exceeded by less than one positive entry per visitor, although
\* other visitors may add entries between a visitor's test and its assignment.
THEOREM PositivesBounded == LookupsSpec => []PositiveBounded
<1>1. ASSUME RoomLeft PROVE PositiveBounded
  <2>1. Cardinality(Positive) <= MaxSize + Cardinality(Visitors) - 1
    BY <1>1, Counts, MaxSizeAssumption DEF RoomLeft
  <2>. QED BY <2>1 DEF PositiveBounded, Positive
<1>. QED BY <1>1, LookupsInvariant, PTL

\* The decaying map keeps its promises while the same requests use the country
\* cache, and also if that ends the process.
THEOREM LookupsKeep == LookupsSpec => []NoNeedlessFetch /\ DropsOnlyExpired
<1>1. IInv => NoNeedlessFetch
  BY DEF IInv
<1>2. IInv /\ [LookupsNext]_<<vars, geoVars>> =>
        [\A k \in Keys : data'[k] = {} => \A e \in data[k] : Expired(e)]_vars
  BY NextIInv, LookupsStep DEF IInv
<1>. QED BY <1>1, <1>2, LookupsInvariant, PTL DEF LookupsSpec, DropsOnlyExpired
=============================================================================
