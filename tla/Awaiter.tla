-------------------------------- MODULE Awaiter --------------------------------
(***************************************************************************)
(* lib/challenge/awaiter.go: goroutines that wait for a key to be solved,  *)
(* and goroutines that solve keys.  The map holds one callback for a key.  *)
(* Await installs its callback, blocks on its context, loads the result    *)
(* and, deferred, deletes the key; Solve takes the callback out of the map *)
(* in one step, then stores the result and cancels the waiter's context.   *)
(* The map is lock-free and each operation on it is atomic, so each is a   *)
(* step of its own.                                                        *)
(***************************************************************************)
EXTENDS Integers, FiniteSets

CONSTANTS
    Waiters,   \* calls of Await
    Solvers,   \* calls of Solve
    Keys,
    Verdicts   \* the results Solve is called with

ASSUME VerdictsAssumption == "None" \notin Verdicts

VARIABLES
    callback,   \* callback[k]: the waiter whose callback the map holds for k, if any
    wpc,        \* wpc[w]: "start", "blocked", "loaded" or "returned"
    wkey,       \* wkey[w]: the key w waits for, once it has started
    ctxDone,    \* ctxDone[w]: "no", or how w's context ended: "deadline" or "cancel"
    stored,     \* stored[w]: the atomic the callback stores to
    result,     \* result[w]: what Await loaded and returns
    spc,        \* spc[s]: "start", "store", "cancel" or "end"
    target,     \* target[s]: the waiter whose callback Solve runs, if any
    call        \* call[s]: the key and the result of the Solve call

wvars == <<wpc, wkey, ctxDone, result>>
svars == <<spc, target, call>>
vars == <<callback, wpc, wkey, ctxDone, stored, result, spc, target, call>>

NoCall == [key |-> {}, res |-> "None"]

Init ==
    /\ callback = [k \in Keys |-> {}]
    /\ wpc = [w \in Waiters |-> "start"]
    /\ wkey = [w \in Waiters |-> {}]
    /\ ctxDone = [w \in Waiters |-> "no"]
    /\ stored = [w \in Waiters |-> "None"]
    /\ result = [w \in Waiters |-> "None"]
    /\ spc = [s \in Solvers |-> "start"]
    /\ target = [s \in Solvers |-> {}]
    /\ call = [s \in Solvers |-> NoCall]

-----------------------------------------------------------------------------
\* Await: a.m().Set(key, ...), which replaces a callback that is there.
Set(w, k) ==
    /\ wpc[w] = "start"
    /\ callback' = [callback EXCEPT ![k] = {w}]
    /\ wpc' = [wpc EXCEPT ![w] = "blocked"]
    /\ wkey' = [wkey EXCEPT ![w] = {k}]
    /\ UNCHANGED <<ctxDone, stored, result, svars>>

\* The caller's context ends: its timeout, or the request's connection closes.
Deadline(w) ==
    /\ wpc[w] = "blocked" /\ ctxDone[w] = "no"
    /\ ctxDone' = [ctxDone EXCEPT ![w] = "deadline"]
    /\ UNCHANGED <<callback, wpc, wkey, stored, result, svars>>

\* Mutant: waits for the callback only.
LoadOnCancel(w) ==
    /\ wpc[w] = "blocked" /\ ctxDone[w] = "cancel"
    /\ wpc' = [wpc EXCEPT ![w] = "loaded"]
    /\ result' = [result EXCEPT ![w] = stored[w]]
    /\ UNCHANGED <<callback, wkey, ctxDone, stored, svars>>

\* <-ctx.Done() and the load of the return value.
Load(w) ==
    /\ wpc[w] = "blocked" /\ ctxDone[w] # "no"
    /\ wpc' = [wpc EXCEPT ![w] = "loaded"]
    /\ result' = [result EXCEPT ![w] = stored[w]]
    /\ UNCHANGED <<callback, wkey, ctxDone, stored, svars>>

\* Mutant: the key is left in the map.
DelNothing(w) ==
    /\ wpc[w] = "loaded"
    /\ wpc' = [wpc EXCEPT ![w] = "returned"]
    /\ UNCHANGED <<callback, wkey, ctxDone, stored, result, svars>>

\* The deferred a.m().Del(key) deletes whatever callback the key has.
Del(w) ==
    /\ wpc[w] = "loaded"
    /\ wpc' = [wpc EXCEPT ![w] = "returned"]
    /\ callback' = [k \in Keys |-> IF k \in wkey[w] THEN {} ELSE callback[k]]
    /\ UNCHANGED <<wkey, ctxDone, stored, result, svars>>

\* Mutant: Get instead of GetAndDel.
GetOnly(s, k, res) ==
    /\ spc[s] = "start"
    /\ call' = [call EXCEPT ![s] = [key |-> {k}, res |-> res]]
    /\ target' = [target EXCEPT ![s] = callback[k]]
    /\ spc' = [spc EXCEPT ![s] = IF callback[k] = {} THEN "end" ELSE "store"]
    /\ UNCHANGED <<callback, wvars, stored>>

\* Solve: a.m().GetAndDel(key)
GetAndDel(s, k, res) ==
    /\ spc[s] = "start"
    /\ call' = [call EXCEPT ![s] = [key |-> {k}, res |-> res]]
    /\ target' = [target EXCEPT ![s] = callback[k]]
    /\ callback' = [callback EXCEPT ![k] = {}]
    /\ spc' = [spc EXCEPT ![s] = IF callback[k] = {} THEN "end" ELSE "store"]
    /\ UNCHANGED <<wvars, stored>>

\* Mutant: nothing is stored before the cancel.
StoreNothing(s) ==
    /\ spc[s] = "store"
    /\ spc' = [spc EXCEPT ![s] = "cancel"]
    /\ UNCHANGED <<callback, wvars, stored, target, call>>

\* f(result): result.Store, then cancel().
Store(s) ==
    /\ spc[s] = "store"
    /\ stored' = [w \in Waiters |-> IF w \in target[s] THEN call[s].res ELSE stored[w]]
    /\ spc' = [spc EXCEPT ![s] = "cancel"]
    /\ UNCHANGED <<callback, wvars, target, call>>

Cancel(s) ==
    /\ spc[s] = "cancel"
    /\ ctxDone' = [w \in Waiters |->
                     IF w \in target[s] /\ ctxDone[w] = "no" THEN "cancel" ELSE ctxDone[w]]
    /\ spc' = [spc EXCEPT ![s] = "end"]
    /\ UNCHANGED <<callback, wpc, wkey, stored, result, target, call>>

Waiting(w) == Deadline(w) \/ Load(w) \/ Del(w)
Solving(s) == Store(s) \/ Cancel(s)

Next ==
    \/ \E w \in Waiters : (\E k \in Keys : Set(w, k)) \/ Waiting(w)
    \/ \E s \in Solvers : (\E k \in Keys, res \in Verdicts : GetAndDel(s, k, res)) \/ Solving(s)

\* A context with a timeout ends, and goroutines that can run do.
Spec == Init /\ [][Next]_vars
             /\ \A w \in Waiters : WF_vars(Waiting(w))
             /\ \A s \in Solvers : WF_vars(Solving(s))

-----------------------------------------------------------------------------
\* Type invariant of the awaiter.
TypeOK ==
    /\ callback \in [Keys -> SUBSET Waiters]
    /\ wpc \in [Waiters -> {"start", "blocked", "loaded", "returned"}]
    /\ wkey \in [Waiters -> SUBSET Keys]
    /\ ctxDone \in [Waiters -> {"no", "deadline", "cancel"}]
    /\ stored \in [Waiters -> Verdicts \cup {"None"}]
    /\ result \in [Waiters -> Verdicts \cup {"None"}]
    /\ spc \in [Solvers -> {"start", "store", "cancel", "end"}]
    /\ target \in [Solvers -> SUBSET Waiters]
    /\ call \in [Solvers -> [key: SUBSET Keys, res: Verdicts \cup {"None"}]]

\* The map never keeps the callback of a call that has returned: whoever
\* overwrites or deletes whose entry, what is in the map belongs to a waiter
\* that still waits for that key.  The map does not grow with abandoned waits.
NoDanglingCallback ==
    \A k \in Keys : \A w \in callback[k] : wkey[w] = {k} /\ wpc[w] \in {"blocked", "loaded"}

\* A callback is run by at most one Solve: results of two calls never mix.
OneSolveEach ==
    \A s, u \in Solvers : s # u => target[s] \cap target[u] = {}

\* What Await returns is None or the result of a Solve of the very key it waited
\* for, and None only if its context ended before that result was stored.
ResultGenuine ==
    \A w \in Waiters : wpc[w] \in {"loaded", "returned"} =>
      \/ result[w] = "None" /\ ctxDone[w] = "deadline"
      \/ \E s \in Solvers : w \in target[s] /\ call[s].key = wkey[w] /\ call[s].res = result[w]
=============================================================================
