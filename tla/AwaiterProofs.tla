----------------------------- MODULE AwaiterProofs -----------------------------
(***************************************************************************)
(* The awaiter's invariants, for any number of waiters, solvers and keys,  *)
(* and what they give preload-link.  The awaiter's part uses nothing of    *)
(* PreloadLink, neither its state nor its assumptions.                     *)
(***************************************************************************)
EXTENDS PreloadLink, TLAPS

\* A callback that is in the map has not been run, and a callback that is being
\* run has left the map for good.
OutOfMap == \A s \in Solvers : \A w \in target[s] :
              /\ wpc[w] # "start" /\ \A k \in Keys : w \notin callback[k]
              /\ call[s].key = wkey[w] /\ spc[s] # "start"

\* The atomic of a waiter whose callback has stored holds what the one Solve that
\* took the callback was called with; no other waiter's atomic was touched.
StoredBySolve ==
    \A w \in Waiters :
      /\ stored[w] # "None" => \E s \in Solvers : w \in target[s] /\ call[s].res = stored[w]
      /\ \A s \in Solvers : w \in target[s] /\ spc[s] \in {"cancel", "end"} => stored[w] = call[s].res

\* A context is only cancelled once a result is stored.
CancelAfterStore ==
    \A w \in Waiters : ctxDone[w] = "cancel" =>
      \E s \in Solvers : w \in target[s] /\ spc[s] = "end"

IInv == /\ TypeOK /\ NoDanglingCallback /\ OneSolveEach /\ OutOfMap /\ StoredBySolve
        /\ CancelAfterStore /\ ResultGenuine

LEMMA InitIInv == Init => IInv
BY DEF Init, IInv, TypeOK, NoDanglingCallback, OneSolveEach, OutOfMap, StoredBySolve,
       CancelAfterStore, ResultGenuine, NoCall

LEMMA SetStep ==
    ASSUME IInv, NEW w \in Waiters, NEW k \in Keys, Set(w, k)
    PROVE  IInv'
<1>. USE DEF IInv, Set, svars
<1>1. TypeOK'
  BY DEF TypeOK
<1>2. NoDanglingCallback'
  BY DEF TypeOK, NoDanglingCallback
<1>3. OneSolveEach'
  BY DEF OneSolveEach
<1>4. OutOfMap'
  BY DEF TypeOK, OutOfMap
<1>5. StoredBySolve' /\ CancelAfterStore'
  BY DEF StoredBySolve, CancelAfterStore
<1>6. ResultGenuine'
  BY DEF TypeOK, ResultGenuine
<1>. QED BY <1>1, <1>2, <1>3, <1>4, <1>5, <1>6

LEMMA DeadlineStep ==
    ASSUME IInv, NEW w \in Waiters, Deadline(w)
    PROVE  IInv'
<1>. USE DEF IInv, Deadline, svars
<1>1. TypeOK'
  BY DEF TypeOK
<1>2. NoDanglingCallback' /\ OneSolveEach' /\ OutOfMap' /\ StoredBySolve'
  BY DEF NoDanglingCallback, OneSolveEach, OutOfMap, StoredBySolve
<1>3. CancelAfterStore'
  BY DEF TypeOK, CancelAfterStore
<1>4. ResultGenuine'
  BY DEF TypeOK, ResultGenuine
<1>. QED BY <1>1, <1>2, <1>3, <1>4

LEMMA LoadStep ==
    ASSUME IInv, NEW w \in Waiters, Load(w)
    PROVE  IInv'
<1>. USE DEF IInv, Load, svars
<1>1. TypeOK'
  BY DEF TypeOK
<1>2. NoDanglingCallback' /\ OneSolveEach' /\ OutOfMap'
  BY DEF TypeOK, NoDanglingCallback, OneSolveEach, OutOfMap
<1>3. StoredBySolve' /\ CancelAfterStore'
  BY DEF StoredBySolve, CancelAfterStore
<1>4. \/ stored[w] = "None" /\ ctxDone[w] = "deadline"
      \/ \E s \in Solvers : w \in target[s] /\ call[s].key = wkey[w] /\ call[s].res = stored[w]
  <2>1. CASE ctxDone[w] = "cancel"
    BY <2>1 DEF CancelAfterStore, StoredBySolve, OutOfMap
  <2>2. CASE ctxDone[w] = "deadline"
    BY <2>2 DEF StoredBySolve, OutOfMap
  <2>. QED BY <2>1, <2>2 DEF TypeOK
<1>5. ResultGenuine'
  BY <1>4 DEF TypeOK, ResultGenuine
<1>. QED BY <1>1, <1>2, <1>3, <1>5

LEMMA DelStep ==
    ASSUME IInv, NEW w \in Waiters, Del(w)
    PROVE  IInv'
<1>. USE DEF IInv, Del, svars
<1>1. TypeOK'
  BY DEF TypeOK
<1>2. NoDanglingCallback'
  BY DEF TypeOK, NoDanglingCallback
<1>3. OneSolveEach' /\ OutOfMap'
  BY DEF TypeOK, OneSolveEach, OutOfMap
<1>4. StoredBySolve' /\ CancelAfterStore'
  BY DEF StoredBySolve, CancelAfterStore
<1>5. ResultGenuine'
  BY DEF TypeOK, ResultGenuine
<1>. QED BY <1>1, <1>2, <1>3, <1>4, <1>5

LEMMA GetAndDelStep ==
    ASSUME IInv, NEW s \in Solvers, NEW k \in Keys, NEW res \in Verdicts, GetAndDel(s, k, res)
    PROVE  IInv'
<1>. USE DEF IInv, GetAndDel, wvars
<1>1. TypeOK'
  BY DEF TypeOK
<1>2. NoDanglingCallback'
  BY DEF TypeOK, NoDanglingCallback
<1>3. target[s] = {}
  BY DEF TypeOK, OutOfMap
<1>4. \A u \in Solvers : u # s => target[u] \cap callback[k] = {}
  BY DEF OutOfMap
<1>5. OneSolveEach'
  BY <1>4 DEF TypeOK, OneSolveEach
<1>6. \A w \in callback[k] : \A j \in Keys : j # k => w \notin callback[j]
  <2>. SUFFICES ASSUME NEW w \in callback[k], NEW j \in Keys, j # k, w \in callback[j]
                PROVE  FALSE
    OBVIOUS
  <2>1. wkey[w] = {k} /\ wkey[w] = {j}
    BY DEF NoDanglingCallback
  <2>. QED BY <2>1
<1>7. OutOfMap'
  <2>1. \A u \in Solvers : u # s => \A j \in Keys : target[u] \cap callback[j] = {}
    BY DEF OutOfMap
  <2>2. target'[s] = callback[k] /\ callback'[k] = {}
    BY DEF TypeOK
  <2>3. \A j \in Keys : j # k => callback'[j] = callback[j]
    BY DEF TypeOK
  <2>4. ASSUME NEW u \in Solvers, NEW w \in target'[u]
        PROVE  /\ wpc'[w] # "start" /\ \A j \in Keys : w \notin callback'[j]
               /\ call'[u].key = wkey'[w] /\ spc'[u] # "start"
    <3>1. CASE u = s
      <4>1. w \in callback[k]
        BY <3>1, <2>2
      <4>2. wkey[w] = {k} /\ wpc[w] # "start"
        BY <4>1 DEF NoDanglingCallback
      <4>3. call'[s].key = {k} /\ spc'[s] # "start"
        BY DEF TypeOK
      <4>4. \A j \in Keys : w \notin callback'[j]
        BY <4>1, <1>6, <2>2, <2>3
      <4>. QED BY <3>1, <4>2, <4>3, <4>4
    <3>2. CASE u # s
      <4>1. target'[u] = target[u] /\ call'[u] = call[u] /\ spc'[u] = spc[u]
        BY <3>2 DEF TypeOK
      <4>2. \A j \in Keys : w \notin callback'[j]
        BY <4>1, <3>2, <2>1, <2>2, <2>3
      <4>. QED BY <4>1, <4>2 DEF OutOfMap
    <3>. QED BY <3>1, <3>2
  <2>. QED BY <2>4 DEF OutOfMap
<1>8. \A u \in Solvers : u # s => target'[u] = target[u] /\ call'[u] = call[u] /\ spc'[u] = spc[u]
  BY DEF TypeOK
<1>9. StoredBySolve'
  BY <1>3, <1>8 DEF TypeOK, StoredBySolve
<1>10. CancelAfterStore'
  BY <1>3, <1>8 DEF TypeOK, CancelAfterStore
<1>11. ResultGenuine'
  BY <1>3, <1>8 DEF TypeOK, ResultGenuine
<1>. QED BY <1>1, <1>2, <1>5, <1>7, <1>9, <1>10, <1>11

LEMMA StoreStep ==
    ASSUME IInv, NEW s \in Solvers, Store(s)
    PROVE  IInv'
<1>. USE DEF IInv, Store, wvars
<1>1. TypeOK'
  BY DEF TypeOK
<1>2. NoDanglingCallback' /\ OneSolveEach'
  BY DEF NoDanglingCallback, OneSolveEach
<1>3. OutOfMap'
  BY DEF TypeOK, OutOfMap
<1>4. StoredBySolve'
  BY DEF TypeOK, StoredBySolve, OneSolveEach
<1>5. CancelAfterStore'
  BY DEF TypeOK, CancelAfterStore
<1>6. ResultGenuine'
  BY DEF ResultGenuine
<1>. QED BY <1>1, <1>2, <1>3, <1>4, <1>5, <1>6

LEMMA CancelStep ==
    ASSUME IInv, NEW s \in Solvers, Cancel(s)
    PROVE  IInv'
<1>. USE DEF IInv, Cancel
<1>1. TypeOK'
  BY DEF TypeOK
<1>2. NoDanglingCallback' /\ OneSolveEach'
  BY DEF NoDanglingCallback, OneSolveEach
<1>3. OutOfMap'
  BY DEF TypeOK, OutOfMap
<1>4. StoredBySolve'
  BY DEF TypeOK, StoredBySolve
<1>5. CancelAfterStore'
  BY DEF TypeOK, CancelAfterStore
<1>6. ResultGenuine'
  BY DEF TypeOK, ResultGenuine
<1>. QED BY <1>1, <1>2, <1>3, <1>4, <1>5, <1>6

LEMMA NextIInv == IInv /\ [Next]_vars => IInv'
<1>. SUFFICES ASSUME IInv, [Next]_vars PROVE IInv'
  OBVIOUS
<1>1. CASE UNCHANGED vars
  BY <1>1 DEF vars, IInv, TypeOK, NoDanglingCallback, OneSolveEach, OutOfMap, StoredBySolve,
              CancelAfterStore, ResultGenuine
<1>. QED BY <1>1, SetStep, DeadlineStep, LoadStep, DelStep, GetAndDelStep, StoreStep, CancelStep
     DEF Next, Waiting, Solving

\* The awaiter keeps its type.
THEOREM AwaiterType == Spec => []TypeOK
<1>1. IInv => TypeOK
  BY DEF IInv
<1>. QED BY <1>1, InitIInv, NextIInv, PTL DEF Spec

\* However waits and solves of shared keys interleave, the map only holds the
\* callbacks of calls of Await that have not returned.
THEOREM NoDangling == Spec => []NoDanglingCallback
<1>1. IInv => NoDanglingCallback
  BY DEF IInv
<1>. QED BY <1>1, InitIInv, NextIInv, PTL DEF Spec

\* Await returns the result of a Solve of its own key, or None after its deadline.
THEOREM Genuine == Spec => []ResultGenuine
<1>1. IInv => ResultGenuine
  BY DEF IInv
<1>. QED BY <1>1, InitIInv, NextIInv, PTL DEF Spec

\* No two calls of Solve hold the same callback: GetAndDel hands each one out once.
THEOREM SolvedOnce == Spec => []OneSolveEach
<1>1. IInv => OneSolveEach
  BY DEF IInv
<1>. QED BY <1>1, InitIInv, NextIInv, PTL DEF Spec
-----------------------------------------------------------------------------
\* The types of preload-link's own state.  What a handler has computed is there
\* from its first step on.
LinkTyped ==
    /\ hinted \in [Waiters -> SUBSET Keys]
    /\ load \in [Handlers -> [own: SUBSET Keys, token: SUBSET Keys, res: {"None", "OK", "Fail"}]]
    /\ verdict \in [Waiters -> {"None", "OK", "Fail", "Skip"}]

\* A request waits for the key it was hinted, and for no other.
WaitsForHint ==
    \A w \in Waiters :
      /\ \A k \in hinted[w] : hinted[w] = {k}
      /\ wpc[w] # "start" => wkey[w] = hinted[w]

\* What a handler solves its own key with is what its token deserves; the token's
\* key is only ever solved with a failure.
SolvesOwnVerdict ==
    \A h \in Handlers :
      /\ \A k \in load[h].own : load[h].own = {k}
      /\ load[h].own # {} => load[h].res = LinkVerify(load[h].own, load[h].token)
      /\ spc[<<h, 1>>] # "start" =>
           load[h].own # {} /\ call[<<h, 1>>].key = load[h].own /\ call[<<h, 1>>].res = load[h].res
      /\ spc[<<h, 2>>] # "start" => call[<<h, 2>>].res = "Fail"

\* IssueChallenge passes a request on the awaiter's result only.
PassIsResult == \A w \in Waiters : verdict[w] = "OK" => wpc[w] = "returned" /\ result[w] = "OK"

LinkInv == LinkTyped /\ WaitsForHint /\ SolvesOwnVerdict /\ PassIsResult

LEMMA SolverPairs ==
    /\ \A h \in Handlers : <<h, 1>> \in Solvers /\ <<h, 2>> \in Solvers
    /\ \A s \in Solvers : \E h \in Handlers : s = <<h, 1>> \/ s = <<h, 2>>
    /\ \A g, h \in Handlers : <<g, 1>> # <<h, 2>> /\ (g # h => <<g, 1>> # <<h, 1>> /\ <<g, 2>> # <<h, 2>>)
BY HandlersAssumption

LEMMA InitLinkInv == LinkInit => LinkInv
BY SolverPairs DEF LinkInit, Init, NoLoad, LinkInv, LinkTyped, WaitsForHint, SolvesOwnVerdict, PassIsResult

\* A step of preload-link is a step of the awaiter or leaves it alone.
LEMMA LinkStep == ASSUME LinkInv, [LinkNext]_allVars PROVE [Next]_vars
<1>. USE DEF LinkInv, LinkTyped
<1>1. ASSUME NEW w \in Waiters, Await(w) PROVE Next
  BY <1>1 DEF Await, Next
<1>2. ASSUME NEW h \in Handlers, SolveOwn(h) PROVE Next
  <2>1. PICK k \in load[h].own : GetAndDel(<<h, 1>>, k, load[h].res)
    BY <1>2 DEF SolveOwn
  <2>2. k \in Keys /\ load[h].res \in Verdicts
    BY LinkVerdictsAssumption DEF SolvesOwnVerdict, LinkVerify
  <2>. QED BY <2>1, <2>2, SolverPairs DEF Next
<1>3. ASSUME NEW h \in Handlers, SolveToken(h) PROVE Next
  <2>1. PICK k \in load[h].token : GetAndDel(<<h, 2>>, k, load[h].res)
    BY <1>3 DEF SolveToken
  <2>2. k \in Keys /\ load[h].res \in Verdicts
    BY <1>3, LinkVerdictsAssumption DEF SolveToken
  <2>. QED BY <2>1, <2>2, SolverPairs DEF Next
<1>4. CASE UNCHANGED vars
  BY <1>4
<1>. QED BY <1>1, <1>2, <1>3, <1>4
     DEF LinkNext, EarlyHints, NotHinted, Answer, LoadLink, Next, allVars

\* The awaiter's steps other than its calls keep what preload-link relies on.
LEMMA InsideStep ==
    ASSUME IInv, LinkInv, UNCHANGED lvars,
           UNCHANGED vars \/ (\E w \in Waiters : Waiting(w)) \/ (\E s \in Solvers : Solving(s))
    PROVE  LinkInv'
<1>1. UNCHANGED <<hinted, load, verdict, wkey, call>>
  BY DEF lvars, vars, Waiting, Solving, Deadline, Load, Del, Store, Cancel, svars, wvars
<1>2. \A w \in Waiters : /\ wpc'[w] # "start" => wpc[w] # "start"
                         /\ wpc[w] = "returned" => wpc'[w] = "returned" /\ result'[w] = result[w]
  <2>1. CASE UNCHANGED <<wpc, result>>
    BY <2>1
  <2>2. ASSUME NEW o \in Waiters, Load(o) \/ Del(o)
        PROVE  \A w \in Waiters : /\ wpc'[w] # "start" => wpc[w] # "start"
                                  /\ wpc[w] = "returned" => wpc'[w] = "returned" /\ result'[w] = result[w]
    BY <2>2 DEF IInv, TypeOK, Load, Del
  <2>. QED BY <2>1, <2>2 DEF vars, Waiting, Solving, Deadline, Store, Cancel, wvars
<1>3. \A s \in Solvers : spc'[s] # "start" => spc[s] # "start"
  BY DEF IInv, TypeOK, vars, Waiting, Solving, Deadline, Load, Del, Store, Cancel, svars, wvars
<1>4. LinkTyped'
  BY <1>1 DEF LinkInv, LinkTyped
<1>5. WaitsForHint' /\ PassIsResult'
  <2>1. WaitsForHint'
    BY <1>1, <1>2 DEF LinkInv, WaitsForHint
  <2>2. PassIsResult'
    BY <1>1, <1>2 DEF LinkInv, PassIsResult
  <2>. QED BY <2>1, <2>2
<1>6. SolvesOwnVerdict'
  BY <1>1, <1>3, SolverPairs DEF LinkInv, SolvesOwnVerdict
<1>. QED BY <1>4, <1>5, <1>6 DEF LinkInv

\* IssueChallenge's steps.
LEMMA IssueStep ==
    ASSUME IInv, LinkInv, NEW w \in Waiters,
           (\E k \in Keys \ Invented : EarlyHints(w, k)) \/ NotHinted(w) \/ Await(w) \/ Answer(w)
    PROVE  LinkInv'
<1>. USE DEF IInv, TypeOK, LinkInv
<1>1. ASSUME NEW k \in Keys \ Invented, EarlyHints(w, k) PROVE LinkInv'
  <2>1. LinkTyped'
    BY <1>1 DEF EarlyHints, LinkTyped
  <2>2. WaitsForHint'
    BY <1>1 DEF EarlyHints, vars, LinkTyped, WaitsForHint
  <2>3. SolvesOwnVerdict' /\ PassIsResult'
    BY <1>1 DEF EarlyHints, vars, SolvesOwnVerdict, PassIsResult
  <2>. QED BY <2>1, <2>2, <2>3
<1>2. CASE NotHinted(w)
  <2>1. PICK v \in {"Skip", "Fail"} : verdict' = [verdict EXCEPT ![w] = v]
    BY <1>2 DEF NotHinted
  <2>2. LinkTyped' /\ PassIsResult'
    BY <1>2, <2>1 DEF NotHinted, vars, LinkTyped, PassIsResult
  <2>3. WaitsForHint' /\ SolvesOwnVerdict'
    BY <1>2 DEF NotHinted, vars, WaitsForHint, SolvesOwnVerdict
  <2>. QED BY <2>2, <2>3
<1>3. CASE Await(w)
  <2>1. PICK k \in hinted[w] : Set(w, k)
    BY <1>3 DEF Await
  <2>2. hinted[w] = {k}
    BY DEF WaitsForHint
  <2>3. LinkTyped' /\ SolvesOwnVerdict'
    BY <1>3, <2>1 DEF Await, lvars, Set, svars, LinkTyped, SolvesOwnVerdict
  <2>4. WaitsForHint' /\ PassIsResult'
    BY <1>3, <2>1, <2>2 DEF Await, lvars, Set, LinkTyped, WaitsForHint, PassIsResult
  <2>. QED BY <2>3, <2>4
<1>4. CASE Answer(w)
  BY <1>4, LinkVerdictsAssumption DEF Answer, vars, LinkTyped, WaitsForHint, SolvesOwnVerdict, PassIsResult
<1>. QED BY <1>1, <1>2, <1>3, <1>4

\* The verify handler's steps.
LEMMA HandlerStep ==
    ASSUME IInv, LinkInv, NEW h \in Handlers, LoadLink(h) \/ SolveOwn(h) \/ SolveToken(h)
    PROVE  LinkInv'
<1>. USE DEF IInv, TypeOK, LinkInv
<1>1. CASE LoadLink(h)
  <2>1. PICK k \in Keys, token \in Sendable :
          load' = [load EXCEPT ![h] = [own |-> {k}, token |-> token, res |-> LinkVerify({k}, token)]]
    BY <1>1 DEF LoadLink
  <2>2. token \in SUBSET Keys /\ LinkVerify({k}, token) \in {"OK", "Fail"}
    BY KeysAssumption DEF LinkTyped, LinkVerify, Sendable
  <2>3. UNCHANGED <<vars, hinted, verdict>> /\ load[h].own = {}
    BY <1>1 DEF LoadLink, NoLoad
  <2>4. LinkTyped' /\ WaitsForHint' /\ PassIsResult'
    BY <2>1, <2>2, <2>3 DEF vars, LinkTyped, WaitsForHint, PassIsResult
  <2>5. SolvesOwnVerdict'
    <3>1. /\ load'[h].own = {k} /\ load'[h].token = token /\ load'[h].res = LinkVerify({k}, token)
          /\ \A g \in Handlers : g # h => load'[g] = load[g]
      BY <2>1 DEF LinkTyped
    <3>2. /\ \A j \in load'[h].own : load'[h].own = {j}
          /\ load'[h].res = LinkVerify(load'[h].own, load'[h].token)
          /\ spc'[<<h, 1>>] = "start"
          /\ spc'[<<h, 2>>] # "start" => call'[<<h, 2>>].res = "Fail"
      BY <2>3, <3>1 DEF vars, SolvesOwnVerdict
    <3>3. ASSUME NEW g \in Handlers
          PROVE  /\ \A j \in load'[g].own : load'[g].own = {j}
                 /\ load'[g].own # {} => load'[g].res = LinkVerify(load'[g].own, load'[g].token)
                 /\ spc'[<<g, 1>>] # "start" => /\ load'[g].own # {} /\ call'[<<g, 1>>].key = load'[g].own
                                                /\ call'[<<g, 1>>].res = load'[g].res
                 /\ spc'[<<g, 2>>] # "start" => call'[<<g, 2>>].res = "Fail"
      <4>1. CASE g = h
        BY <3>2, <4>1
      <4>2. CASE g # h
        <5>1. load'[g] = load[g] /\ UNCHANGED <<spc, call>>
          BY <2>3, <3>1, <4>2 DEF vars
        <5>. QED BY <5>1 DEF SolvesOwnVerdict
      <4>. QED BY <4>1, <4>2
    <3>. QED BY <3>3, Zenon DEF SolvesOwnVerdict
  <2>. QED BY <2>4, <2>5
<1>2. ASSUME NEW n \in {1, 2}, NEW k \in Keys, GetAndDel(<<h, n>>, k, load[h].res), UNCHANGED lvars,
             n = 1 => load[h].own = {k}, n = 2 => load[h].res = "Fail"
      PROVE  LinkInv'
  <2>1. LinkTyped' /\ WaitsForHint' /\ PassIsResult'
    BY <1>2 DEF GetAndDel, wvars, lvars, LinkTyped, WaitsForHint, PassIsResult
  <2>2. \A s \in Solvers : s # <<h, n>> => spc'[s] = spc[s] /\ call'[s] = call[s]
    BY <1>2 DEF GetAndDel
  <2>3. call'[<<h, n>>].key = {k} /\ call'[<<h, n>>].res = load[h].res
    BY <1>2, SolverPairs DEF GetAndDel
  <2>4. ASSUME NEW g \in Handlers
        PROVE  /\ spc'[<<g, 1>>] # "start" =>
                    load[g].own # {} /\ call'[<<g, 1>>].key = load[g].own /\ call'[<<g, 1>>].res = load[g].res
               /\ spc'[<<g, 2>>] # "start" => call'[<<g, 2>>].res = "Fail"
    <3>1. <<g, 1>> # <<h, n>> \/ (g = h /\ n = 1)
      OBVIOUS
    <3>2. <<g, 2>> # <<h, n>> \/ (g = h /\ n = 2)
      OBVIOUS
    <3>3. ASSUME spc'[<<g, 1>>] # "start"
          PROVE  load[g].own # {} /\ call'[<<g, 1>>].key = load[g].own /\ call'[<<g, 1>>].res = load[g].res
      <4>1. CASE g = h /\ n = 1
        BY <1>2, <2>3, <4>1
      <4>2. CASE <<g, 1>> # <<h, n>>
        BY <2>2, <3>3, <4>2, SolverPairs DEF SolvesOwnVerdict
      <4>. QED BY <3>1, <4>1, <4>2
    <3>4. ASSUME spc'[<<g, 2>>] # "start" PROVE call'[<<g, 2>>].res = "Fail"
      <4>1. CASE g = h /\ n = 2
        BY <1>2, <2>3, <4>1
      <4>2. CASE <<g, 2>> # <<h, n>>
        <5>1. spc'[<<g, 2>>] = spc[<<g, 2>>] /\ call'[<<g, 2>>] = call[<<g, 2>>]
          BY <2>2, <4>2, SolverPairs
        <5>2. SolvesOwnVerdict
          OBVIOUS
        <5>3. spc[<<g, 2>>] # "start" => call[<<g, 2>>].res = "Fail"
          BY <5>2, Zenon DEF SolvesOwnVerdict
        <5>. QED BY <3>4, <5>1, <5>3
      <4>. QED BY <3>2, <4>1, <4>2
    <3>. QED BY <3>3, <3>4
  <2>5. SolvesOwnVerdict'
    BY <1>2, <2>4 DEF lvars, SolvesOwnVerdict
  <2>. QED BY <2>1, <2>5
<1>3. CASE SolveOwn(h)
  <2>1. PICK k \in load[h].own : GetAndDel(<<h, 1>>, k, load[h].res)
    BY <1>3 DEF SolveOwn
  <2>2. k \in Keys
    BY DEF LinkTyped
  <2>3. load[h].own = {k}
    BY DEF SolvesOwnVerdict
  <2>. QED BY <1>2, <1>3, <2>1, <2>2, <2>3 DEF SolveOwn
<1>4. CASE SolveToken(h)
  <2>1. PICK k \in load[h].token : GetAndDel(<<h, 2>>, k, load[h].res)
    BY <1>4 DEF SolveToken
  <2>2. k \in Keys
    BY DEF LinkTyped
  <2>. QED BY <1>2, <1>4, <2>1, <2>2 DEF SolveToken
<1>. QED BY <1>1, <1>3, <1>4

LEMMA NextLinkInv == IInv /\ LinkInv /\ [LinkNext]_allVars => LinkInv'
<1>. SUFFICES ASSUME IInv, LinkInv, [LinkNext]_allVars PROVE LinkInv'
  OBVIOUS
<1>1. CASE UNCHANGED allVars
  BY <1>1, InsideStep DEF allVars
<1>. QED BY <1>1, InsideStep, IssueStep, HandlerStep DEF LinkNext

LEMMA LinkInvariant == LinkSpec => [](IInv /\ LinkInv)
<1>1. LinkInit => IInv /\ LinkInv
  BY InitIInv, InitLinkInv DEF LinkInit
<1>2. IInv /\ LinkInv /\ [LinkNext]_allVars => (IInv /\ LinkInv)'
  BY LinkStep, NextIInv, NextLinkInv
<1>. QED BY <1>1, <1>2, PTL DEF LinkSpec

\* A request passes preload-link only by a load that came from its own client and
\* brought the token of its own Link header or, over IPv6, any token with the IPv4
\* flag, for any number of requests, loads, keys and made-up tokens.
THEOREM PassByOwnLoad == LinkSpec => []PassNeedsOwnLoad
<1>1. ASSUME IInv, LinkInv PROVE PassNeedsOwnLoad
  <2>. SUFFICES ASSUME NEW w \in Waiters, verdict[w] = "OK"
                PROVE  \E h \in Handlers :
                         /\ load[h].own = hinted[w]
                         /\ \/ load[h].token = hinted[w]
                            \/ hinted[w] \cap IPv4Keys = {} /\ load[h].token \cap IPv4Keys # {}
    BY DEF PassNeedsOwnLoad
  <2>1. wpc[w] = "returned" /\ result[w] = "OK" /\ wkey[w] = hinted[w]
    BY <1>1 DEF LinkInv, PassIsResult, WaitsForHint
  <2>2. PICK s \in Solvers : w \in target[s] /\ call[s].key = hinted[w] /\ call[s].res = "OK"
    BY <1>1, <2>1 DEF IInv, ResultGenuine
  <2>3. spc[s] # "start"
    BY <1>1, <2>2 DEF IInv, OutOfMap
  <2>4. PICK h \in Handlers : s = <<h, 1>> \/ s = <<h, 2>>
    BY SolverPairs
  <2>5. s = <<h, 1>>
    BY <1>1, <2>2, <2>3, <2>4 DEF LinkInv, SolvesOwnVerdict
  <2>6. load[h].own = hinted[w] /\ LinkVerify(load[h].own, load[h].token) = "OK"
    BY <1>1, <2>2, <2>3, <2>5 DEF LinkInv, SolvesOwnVerdict
  <2>. QED BY <2>6 DEF LinkVerify
<1>. QED BY <1>1, LinkInvariant, PTL

\* The awaiter keeps its promises inside preload-link: no callback outlives its
\* request, and the result of a request comes from a Solve of its own key.
THEOREM LinkAwaits == LinkSpec => [](NoDanglingCallback /\ OneSolveEach /\ ResultGenuine)
<1>1. IInv => NoDanglingCallback /\ OneSolveEach /\ ResultGenuine
  BY DEF IInv
<1>. QED BY <1>1, LinkInvariant, PTL
=============================================================================
