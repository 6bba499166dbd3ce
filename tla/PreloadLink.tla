------------------------------ MODULE PreloadLink ------------------------------
(***************************************************************************)
(* lib/challenge/preload-link: IssueChallenge sends an Early Hints         *)
(* response (103) that names the verify URL, and only then waits in the    *)
(* Awaiter for the client to load it.  The verify handler computes the key *)
(* of its own request, which can differ from the one in the URL when the   *)
(* client comes over another network or after the key has rotated, and     *)
(* solves that key, and the URL's key too if the two do not match.         *)
(***************************************************************************)
EXTENDS Awaiter, Sequences

CONSTANTS
    Handlers,   \* requests of the verify URL
    IPv4Keys,   \* the keys with KeyFlagIsIPv4
    Invented    \* tokens of a key's length and form that are no request's key: a
                \* client can make them up, but not a key, which is a keyed hash

ASSUME HandlersAssumption == Solvers = Handlers \X {1, 2}
ASSUME KeysAssumption == IPv4Keys \subseteq Keys /\ Invented \subseteq Keys
ASSUME LinkVerdictsAssumption == Verdicts = {"OK", "Fail"}

VARIABLES
    hinted,   \* hinted[w]: the key in the Link header w's client was sent, if any
    load,     \* load[h]: a request of the verify URL: its own key, the URL's token, the verdict
    verdict   \* verdict[w]: what IssueChallenge returned for w, "None" until then

lvars == <<hinted, load, verdict>>
allVars == <<vars, lvars>>

NoLoad == [own |-> {}, token |-> {}, res |-> "None"]

LinkInit ==
    /\ Init
    /\ hinted = [w \in Waiters |-> {}]
    /\ load = [h \in Handlers |-> NoLoad]
    /\ verdict = [w \in Waiters |-> "None"]

\* IssueChallenge up to w.WriteHeader(http.StatusEarlyHints).
EarlyHints(w, k) ==
    /\ wpc[w] = "start" /\ hinted[w] = {} /\ verdict[w] = "None"
    /\ hinted' = [hinted EXCEPT ![w] = {k}]
    /\ UNCHANGED <<vars, load, verdict>>

\* IssueChallenge without the hint: on HTTP/1 without a Pusher it is skipped, and
\* it fails if no verify URL can be made.
NotHinted(w) ==
    /\ wpc[w] = "start" /\ hinted[w] = {} /\ verdict[w] = "None"
    /\ \E v \in {"Skip", "Fail"} : verdict' = [verdict EXCEPT ![w] = v]
    /\ UNCHANGED <<vars, hinted, load>>

\* ob.Await(issuerKey, ctx)
Await(w) == (\E k \in hinted[w] : Set(w, k)) /\ UNCHANGED lvars

\* The return of IssueChallenge; None means that the deadline was hit.
Answer(w) ==
    /\ wpc[w] = "returned" /\ verdict[w] = "None"
    /\ verdict' = [verdict EXCEPT ![w] = IF result[w] = "None" THEN "Fail" ELSE result[w]]
    /\ UNCHANGED <<vars, hinted, load>>

\* Mutant: any token of the URL is good.
LinkVerifyAny(own, token) == IF token # {} THEN "OK" ELSE "Fail"

\* verifier(key, token, r), of which the handler drops the error: an IPv4 token
\* on an IPv6 request is VerifyResultOK.
LinkVerify(own, token) ==
    IF token = own \/ (own \cap IPv4Keys = {} /\ token \cap IPv4Keys # {}) THEN "OK" ELSE "Fail"

\* The tokens a client can send: of a link that was hinted, to it or to another
\* client, made up, or none that parses.
Sendable == {hinted[w] : w \in Waiters} \cup {{k} : k \in Invented} \cup {{}}

\* The verify handler up to its response.
LoadLink(h) ==
    /\ load[h] = NoLoad
    /\ \E k \in Keys \ Invented, token \in Sendable :
         load' = [load EXCEPT ![h] = [own |-> {k}, token |-> token, res |-> LinkVerify({k}, token)]]
    /\ UNCHANGED <<vars, hinted, verdict>>

\* ob.Solve(issuerKey, verifyResult)
SolveOwn(h) ==
    /\ \E k \in load[h].own : GetAndDel(<<h, 1>>, k, load[h].res)
    /\ UNCHANGED lvars

\* if !verifyResult.Ok() { ob.Solve(token, verifyResult) }
SolveToken(h) ==
    /\ spc[<<h, 1>>] = "end" /\ load[h].res = "Fail"
    /\ \E k \in load[h].token : GetAndDel(<<h, 2>>, k, load[h].res)
    /\ UNCHANGED lvars

LinkNext ==
    \/ \E w \in Waiters : (\E k \in Keys \ Invented : EarlyHints(w, k)) \/ NotHinted(w)
                          \/ Await(w) \/ Answer(w) \/ (Waiting(w) /\ UNCHANGED lvars)
    \/ \E h \in Handlers : LoadLink(h) \/ SolveOwn(h) \/ SolveToken(h)
    \/ \E s \in Solvers : Solving(s) /\ UNCHANGED lvars

\* Await has a deadline, and goroutines that can run do.
LinkSpec ==
    /\ LinkInit /\ [][LinkNext]_allVars
    /\ \A w \in Waiters : WF_allVars(Await(w) \/ Answer(w) \/ (Waiting(w) /\ UNCHANGED lvars))
    /\ \A h \in Handlers : WF_allVars(SolveOwn(h) \/ SolveToken(h))
    /\ \A s \in Solvers : WF_allVars(Solving(s) /\ UNCHANGED lvars)

-----------------------------------------------------------------------------
\* A request passes preload-link only by a load of the verify URL that came from its
\* own client (the load's key is the request's: same network, headers and key
\* period) and brought the token of its own Link header, whatever other requests and
\* clients wait or load at the same time.  Over IPv6, where the handler drops the
\* verifier's error, any token with the IPv4 flag does as well: the link of another
\* client, or one that is made up.  Over IPv4 nothing but the own link does.
PassNeedsOwnLoad ==
    \A w \in Waiters : verdict[w] = "OK" =>
      \E h \in Handlers :
        /\ load[h].own = hinted[w]
        /\ \/ load[h].token = hinted[w]
           \/ hinted[w] \cap IPv4Keys = {} /\ load[h].token \cap IPv4Keys # {}

\* Every request that was sent the hint is answered, whether or not the client
\* loads the link, loads it before the waiter is registered, or twice.
EveryHintAnswered == \A w \in Waiters : hinted[w] # {} ~> verdict[w] # "None"
=============================================================================
