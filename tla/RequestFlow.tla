------------------------------ MODULE RequestFlow ------------------------------
(***************************************************************************)
(* How go-away serves requests: State.ServeHTTP evaluates the state cookie *)
(* of a request (EvaluateChallenges), then either a challenge's verify     *)
(* route or handleRequest runs.  handleRequest walks the tree of rules     *)
(* (lib/rule.go).  The loop of a CHALLENGE or CHECK action over its        *)
(* challenges (lib/action/challenge.go) may wait for a backend, a DNS      *)
(* server or the client between two iterations, so each is an action.      *)
(*                                                                         *)
(* Clients are arbitrary: any number of them, from any network, sending    *)
(* any state cookie a response ever set, any challenge argument, and to a  *)
(* verify route any key a challenge page ever disclosed.                   *)
(***************************************************************************)
EXTENDS Tokens

CONSTANTS
    Methods,       \* methods of page requests, of "GET" (with HEAD) and "POST"
    Requests,      \* slots of requests served concurrently
    Rules,         \* the rules and their children, in preorder
    MaxTime,       \* bound on the clock
    MaxSecret,     \* bound on the number of key changes
    MaxArrivals    \* bound on the number of requests of a behaviour

\* DENY stands for the actions that answer and stop (DENY, BLOCK, CODE); DROP is
\* the one that stops without ResponseHeaders; NONE stands for the ones that let
\* the next rule run (NONE, CONTEXT).
Actions == {"PASS", "PROXY", "DENY", "DROP", "NONE"}

\* A rule: whether it has conditions, the position of its last descendant (its own
\* if it has none), its action, and for CHALLENGE, which is also CHECK if cont is
\* set, the settings of the Challenge action.  A pass or fail action may itself be a
\* CHALLENGE or CHECK with challenges of its own in the code; here it is a plain one.
RuleState == [cond: BOOLEAN, last: Nat, act: Actions \cup {"CHALLENGE"},
              cont: BOOLEAN, chals: Seq(Challenges), pass: Actions, fail: Actions]

ASSUME ClientsAssumption == Nets # {} /\ Agents # {} /\ Methods \subseteq {"GET", "POST"}
ASSUME RulesAssumption == Rules \in Seq(RuleState)
ASSUME TreeAssumption ==
    \A i \in DOMAIN Rules :
      /\ i <= Rules[i].last /\ Rules[i].last <= Len(Rules)
      /\ \A j \in DOMAIN Rules : i < j /\ j <= Rules[i].last => Rules[j].last <= Rules[i].last
ASSUME BoundsAssumption == MaxTime \in Nat /\ MaxSecret \in Nat /\ MaxArrivals \in Nat

VARIABLES
    clock,       \* time.Now()
    secret,      \* the private key of the serving state; a reload changes it
    arrivals,    \* number of requests that have arrived
    issued,      \* every state cookie a response has set
    disclosed,   \* every challenge key a challenge page has shown
    answers,     \* history: each challenge answered: under which key, when, passed or not
    req,         \* req[q]: what the client sent, and when it arrived
    pc,          \* pc[q]: "idle", "rules", "verify" or "done"
    pos,         \* pos[q]: the rule, and the iteration of its issuing loop (0 before it)
    data,        \* data[q]: the RequestData's challenge map and verdicts
    tried,       \* history: tried[q][c], calls of c's IssueChallenge for this request
    resp         \* resp[q]: the response

vars == <<clock, secret, arrivals, issued, disclosed, answers, req, pc, pos, data, tried, resp>>

AtMostOne(S) == {{}} \cup {{x} : x \in S}

\* The __goaway_ arguments of a URL: the challenge that __goaway_challenge names, or
\* NoneNamed where there are only others (__goaway_referer, __goaway_id).
NoneNamed == "__goaway"

Request == [net: Nets, agent: Agents, session: SUBSET Sessions, method: {"GET", "POST"},
            path: SUBSET Challenges, arg: SUBSET (Challenges \cup {NoneNamed}), token: SUBSET Key,
            cookies: SUBSET Cookie, eligible: SUBSET Challenges, time: Nat, secret: Nat]

Kinds == {"none", "backend", "deny", "clean", "redirect", "challenge", "verified", "retry",
          "refused", "css", "error"}
RequestData == [map: SUBSET Token, modified: BOOLEAN,
                verify: [Challenges -> Results], state: [Challenges -> VerifyStates]]
Response == [kind: Kinds, by: SUBSET Challenges, cookies: SUBSET Cookie]

NoRequest == [net |-> CHOOSE n \in Nets : TRUE, agent |-> CHOOSE a \in Agents : TRUE,
              session |-> {}, method |-> "GET", path |-> {}, arg |-> {}, token |-> {},
              cookies |-> {}, eligible |-> {}, time |-> 0, secret |-> 0]
NoData == [map |-> {}, modified |-> FALSE, verify |-> [c \in Challenges |-> "None"],
           state |-> [c \in Challenges |-> "None"]]
NoResponse == [kind |-> "none", by |-> {}, cookies |-> {}]
Start == [rule |-> 1, idx |-> 0]
Untried == [c \in Challenges |-> 0]

Init ==
    /\ clock = 0 /\ secret = 0 /\ arrivals = 0
    /\ issued = {} /\ disclosed = {} /\ answers = {}
    /\ req = [q \in Requests |-> NoRequest]
    /\ pc = [q \in Requests |-> "idle"]
    /\ pos = [q \in Requests |-> Start]
    /\ data = [q \in Requests |-> NoData]
    /\ tried = [q \in Requests |-> Untried]
    /\ resp = [q \in Requests |-> NoResponse]

-----------------------------------------------------------------------------
\* Challenges with a verify route: their own Handler, or the default one
\* setupRoutes registers wherever reg.Verify is set.
Routed == {c \in Challenges : Runtime[c] \in {"refresh", "resource-load", "preload-link"}}
            \cup CookieBound

\* What clients send: a page (any path outside the verify routes) or a verify URL,
\* whose route only asks whether its own challenge is named.
PageRequests ==
    [net: Nets, agent: Agents, session: AtMostOne(Sessions), method: Methods,
     path: {{}}, arg: AtMostOne(Challenges \cup {NoneNamed}), token: {{}},
     cookies: AtMostOne(issued), eligible: SUBSET Conditioned, time: {clock}, secret: {secret}]
VerifyRequests ==
    [net: Nets, agent: Agents, session: AtMostOne(Sessions), method: {"GET"},
     path: {{c} : c \in Routed}, arg: AtMostOne(Challenges), token: AtMostOne(disclosed),
     cookies: AtMostOne(issued), eligible: SUBSET Conditioned, time: {clock}, secret: {secret}]

\* CreateRequestData and EvaluateChallenges of State.ServeHTTP.
Accept(q, r) ==
    /\ pc[q] = "idle"
    /\ req' = [req EXCEPT ![q] = r]
    /\ \E spots \in SUBSET CookieBound :
         data' = [data EXCEPT ![q] = EvaluateChallenges(r, clock, spots)]
    /\ pc' = [pc EXCEPT ![q] = IF r.path = {} THEN "rules" ELSE "verify"]
    /\ UNCHANGED <<clock, secret, issued, disclosed, answers, pos, tried, resp>>

Arrive(q, r) == arrivals < MaxArrivals /\ arrivals' = arrivals + 1 /\ Accept(q, r)

ArrivePage(q) == \E r \in PageRequests : Arrive(q, r)
ArriveVerify(q) == \E r \in VerifyRequests : Arrive(q, r)

-----------------------------------------------------------------------------
Reply(q, d, kind, by, cookies) ==
    /\ data' = [data EXCEPT ![q] = d]
    /\ resp' = [resp EXCEPT ![q] = [kind |-> kind, by |-> by, cookies |-> cookies]]
    /\ issued' = issued \cup cookies
    /\ pc' = [pc EXCEPT ![q] = "done"]
    /\ UNCHANGED pos

\* Nearly every response goes out through RequestData.ResponseHeaders, which
\* sets the state cookie if the map was modified.  by is the challenge the
\* response is due to.
Respond(q, d, kind, by) == Reply(q, d, kind, by, ResponseCookies(d, req[q]))

\* The handler returned next: the first child of the rule runs, or its successor.
NextRule(q, d) ==
    /\ data' = [data EXCEPT ![q] = d]
    /\ pos' = [pos EXCEPT ![q] = [rule |-> @.rule + 1, idx |-> 0]]
    /\ UNCHANGED <<resp, issued, pc>>

NextChallenge(q, d) ==
    /\ data' = [data EXCEPT ![q] = d]
    /\ pos' = [pos EXCEPT ![q] = [rule |-> @.rule, idx |-> @.idx + 1]]
    /\ UNCHANGED <<resp, issued, pc>>

\* The action of a rule, or the PassAction or FailAction of its challenges.  PROXY
\* is an error if it names a backend there is not.
Act(q, d, action, by) ==
    \/ action \in {"PASS", "PROXY"} /\ Respond(q, d, "backend", by)
    \/ action = "PROXY" /\ Respond(q, d, "error", {})
    \/ action = "DENY" /\ Respond(q, d, "deny", {})
    \/ action = "DROP" /\ Reply(q, d, "deny", {}, {})
    \/ action = "NONE" /\ NextRule(q, d)

Pass(q, d, rule, c) == IF rule.cont THEN NextRule(q, d) ELSE Act(q, d, rule.pass, {c})

InRule(q) == pc[q] = "rules" /\ pos[q].rule \in DOMAIN Rules
Rule(q) == Rules[pos[q].rule]
Valid(q) == {i \in DOMAIN Rule(q).chals : Ok(data[q].verify[Rule(q).chals[i]])}

Entering(q) == InRule(q) /\ pos[q].idx = 0

\* handleRequest: the request's host has no backend.
NoBackend(q) ==
    /\ pc[q] = "rules" /\ pos[q] = Start
    /\ Reply(q, data[q], "refused", {}, {})
    /\ UNCHANGED <<clock, secret, arrivals, disclosed, answers, req, tried>>

\* Mutant: the children are run although the rule was not hit.
RuleMissToChild(q) ==
    /\ Entering(q) /\ Rule(q).cond
    /\ NextRule(q, data[q])
    /\ UNCHANGED <<clock, secret, arrivals, disclosed, answers, req, tried>>

\* RuleState.Evaluate: the condition is false, and the rule is passed over with
\* its children.
RuleMiss(q) ==
    /\ Entering(q) /\ Rule(q).cond
    /\ pos' = [pos EXCEPT ![q] = [rule |-> Rule(q).last + 1, idx |-> 0]]
    /\ UNCHANGED <<clock, secret, arrivals, issued, disclosed, answers, req, pc, data, tried, resp>>

\* ... or it cannot be evaluated: an error page, and the handler panics.
RuleError(q) ==
    /\ Entering(q) /\ Rule(q).cond
    /\ Respond(q, data[q], "error", {})
    /\ UNCHANGED <<clock, secret, arrivals, disclosed, answers, req, tried>>

\* ... or it holds: the rule's handler runs.
RuleHit(q) ==
    /\ Entering(q) /\ Rule(q).act # "CHALLENGE"
    /\ Act(q, data[q], Rule(q).act, {})
    /\ UNCHANGED <<clock, secret, arrivals, disclosed, answers, req, tried>>

\* Mutant: redirected to the clean URL also from there.
PassedBeforeAlwaysClean(q) ==
    /\ Entering(q) /\ Rule(q).act = "CHALLENGE"
    /\ \E i \in Valid(q) :
         (\A j \in Valid(q) : i <= j) /\ Respond(q, data[q], "clean", {Rule(q).chals[i]})
    /\ UNCHANGED <<clock, secret, arrivals, disclosed, answers, req, tried>>

\* Challenge.Handle, first loop: some challenge of the rule is valid.
PassedBefore(q) ==
    /\ Entering(q) /\ Rule(q).act = "CHALLENGE"
    /\ \E i \in Valid(q) :
         /\ \A j \in Valid(q) : i <= j
         /\ IF req[q].method = "GET" /\ req[q].arg # {}
              THEN Respond(q, data[q], "clean", {Rule(q).chals[i]})
              ELSE Pass(q, data[q], Rule(q), Rule(q).chals[i])
    /\ UNCHANGED <<clock, secret, arrivals, disclosed, answers, req, tried>>

\* ... and none is: go on to the issuing loop.
StartIssuing(q) ==
    /\ Entering(q) /\ Rule(q).act = "CHALLENGE" /\ Valid(q) = {}
    /\ NextChallenge(q, data[q])
    /\ UNCHANGED <<clock, secret, arrivals, disclosed, answers, req, tried>>

Issuing(q) == InRule(q) /\ pos[q].idx \in DOMAIN Rule(q).chals
Current(q) == Rule(q).chals[pos[q].idx]

\* Mutant: challenges issued to this request before are not skipped.
SkippedOnResult(q) == data[q].verify[Current(q)] \in {"OK", "Skip"}

Skipped(q) == \/ data[q].verify[Current(q)] \in {"OK", "Skip"}
              \/ data[q].state[Current(q)] = "Pass"

SkipChallenge(q) ==
    /\ Issuing(q) /\ Skipped(q)
    /\ NextChallenge(q, data[q])
    /\ UNCHANGED <<clock, secret, arrivals, disclosed, answers, req, tried>>

-----------------------------------------------------------------------------
(* reg.IssueChallenge of each runtime.  Verdict is what Challenge.Handle   *)
(* records of it; Record adds to the history of answers.                   *)
Issue(q, runtime) ==
    /\ Issuing(q) /\ ~Skipped(q)
    /\ Runtime[Current(q)] = runtime
    /\ tried' = [tried EXCEPT ![q][Current(q)] = @ + 1]
    /\ UNCHANGED <<clock, secret, arrivals, req>>

\* Mutant: the state is not recorded.
VerdictStateless(d, c, result) == [d EXCEPT !.verify[c] = result]

Verdict(d, c, result) == [d EXCEPT !.verify[c] = result, !.state[c] = "Pass"]

Record(q, c, ok) ==
    answers' = answers \cup {[key |-> KeyFor(c, req[q]), at |-> req[q].time, ok |-> ok]}

\* cookie: hands the token out and redirects to the same page.  The token is
\* issued before the redirect URL can fail.
IssueCookie(q) ==
    /\ Issue(q, "cookie")
    /\ LET c == Current(q)
           d == IssueChallengeToken(data[q], c, req[q], {}, TRUE)
       IN  /\ Record(q, c, TRUE)
           /\ \/ Respond(q, Verdict(d, c, "None"), "redirect", {c})
              \/ Act(q, Verdict(d, c, "Fail"), Rule(q).fail, {})
    /\ UNCHANGED disclosed

\* refresh and resource-load: a page that makes the client load the verify URL.
IssuePage(q, runtime) ==
    /\ Issue(q, runtime)
    /\ LET c == Current(q)
       IN  \/ /\ disclosed' = disclosed \cup {KeyFor(c, req[q])}
              /\ Respond(q, Verdict(data[q], c, "None"), "challenge", {c})
           \/ /\ Act(q, Verdict(data[q], c, "Fail"), Rule(q).fail, {})
              /\ UNCHANGED disclosed
    /\ UNCHANGED answers

IssueRefresh(q) == IssuePage(q, "refresh")
IssueResourceLoad(q) == IssuePage(q, "resource-load")

\* A transparent challenge that was answered on the spot.
Answered(q, c, res, ok) ==
    LET d == IssueChallengeToken(data[q], c, req[q], res, ok)
    IN  /\ Record(q, c, ok)
        /\ IF ok THEN Pass(q, Verdict(d, c, "OK"), Rule(q), c)
                 ELSE NextChallenge(q, Verdict(d, c, "NotOK"))

\* ... or that does not let the request through and leaves no token.
Unanswered(q, c, result) ==
    UNCHANGED answers /\ NextChallenge(q, Verdict(data[q], c, result))

\* http: skipped without the session cookie, else the backend is asked.
IssueHttp(q) ==
    /\ Issue(q, "http")
    /\ LET c == Current(q)
           bound == c \in CookieBound
       IN  IF bound /\ req[q].session = {} THEN Unanswered(q, c, "Skip")
           ELSE \/ Unanswered(q, c, "Fail")
                \/ \E ok \in BOOLEAN :
                     Answered(q, c, IF bound THEN req[q].session ELSE {}, ok)
    /\ UNCHANGED disclosed

\* dnsbl: ok unless the block list names the address.
IssueDnsbl(q) ==
    /\ Issue(q, "dnsbl")
    /\ \E ok \in BOOLEAN : Answered(q, Current(q), {}, ok)
    /\ UNCHANGED disclosed

\* preload-link: waits for the client to load the hinted link (PreloadLink).  A
\* pass leaves no token.
IssuePreloadLink(q) ==
    /\ Issue(q, "preload-link")
    /\ LET c == Current(q)
       IN  \/ \E result \in {"Skip", "Fail"} : Unanswered(q, c, result)
           \/ Record(q, c, TRUE) /\ Pass(q, Verdict(data[q], c, "OK"), Rule(q), c)
    /\ UNCHANGED disclosed

\* End of the loop: nothing matched, the FailAction runs.
NothingMatched(q) ==
    /\ InRule(q) /\ pos[q].idx > Len(Rule(q).chals) /\ pos[q].idx > 0
    /\ Act(q, data[q], Rule(q).fail, {})
    /\ UNCHANGED <<clock, secret, arrivals, disclosed, answers, req, tried>>

\* handleRequest after the last rule: default pass.
DefaultPass(q) ==
    /\ pc[q] = "rules" /\ pos[q].rule \notin DOMAIN Rules
    /\ Respond(q, data[q], "backend", {})
    /\ UNCHANGED <<clock, secret, arrivals, disclosed, answers, req, tried>>

-----------------------------------------------------------------------------
\* What reg.Verify says of the token of a verify URL, once GetVerifyInformation
\* accepts it.  The http runtime's token is a hash no client is ever given.
VerifyOutcome(q, c) ==
    IF c \notin req[q].arg \/ Runtime[c] = "http" THEN "Fail"
    ELSE KeyVerify(KeyFor(c, req[q]), req[q].token)

\* VerifyHandlerFunc, the token verifies.
VerifyPassed(q) ==
    /\ pc[q] = "verify"
    /\ \E c \in req[q].path :
         /\ Runtime[c] # "preload-link" /\ VerifyOutcome(q, c) = "OK"
         /\ Record(q, c, TRUE)
         /\ Respond(q, [IssueChallengeToken(data[q], c, req[q], {}, TRUE)
                          EXCEPT !.verify[c] = "OK"], "verified", {c})
    /\ UNCHANGED <<clock, secret, arrivals, disclosed, req, tried>>

\* VerifyHandlerFunc, it does not: an error answer, or for an IPv4 key on an
\* IPv6 request the default response's redirect to the stripped verify URL.
VerifyRefused(q) ==
    /\ pc[q] = "verify"
    /\ \E c \in req[q].path :
         /\ Runtime[c] # "preload-link" /\ VerifyOutcome(q, c) # "OK"
         /\ Respond(q, data[q],
                    IF VerifyOutcome(q, c) = "Eyeballs" /\ Runtime[c] = "refresh"
                      THEN "retry" ELSE "refused", {})
    /\ UNCHANGED <<clock, secret, arrivals, disclosed, answers, req, tried>>

\* The verify route of preload-link: an empty style sheet, and no token.  On a
\* malformed URL the status line is written before the headers are set.
VerifyPreloadLink(q) ==
    /\ pc[q] = "verify"
    /\ \E c \in req[q].path :
         /\ Runtime[c] = "preload-link"
         /\ IF c \in req[q].arg THEN Respond(q, data[q], "css", {})
                                ELSE Reply(q, data[q], "refused", {}, {})
    /\ UNCHANGED <<clock, secret, arrivals, disclosed, answers, req, tried>>

-----------------------------------------------------------------------------
\* The response has reached the client and the slot is free again.
Finish(q) ==
    /\ pc[q] = "done"
    /\ pc' = [pc EXCEPT ![q] = "idle"]
    /\ req' = [req EXCEPT ![q] = NoRequest]
    /\ pos' = [pos EXCEPT ![q] = Start]
    /\ data' = [data EXCEPT ![q] = NoData]
    /\ tried' = [tried EXCEPT ![q] = Untried]
    /\ resp' = [resp EXCEPT ![q] = NoResponse]
    /\ UNCHANGED <<clock, secret, arrivals, issued, disclosed, answers>>

Tick ==
    /\ clock < MaxTime /\ clock' = clock + 1
    /\ UNCHANGED <<secret, arrivals, issued, disclosed, answers, req, pc, pos, data, tried, resp>>

\* A reload without a configured seed draws a new private key.  Requests in
\* flight keep the state they started with.
Rekey ==
    /\ secret < MaxSecret /\ secret' = secret + 1
    /\ UNCHANGED <<clock, arrivals, issued, disclosed, answers, req, pc, pos, data, tried, resp>>

Handle(q) ==
    \/ RuleMiss(q) \/ RuleError(q) \/ RuleHit(q)
    \/ PassedBefore(q) \/ StartIssuing(q) \/ SkipChallenge(q)
    \/ IssueCookie(q) \/ IssueRefresh(q) \/ IssueResourceLoad(q)
    \/ IssueHttp(q) \/ IssueDnsbl(q) \/ IssuePreloadLink(q)
    \/ NothingMatched(q) \/ DefaultPass(q)
    \/ VerifyPassed(q) \/ VerifyRefused(q) \/ VerifyPreloadLink(q)

Serve(q) == NoBackend(q) \/ Handle(q)

Next ==
    \/ \E q \in Requests : ArrivePage(q) \/ ArriveVerify(q) \/ Serve(q) \/ Finish(q)
    \/ Tick \/ Rekey

Spec == Init /\ [][Next]_vars

-----------------------------------------------------------------------------
Answer == [key: Key, at: Nat, ok: BOOLEAN]

\* Type invariant of the request flow.
TypeOK ==
    /\ clock \in Nat /\ secret \in Nat /\ arrivals \in Nat
    /\ issued \subseteq Cookie /\ disclosed \subseteq Key /\ answers \subseteq Answer
    /\ req \in [Requests -> Request]
    /\ pc \in [Requests -> {"idle", "rules", "verify", "done"}]
    /\ pos \in [Requests -> [rule: Nat \ {0}, idx: Nat]]
    /\ data \in [Requests -> RequestData]
    /\ tried \in [Requests -> [Challenges -> Nat]]
    /\ resp \in [Requests -> Response]

\* The challenge key a pass was recorded under is bound to the client of r.
SameClient(key, c, r) ==
    key.chal = c /\ key.net = r.net /\ key.agent = r.agent /\ key.secret = r.secret

\* A request a rule lets through to the backend because of challenge c is backed
\* by a pass of c from the same network, with the same headers and under the
\* same private key, less than the challenge's Duration before the request
\* arrived: neither replayed nor moved cookies, reloads or late answers get a
\* client through (EvaluateChallenges, GetChallengeKeyForRequest, Expiration).
\* Of an http challenge bound to the session cookie only this much holds: that
\* the backend was asked, whatever it said (see NegativeTokenNotValid).
AdmissionBacked ==
    \A q \in Requests : resp[q].kind = "backend" =>
      \A c \in resp[q].by : \E p \in answers :
        /\ SameClient(p.key, c, req[q]) /\ (p.ok \/ c \in CookieBound)
        /\ p.at <= req[q].time /\ req[q].time < p.at + Duration[c]

ClientOf(r) == [net |-> r.net, agent |-> r.agent, secret |-> r.secret]

\* The abstract state: the answers that count as passes, and what becomes of each
\* request.
Visit(q) ==
    IF pc[q] = "idle" THEN [status |-> "away"]
    ELSE [status |-> IF pc[q] # "done" THEN "waiting"
                     ELSE IF resp[q].kind = "backend" THEN "admitted" ELSE "answered",
          client |-> ClientOf(req[q]), since |-> req[q].time,
          by |-> IF resp[q].kind = "backend" THEN resp[q].by ELSE {}]

Promise == INSTANCE Admission WITH
    Clients <- [net: Nets, agent: Agents, secret: 0 .. MaxSecret],
    now <- clock,
    passes <- {[client |-> [net |-> p.key.net, agent |-> p.key.agent, secret |-> p.key.secret],
                chal |-> p.key.chal, at |-> p.at] :
               p \in {a \in answers : a.ok \/ a.key.chal \in CookieBound}},
    visit <- [q \in Requests |-> Visit(q)]

\* The request flow, with its cookies, keys and rules, implements the abstract
\* specification of admission: every step of it is a step there or changes
\* nothing there.  In particular a pass is only ever won by the client that is
\* being served, and none is ever taken back.
AdmissionPromise == Promise!Spec

\* A CHECK or CHALLENGE rule that turns failures away guards its children: one of
\* them passes a request on only if the client has passed one of the rule's own
\* challenges, as above, whatever conditions, other rules and errors lie between
\* (RuleState.Evaluate).
CheckGuardsChildren ==
    \A q \in Requests : resp[q].kind = "backend" /\ pos[q].rule \in DOMAIN Rules =>
      \A i \in 1 .. pos[q].rule - 1 :
        /\ pos[q].rule <= Rules[i].last
        /\ Rules[i].act = "CHALLENGE" /\ Rules[i].fail \in {"DENY", "DROP"}
        => \E j \in DOMAIN Rules[i].chals : \E p \in answers :
             /\ SameClient(p.key, Rules[i].chals[j], req[q])
             /\ p.ok \/ Rules[i].chals[j] \in CookieBound
             /\ p.at <= req[q].time /\ req[q].time < p.at + Duration[Rules[i].chals[j]]

\* No request makes go-away issue the same challenge twice, whatever rules list
\* it (the test of VerifyStatePass in Challenge.Handle): a backend or a block
\* list is asked at most once per request.
IssuedOnce == \A q \in Requests, c \in Challenges : tried[q][c] <= 1

\* RequestHeaders, which runs for the backend and for the http runtime's own
\* request, writes the state of every passed challenge, and VerifyState.String
\* panics on VerifyStateNone: no challenge is then passed with no state.
HeaderStateKnown ==
    \A q \in Requests :
      \/ resp[q].kind = "backend"
      \/ Issuing(q) /\ ~Skipped(q) /\ Runtime[Current(q)] = "http"
      => \A c \in Challenges : Ok(data[q].verify[c]) => data[q].state[c] # "None"

\* A response that replaces the client's state cookie keeps every pass the
\* presented cookie held for this client: what one challenge adds or clears
\* never costs the client another one.
PassesKept ==
    \A q \in Requests : \A new \in resp[q].cookies : \A old \in req[q].cookies :
      \A t \in old.tokens :
        /\ CookieOpens(old, req[q], req[q].time)
        /\ t.ok /\ t.key = KeyFor(t.key.chal, req[q]) /\ t.key.chal \notin CookieBound
        => \E u \in new.tokens : u.ok /\ u.key = t.key

\* The comment on VerifyResultNotOK: a valid token of a failed check is a
\* negative result, so evaluating it never makes the challenge valid.
NegativeTokenNotValid ==
    \A q \in Requests : pc[q] = "rules" /\ pos[q] = Start =>
      \A t \in data[q].map : ~t.ok => ~Ok(data[q].verify[t.key.chal])
=============================================================================
