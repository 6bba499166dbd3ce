----------------------------- MODULE RuleWalkProofs -----------------------------
(***************************************************************************)
(* What a request meets on its way through the rules, for every policy,    *)
(* every set of clients and every number of concurrent requests: the rules *)
(* that guard others, the challenges issued to it, and what becomes of the *)
(* passes it brought.  And that the whole request flow implements the      *)
(* abstract specification of admission.                                    *)
(***************************************************************************)
EXTENDS RequestFlowProofs

-----------------------------------------------------------------------------
(* What a step of State.ServeHTTP does to its request, whatever the step.  *)

\* The challenge map gets an entry t of challenge c under the key of r.
Entered(old, new, c, r, t) ==
    /\ t.key = KeyFor(c, r) /\ t.exp = Expiration(r.time, Duration[c])
    /\ new = (old \ TokensOf(old, c)) \cup {t}

\* c's IssueChallenge ran and left d.
IssuedTo(q, c, d) ==
    /\ pc[q] = "rules"
    /\ data[q].verify[c] \notin {"OK", "Skip"} /\ data[q].state[c] # "Pass"
    /\ tried' = [tried EXCEPT ![q] = [tried[q] EXCEPT ![c] = tried[q][c] + 1]]
    /\ \E result \in Results : d.verify = [data[q].verify EXCEPT ![c] = result]
    /\ d.state = [data[q].state EXCEPT ![c] = "Pass"]
    /\ d.map = data[q].map \/ \E t : Entered(data[q].map, d.map, c, req[q], t)

\* VerifyHandlerFunc accepted the token of a verify URL and left d.
VerifiedBy(q, c, d) ==
    /\ pc[q] = "verify" /\ UNCHANGED tried
    /\ d.verify = [data[q].verify EXCEPT ![c] = "OK"] /\ d.state = data[q].state
    /\ \E t : t.ok = TRUE /\ Entered(data[q].map, d.map, c, req[q], t)

Changes(q, d) ==
    \/ d = data[q] /\ UNCHANGED tried
    \/ \E c \in Challenges : IssuedTo(q, c, d) \/ VerifiedBy(q, c, d)

\* A rule turns requests away that have passed none of its challenges.
Strict(rule) == rule.act = "CHALLENGE" /\ rule.fail \in {"DENY", "DROP"}

PassedOne(rule, d) == \E j \in DOMAIN rule.chals : Ok(d.verify[rule.chals[j]])

\* The ways a step ends: the next rule runs, which a strict one allows only after
\* a pass; the next iteration; a response; or the rule is passed over.
Moves(q, d) ==
    \/ NextRule(q, d) /\ InRule(q) /\ (Strict(Rule(q)) => PassedOne(Rule(q), d))
    \/ NextChallenge(q, d)
    \/ \E kind \in Kinds, by \in SUBSET Challenges, cookies \in SUBSET ResponseCookies(d, req[q]) :
         Reply(q, d, kind, by, cookies) /\ (kind = "backend" => pc[q] = "rules")
    \/ RuleMiss(q) /\ d = data[q]

ServeEffect(q, d) ==
    /\ pc[q] \in {"rules", "verify"}
    /\ Changes(q, d) /\ Moves(q, d)
    /\ answers' = answers \/ \E c \in Challenges, ok \in BOOLEAN : Record(q, c, ok)
    /\ UNCHANGED <<clock, secret, arrivals, req>>

-----------------------------------------------------------------------------
(* The invariant of one request.                                           *)

\* A slot nobody uses is as new.
IdleClean(q) ==
    pc[q] = "idle" => /\ pos[q] = Start /\ tried[q] = Untried
                      /\ resp[q].kind = "none" /\ resp[q].cookies = {}

\* What was issued is marked so.
Once(q) ==
    \A c \in Challenges : tried[q][c] <= 1 /\ (tried[q][c] = 1 => data[q].state[c] = "Pass")

\* While rules run, and in what they pass on, a passed challenge has a state.
StateKnown(q) ==
    pc[q] = "rules" \/ resp[q].kind = "backend" =>
      \A c \in Challenges : Ok(data[q].verify[c]) => data[q].state[c] # "None"

\* The strict rules that the request is below of have been passed.
Ancestors(q) ==
    pc[q] = "rules" \/ resp[q].kind = "backend" =>
      \A i \in DOMAIN Rules :
        i < pos[q].rule /\ pos[q].rule <= Rules[i].last /\ Strict(Rules[i])
        => PassedOne(Rules[i], data[q])

\* A map as IssueChallengeToken makes it: one entry for a challenge, which expires
\* with its key.
Neat(map) ==
    /\ \A t, u \in map : t.key.chal = u.key.chal => t = u
    /\ \A t \in map : t.exp = t.key.exp

\* t is a pass of the request's client, of the kind only its own token can end.
OwnPass(t, r) == t.ok = TRUE /\ t.key = KeyFor(t.key.chal, r) /\ t.key.chal \notin CookieBound

\* A pass the request brought is in its map and counts.
Carried(q) ==
    \A k \in req[q].cookies : \A t \in k.tokens :
      CookieOpens(k, req[q], req[q].time) /\ OwnPass(t, req[q])
      => /\ Ok(data[q].verify[t.key.chal])
         /\ \E u \in data[q].map : u.ok = TRUE /\ u.key = t.key

\* The state cookie of a response is the map.
CookieIsMap(q) == \A k \in resp[q].cookies : pc[q] = "done" /\ k.tokens = data[q].map

Walk(q) ==
    /\ IdleClean(q) /\ Once(q) /\ StateKnown(q) /\ Ancestors(q)
    /\ Neat(data[q].map) /\ Carried(q) /\ CookieIsMap(q)

\* The inductive invariant, beside IInv.
WalkInv ==
    /\ \A q \in Requests : Walk(q)
    /\ \A k \in issued : Neat(k.tokens)
    /\ secret <= MaxSecret
    /\ \A q \in Requests : req[q].secret <= secret

-----------------------------------------------------------------------------
(* Every step of Serve has such an effect.                                 *)

LEMMA RespondMoves ==
    ASSUME NEW q, NEW d, NEW kind \in Kinds, NEW by \in SUBSET Challenges,
           Respond(q, d, kind, by), kind = "backend" => pc[q] = "rules"
    PROVE  Moves(q, d)
BY DEF Respond, Moves

LEMMA EmptyReplyMoves ==
    ASSUME NEW q, NEW d, NEW kind \in Kinds \ {"backend"}, Reply(q, d, kind, {}, {})
    PROVE  Moves(q, d)
<1>1. {} \in SUBSET Challenges /\ {} \in SUBSET ResponseCookies(d, req[q]) /\ kind \in Kinds
  OBVIOUS
<1>. QED BY <1>1 DEF Moves

LEMMA ActMoves ==
    ASSUME NEW q, NEW d, NEW action, NEW by \in SUBSET Challenges, InRule(q),
           Act(q, d, action, by),
           action = "NONE" => (Strict(Rule(q)) => PassedOne(Rule(q), d))
    PROVE  Moves(q, d)
<1>0. pc[q] = "rules" /\ {} \in SUBSET Challenges /\ {"backend", "error", "deny"} \subseteq Kinds
  BY DEF InRule, Kinds
<1>1. CASE Respond(q, d, "backend", by) \/ Respond(q, d, "error", {}) \/ Respond(q, d, "deny", {})
  BY <1>0, <1>1, RespondMoves
<1>2. CASE Reply(q, d, "deny", {}, {})
  BY <1>0, <1>2, EmptyReplyMoves
<1>3. CASE action = "NONE" /\ NextRule(q, d)
  BY <1>3 DEF Moves
<1>. QED BY <1>1, <1>2, <1>3 DEF Act

\* The FailAction of a strict rule answers.
LEMMA FailMoves ==
    ASSUME NEW q, NEW d, InRule(q), Act(q, d, Rule(q).fail, {})
    PROVE  Moves(q, d)
<1>1. Rule(q).fail = "NONE" => ~Strict(Rule(q))
  BY DEF Strict
<1>. QED BY <1>1, ActMoves, {} \in SUBSET Challenges

LEMMA PassMoves ==
    ASSUME NEW q, NEW d, InRule(q), NEW i \in DOMAIN Rule(q).chals,
           Rule(q).chals[i] \in Challenges,
           Pass(q, d, Rule(q), Rule(q).chals[i]), Ok(d.verify[Rule(q).chals[i]])
    PROVE  Moves(q, d)
<1>1. PassedOne(Rule(q), d)
  BY DEF PassedOne
<1>2. CASE Rule(q).cont
  BY <1>1, <1>2 DEF Pass, Moves
<1>3. CASE ~Rule(q).cont
  <2>1. Act(q, d, Rule(q).pass, {Rule(q).chals[i]})
    BY <1>3 DEF Pass
  <2>2. {Rule(q).chals[i]} \in SUBSET Challenges
    OBVIOUS
  <2>. QED BY <1>1, <2>1, <2>2, ActMoves
<1>. QED BY <1>2, <1>3

\* IssueChallengeToken enters a token and leaves the verdicts alone.
LEMMA TokenEntered ==
    ASSUME NEW d \in RequestData, NEW c \in Challenges, NEW r \in Request,
           NEW res \in SUBSET Sessions, NEW ok \in BOOLEAN
    PROVE  /\ IssueChallengeToken(d, c, r, res, ok) \in RequestData
           /\ IssueChallengeToken(d, c, r, res, ok).verify = d.verify
           /\ IssueChallengeToken(d, c, r, res, ok).state = d.state
           /\ \E t : t.ok = ok /\ Entered(d.map, IssueChallengeToken(d, c, r, res, ok).map, c, r, t)
<1>. DEFINE e == IssueChallengeToken(d, c, r, res, ok)
            t == [key |-> KeyFor(c, r), res |-> res, ok |-> ok,
                  exp |-> Expiration(r.time, Duration[c])]
            map == (d.map \ TokensOf(d.map, c)) \cup {t}
<1>1. e \in RequestData /\ e.verify = d.verify
  <2>1. e \in RequestData
    BY IssueTokenType, Zenon
  <2>2. e.verify = d.verify
    BY IssueTokenType, SMT
  <2>. QED BY <2>1, <2>2
<1>2. t.key = KeyFor(c, r) /\ t.exp = Expiration(r.time, Duration[c]) /\ t.ok = ok
  OBVIOUS
<1>3. e = [d EXCEPT !.map = map, !.modified = TRUE]
  BY DEF IssueChallengeToken
<1>. HIDE DEF t, map, e
<1>4. e.map = map /\ e.state = d.state
  BY <1>3 DEF RequestData
<1>5. Entered(d.map, e.map, c, r, t)
  BY <1>2, <1>4 DEF Entered, map
<1>. QED BY <1>1, <1>2, <1>4, <1>5 DEF e

\* The data an IssueChallenge leaves, without and with a token.
LEMMA IssuedChanges ==
    ASSUME IInv, NEW q \in Requests, NEW runtime, Issue(q, runtime), NEW result \in Results
    PROVE  /\ Changes(q, Verdict(data[q], Current(q), result))
           /\ \A res \in SUBSET Sessions, ok \in BOOLEAN :
                Changes(q, Verdict(IssueChallengeToken(data[q], Current(q), req[q], res, ok),
                                   Current(q), result))
<1>. DEFINE c == Current(q)
<1>1. c \in Challenges /\ req[q] \in Request /\ data[q] \in RequestData
  BY IssueFacts DEF DataBacked
<1>2. /\ pc[q] = "rules" /\ data[q].verify[c] \notin {"OK", "Skip"} /\ data[q].state[c] # "Pass"
      /\ tried' = [tried EXCEPT ![q] = [tried[q] EXCEPT ![c] = tried[q][c] + 1]]
  BY DEF Issue, Issuing, InRule, Skipped
<1>. HIDE DEF c
<1>3. ASSUME NEW e \in RequestData, e.verify = data[q].verify, e.state = data[q].state,
             e.map = data[q].map \/ \E t : Entered(data[q].map, e.map, c, req[q], t)
      PROVE  Changes(q, Verdict(e, c, result))
  <2>1. /\ Verdict(e, c, result).map = e.map
        /\ Verdict(e, c, result).verify = [data[q].verify EXCEPT ![c] = result]
        /\ Verdict(e, c, result).state = [data[q].state EXCEPT ![c] = "Pass"]
    BY <1>3 DEF Verdict, RequestData
  <2>2. IssuedTo(q, c, Verdict(e, c, result))
    BY <1>2, <1>3, <2>1 DEF IssuedTo
  <2>. QED BY <1>1, <2>2 DEF Changes
<1>4. ASSUME NEW res \in SUBSET Sessions, NEW ok \in BOOLEAN
      PROVE  Changes(q, Verdict(IssueChallengeToken(data[q], c, req[q], res, ok), c, result))
  <2>. DEFINE e == IssueChallengeToken(data[q], c, req[q], res, ok)
  <2>1. /\ e \in RequestData /\ e.verify = data[q].verify /\ e.state = data[q].state
        /\ \E t : t.ok = ok /\ Entered(data[q].map, e.map, c, req[q], t)
    BY <1>1, TokenEntered
  <2>. HIDE DEF e
  <2>2. Changes(q, Verdict(e, c, result))
    BY <1>3, <2>1
  <2>. QED BY <2>2 DEF e
<1>. QED BY <1>1, <1>3, <1>4 DEF c

\* A request in the issuing loop is at a rule, and at a challenge of it.
LEMMA IssuingPlace ==
    ASSUME NEW q \in Requests, NEW runtime, Issue(q, runtime)
    PROVE  /\ InRule(q) /\ pos[q].idx \in DOMAIN Rule(q).chals
           /\ Current(q) = Rule(q).chals[pos[q].idx] /\ Current(q) \in Challenges
           /\ pc[q] \in {"rules", "verify"} /\ UNCHANGED <<clock, secret, arrivals, req>>
BY RuleType DEF Issue, Issuing, InRule, Current

LEMMA AnsweredEffect ==
    ASSUME IInv, NEW q \in Requests, NEW runtime, Issue(q, runtime),
           NEW res \in SUBSET Sessions, NEW ok \in BOOLEAN, Answered(q, Current(q), res, ok)
    PROVE  \E d \in RequestData : ServeEffect(q, d)
<1>. DEFINE c == Current(q)
            e == IssueChallengeToken(data[q], c, req[q], res, ok)
<1>1. /\ InRule(q) /\ c \in Challenges /\ data[q] \in RequestData /\ req[q] \in Request
      /\ pc[q] \in {"rules", "verify"} /\ UNCHANGED <<clock, secret, arrivals, req>>
  BY IssuingPlace, IssueFacts DEF DataBacked
<1>2. e \in RequestData
  BY <1>1, TokenEntered, Zenon
<1>3. \E a \in Challenges, b \in BOOLEAN : Record(q, a, b)
  BY <1>1 DEF Answered
<1>4. \A result \in Results : Changes(q, Verdict(e, c, result)) /\ Verdict(e, c, result) \in RequestData
  <2>1. \A result \in Results : Changes(q, Verdict(e, c, result))
    BY IssuedChanges, Zenon
  <2>2. \A result \in Results : Verdict(e, c, result) \in RequestData
    BY <1>1, <1>2, VerdictType
  <2>. QED BY <2>1, <2>2
<1>5. CASE ok
  <2>1. Pass(q, Verdict(e, c, "OK"), Rule(q), c)
    BY <1>5 DEF Answered
  <2>2. Ok(Verdict(e, c, "OK").verify[c])
    BY <1>1, <1>2, VerdictReads
  <2>. HIDE DEF e
  <2>3. Moves(q, Verdict(e, c, "OK"))
    BY <2>1, <2>2, IssuingPlace, PassMoves
  <2>. QED BY <1>1, <1>3, <1>4, <2>3 DEF ServeEffect, Results
<1>6. CASE ~ok
  <2>1. Moves(q, Verdict(e, c, "NotOK"))
    BY <1>6 DEF Answered, Moves
  <2>. HIDE DEF e
  <2>. QED BY <1>1, <1>3, <1>4, <2>1 DEF ServeEffect, Results
<1>. QED BY <1>5, <1>6

LEMMA UnansweredEffect ==
    ASSUME IInv, NEW q \in Requests, NEW runtime, Issue(q, runtime),
           NEW result \in {"Skip", "Fail"}, Unanswered(q, Current(q), result)
    PROVE  \E d \in RequestData : ServeEffect(q, d)
<1>. DEFINE d == Verdict(data[q], Current(q), result)
<1>1. /\ Current(q) \in Challenges /\ data[q] \in RequestData /\ result \in Results
      /\ pc[q] \in {"rules", "verify"} /\ UNCHANGED <<clock, secret, arrivals, req>>
  BY IssuingPlace, IssueFacts DEF DataBacked, Results
<1>2. d \in RequestData
  BY <1>1, VerdictType
<1>3. Changes(q, d)
  BY <1>1, IssuedChanges
<1>4. Moves(q, d) /\ answers' = answers
  BY DEF Unanswered, Moves
<1>. QED BY <1>1, <1>2, <1>3, <1>4 DEF ServeEffect

\* The other outcome of every IssueChallenge that fails, or that answers with a page.
LEMMA BlockingEffect ==
    ASSUME IInv, NEW q \in Requests, NEW runtime, Issue(q, runtime), NEW e \in RequestData,
           \A result \in Results : Changes(q, Verdict(e, Current(q), result)),
           answers' = answers \/ \E c \in Challenges, ok \in BOOLEAN : Record(q, c, ok),
           NEW kind \in Kinds \ {"backend"},
           \/ Respond(q, Verdict(e, Current(q), "None"), kind, {Current(q)})
           \/ Act(q, Verdict(e, Current(q), "Fail"), Rule(q).fail, {})
    PROVE  \E d \in RequestData : ServeEffect(q, d)
<1>. DEFINE c == Current(q)
<1>1. /\ InRule(q) /\ c \in Challenges /\ {c} \in SUBSET Challenges
      /\ pc[q] \in {"rules", "verify"} /\ UNCHANGED <<clock, secret, arrivals, req>>
  BY IssuingPlace
<1>. HIDE DEF c
<1>2. Verdict(e, c, "None") \in RequestData /\ Verdict(e, c, "Fail") \in RequestData
  BY <1>1, VerdictType DEF Results
<1>3. Changes(q, Verdict(e, c, "None")) /\ Changes(q, Verdict(e, c, "Fail"))
  BY DEF Results, c
<1>4. Moves(q, Verdict(e, c, "None")) \/ Moves(q, Verdict(e, c, "Fail"))
  BY <1>1, RespondMoves, FailMoves DEF c
<1>. QED BY <1>1, <1>2, <1>3, <1>4 DEF ServeEffect

\* The runtimes, one after the other.
LEMMA IssueEffect ==
    ASSUME IInv, NEW q \in Requests,
           \/ IssueCookie(q) \/ IssueRefresh(q) \/ IssueResourceLoad(q)
           \/ IssueHttp(q) \/ IssueDnsbl(q) \/ IssuePreloadLink(q)
    PROVE  \E d \in RequestData : ServeEffect(q, d)
<1>. DEFINE c == Current(q)
<1>1. CASE IssueCookie(q)
  <2>. DEFINE e == IssueChallengeToken(data[q], c, req[q], {}, TRUE)
  <2>1. Issue(q, "cookie") /\ Record(q, c, TRUE)
    BY <1>1 DEF IssueCookie
  <2>2. c \in Challenges /\ data[q] \in RequestData /\ req[q] \in Request /\ {} \in SUBSET Sessions
    BY <2>1, IssueFacts DEF DataBacked
  <2>3. e \in RequestData
    BY <2>2, TokenEntered, Zenon
  <2>4. \A result \in Results : Changes(q, Verdict(e, c, result))
    BY <2>1, <2>2, IssuedChanges, Zenon
  <2>5. Respond(q, Verdict(e, c, "None"), "redirect", {c}) \/ Act(q, Verdict(e, c, "Fail"), Rule(q).fail, {})
    BY <1>1 DEF IssueCookie
  <2>6. "redirect" \in Kinds \ {"backend"} /\ \E a \in Challenges, ok \in BOOLEAN : Record(q, a, ok)
    BY <2>1, <2>2 DEF Kinds
  <2>. HIDE DEF e
  <2>. QED BY <2>1, <2>3, <2>4, <2>5, <2>6, BlockingEffect
<1>2. ASSUME NEW runtime, IssuePage(q, runtime)
      PROVE  \E d \in RequestData : ServeEffect(q, d)
  <2>1. /\ Issue(q, runtime) /\ answers' = answers
        /\ \/ Respond(q, Verdict(data[q], c, "None"), "challenge", {c})
           \/ Act(q, Verdict(data[q], c, "Fail"), Rule(q).fail, {})
    BY <1>2 DEF IssuePage
  <2>2. data[q] \in RequestData
    BY DEF IInv, TypeOK
  <2>3. \A result \in Results : Changes(q, Verdict(data[q], c, result))
    BY <2>1, IssuedChanges
  <2>4. "challenge" \in Kinds \ {"backend"}
    BY DEF Kinds
  <2>. QED BY <2>1, <2>2, <2>3, <2>4, BlockingEffect
<1>3. CASE IssueHttp(q)
  <2>. DEFINE res == IF c \in CookieBound THEN req[q].session ELSE {}
  <2>1. Issue(q, "http")
    BY <1>3 DEF IssueHttp
  <2>2. \/ \E result \in {"Skip", "Fail"} : Unanswered(q, c, result)
        \/ \E ok \in BOOLEAN : Answered(q, c, res, ok)
    BY <1>3 DEF IssueHttp
  <2>3. res \in SUBSET Sessions
    BY <2>1, IssueFacts DEF Request
  <2>. QED BY <2>1, <2>2, <2>3, AnsweredEffect, UnansweredEffect
<1>4. CASE IssueDnsbl(q)
  BY <1>4, {} \in SUBSET Sessions, AnsweredEffect DEF IssueDnsbl
<1>5. CASE IssuePreloadLink(q)
  <2>1. Issue(q, "preload-link")
    BY <1>5 DEF IssuePreloadLink
  <2>2. CASE \E result \in {"Skip", "Fail"} : Unanswered(q, c, result)
    BY <2>1, <2>2, UnansweredEffect
  <2>3. CASE Record(q, c, TRUE) /\ Pass(q, Verdict(data[q], c, "OK"), Rule(q), c)
    <3>1. /\ InRule(q) /\ c \in Challenges /\ data[q] \in RequestData
          /\ pc[q] \in {"rules", "verify"} /\ UNCHANGED <<clock, secret, arrivals, req>>
      BY <2>1, IssuingPlace, IssueFacts DEF DataBacked
    <3>2. Verdict(data[q], c, "OK") \in RequestData /\ Changes(q, Verdict(data[q], c, "OK"))
      BY <2>1, <3>1, VerdictType, IssuedChanges DEF Results
    <3>3. Ok(Verdict(data[q], c, "OK").verify[c])
      BY <3>1, VerdictReads
    <3>4. Moves(q, Verdict(data[q], c, "OK"))
      BY <2>1, <2>3, <3>3, IssuingPlace, PassMoves
    <3>5. \E a \in Challenges, ok \in BOOLEAN : Record(q, a, ok)
      BY <2>3, <3>1
    <3>. QED BY <3>1, <3>2, <3>4, <3>5 DEF ServeEffect
  <2>. QED BY <1>5, <2>2, <2>3 DEF IssuePreloadLink
<1>. QED BY <1>1, <1>2, <1>3, <1>4, <1>5 DEF IssueRefresh, IssueResourceLoad

\* The verify route that accepts.
LEMMA VerifyPassedEffect ==
    ASSUME IInv, NEW q \in Requests, VerifyPassed(q)
    PROVE  \E d \in RequestData : ServeEffect(q, d)
<1>1. req[q] \in Request /\ data[q] \in RequestData /\ pc[q] = "verify"
  BY DEF IInv, TypeOK, VerifyPassed
<1>2. PICK c \in req[q].path :
        /\ Record(q, c, TRUE)
        /\ Respond(q, [IssueChallengeToken(data[q], c, req[q], {}, TRUE)
                         EXCEPT !.verify[c] = "OK"], "verified", {c})
  BY DEF VerifyPassed
<1>3. c \in Challenges
  BY <1>1 DEF Request
<1>. DEFINE e == IssueChallengeToken(data[q], c, req[q], {}, TRUE)
            d == [e EXCEPT !.verify[c] = "OK"]
<1>4. /\ e \in RequestData /\ e.verify = data[q].verify /\ e.state = data[q].state
      /\ \E t : t.ok = TRUE /\ Entered(data[q].map, e.map, c, req[q], t)
  <2>. DEFINE f(res, ok) == IssueChallengeToken(data[q], c, req[q], res, ok)
  <2>1. ASSUME NEW res \in SUBSET Sessions, NEW ok \in BOOLEAN
        PROVE  /\ f(res, ok) \in RequestData
               /\ f(res, ok).verify = data[q].verify /\ f(res, ok).state = data[q].state
               /\ \E t : t.ok = ok /\ Entered(data[q].map, f(res, ok).map, c, req[q], t)
    BY <1>1, <1>3, TokenEntered
  <2>. HIDE DEF f
  <2>2. {} \in SUBSET Sessions /\ TRUE \in BOOLEAN
    OBVIOUS
  <2>3. /\ f({}, TRUE) \in RequestData
        /\ f({}, TRUE).verify = data[q].verify /\ f({}, TRUE).state = data[q].state
        /\ \E t : t.ok = TRUE /\ Entered(data[q].map, f({}, TRUE).map, c, req[q], t)
    BY <2>1, <2>2, Zenon
  <2>. QED BY <2>3 DEF f
<1>5. Respond(q, d, "verified", {c})
  BY <1>2
<1>. HIDE DEF e
<1>6. /\ d \in RequestData /\ d.map = e.map /\ d.state = e.state
      /\ d.verify = [data[q].verify EXCEPT ![c] = "OK"]
  BY <1>3, <1>4 DEF RequestData, Results
<1>. HIDE DEF d
<1>7. "verified" \in Kinds \ {"backend"} /\ {c} \in SUBSET Challenges
  BY <1>3 DEF Kinds
<1>8. Moves(q, d)
  BY <1>5, <1>7, RespondMoves
<1>9. UNCHANGED <<clock, secret, arrivals, req, tried>>
  BY DEF VerifyPassed
<1>10. VerifiedBy(q, c, d)
  BY <1>1, <1>4, <1>6, <1>9 DEF VerifiedBy
<1>. QED BY <1>1, <1>2, <1>3, <1>6, <1>8, <1>9, <1>10 DEF ServeEffect, Changes

\* The steps that decide nothing new about the request.
LEMMA QuietEffect ==
    ASSUME IInv, NEW q \in Requests,
           \/ NoBackend(q) \/ RuleMiss(q) \/ RuleError(q) \/ RuleHit(q)
           \/ PassedBefore(q) \/ StartIssuing(q) \/ SkipChallenge(q) \/ NothingMatched(q)
           \/ DefaultPass(q) \/ VerifyRefused(q) \/ VerifyPreloadLink(q)
    PROVE  ServeEffect(q, data[q])
<1>0. /\ {} \in SUBSET Challenges
      /\ {"refused", "retry", "css", "clean", "error"} \subseteq Kinds \ {"backend"} /\ "backend" \in Kinds
  BY DEF Kinds
<1>1. /\ pc[q] \in {"rules", "verify"}
      /\ UNCHANGED <<clock, secret, arrivals, answers, req, tried>>
  BY DEF NoBackend, RuleMiss, RuleError, RuleHit, PassedBefore, StartIssuing, SkipChallenge,
         NothingMatched, DefaultPass, VerifyRefused, VerifyPreloadLink, Entering, Issuing, InRule
<1>. SUFFICES Moves(q, data[q])
  BY <1>1 DEF ServeEffect, Changes
<1>2. CASE NoBackend(q)
  BY <1>0, <1>2, EmptyReplyMoves DEF NoBackend
<1>3. CASE RuleMiss(q)
  BY <1>3 DEF Moves
<1>4. CASE RuleError(q)
  BY <1>0, <1>4, RespondMoves DEF RuleError
<1>5. CASE RuleHit(q)
  <2>1. InRule(q) /\ Act(q, data[q], Rule(q).act, {}) /\ ~Strict(Rule(q))
    BY <1>5 DEF RuleHit, Entering, Strict
  <2>. QED BY <1>0, <2>1, ActMoves
<1>6. CASE PassedBefore(q)
  <2>1. PICK i \in Valid(q) :
          \/ Respond(q, data[q], "clean", {Rule(q).chals[i]})
          \/ Pass(q, data[q], Rule(q), Rule(q).chals[i])
    BY <1>6 DEF PassedBefore
  <2>2. InRule(q)
    BY <1>6 DEF PassedBefore, Entering
  <2>3. /\ i \in DOMAIN Rule(q).chals /\ Rule(q).chals[i] \in Challenges
        /\ Ok(data[q].verify[Rule(q).chals[i]]) /\ {Rule(q).chals[i]} \in SUBSET Challenges
    BY <2>1, <2>2, RuleType DEF Valid
  <2>. QED BY <1>0, <2>1, <2>2, <2>3, RespondMoves, PassMoves
<1>7. CASE StartIssuing(q) \/ SkipChallenge(q)
  BY <1>7 DEF StartIssuing, SkipChallenge, Moves
<1>8. CASE NothingMatched(q)
  BY <1>8, FailMoves DEF NothingMatched
<1>9. CASE DefaultPass(q)
  BY <1>0, <1>9, RespondMoves DEF DefaultPass
<1>10. CASE VerifyRefused(q)
  <2>1. \E kind \in {"retry", "refused"} : Respond(q, data[q], kind, {})
    BY <1>10 DEF VerifyRefused
  <2>. QED BY <1>0, <2>1, RespondMoves
<1>11. CASE VerifyPreloadLink(q)
  <2>1. Respond(q, data[q], "css", {}) \/ Reply(q, data[q], "refused", {}, {})
    BY <1>11 DEF VerifyPreloadLink
  <2>. QED BY <1>0, <2>1, RespondMoves, EmptyReplyMoves
<1>. QED BY <1>2, <1>3, <1>4, <1>5, <1>6, <1>7, <1>8, <1>9, <1>10, <1>11

LEMMA ServeHasEffect ==
    ASSUME IInv, NEW q \in Requests, Serve(q)
    PROVE  \E d \in RequestData : ServeEffect(q, d)
<1>1. data[q] \in RequestData
  BY DEF IInv, TypeOK
<1>. QED BY <1>1, IssueEffect, VerifyPassedEffect, QuietEffect DEF Serve, Handle

-----------------------------------------------------------------------------
(* What a step leaves of its own request and of the others.                *)

\* A request nothing was done to keeps its invariant.
LEMMA WalkFrame ==
    ASSUME NEW p \in Requests, Walk(p),
           req'[p] = req[p], pc'[p] = pc[p], pos'[p] = pos[p], data'[p] = data[p],
           tried'[p] = tried[p], resp'[p] = resp[p]
    PROVE  Walk(p)'
<1>1. IdleClean(p)' /\ Once(p)' /\ StateKnown(p)' /\ Ancestors(p)'
  BY DEF Walk, IdleClean, Once, StateKnown, Ancestors
<1>2. Neat(data[p].map)' /\ Carried(p)' /\ CookieIsMap(p)'
  BY DEF Walk, Neat, Carried, CookieIsMap
<1>. QED BY <1>1, <1>2 DEF Walk

LEMMA EffectFrame ==
    ASSUME IInv, NEW q \in Requests, NEW d \in RequestData, ServeEffect(q, d)
    PROVE  /\ data'[q] = d /\ req' = req
           /\ \A p \in Requests \ {q} :
                /\ req'[p] = req[p] /\ pc'[p] = pc[p] /\ pos'[p] = pos[p]
                /\ data'[p] = data[p] /\ tried'[p] = tried[p] /\ resp'[p] = resp[p]
<1>1. /\ req \in [Requests -> Request] /\ data \in [Requests -> RequestData]
      /\ pc \in [Requests -> {"idle", "rules", "verify", "done"}]
      /\ pos \in [Requests -> [rule: Nat \ {0}, idx: Nat]]
      /\ tried \in [Requests -> [Challenges -> Nat]] /\ resp \in [Requests -> Response]
  BY DEF IInv, TypeOK
<1>2. req' = req /\ \A p \in Requests \ {q} : tried'[p] = tried[p]
  BY <1>1 DEF ServeEffect, Changes, IssuedTo, VerifiedBy
<1>3. Moves(q, d)
  BY DEF ServeEffect
<1>4. CASE NextRule(q, d)
  BY <1>1, <1>2, <1>4 DEF NextRule
<1>5. CASE NextChallenge(q, d)
  BY <1>1, <1>2, <1>5 DEF NextChallenge
<1>6. CASE \E kind, by, cookies : Reply(q, d, kind, by, cookies)
  BY <1>1, <1>2, <1>6 DEF Reply
<1>7. CASE RuleMiss(q) /\ d = data[q]
  BY <1>1, <1>2, <1>7 DEF RuleMiss
<1>. QED BY <1>3, <1>4, <1>5, <1>6, <1>7 DEF Moves

\* Where the step leaves the request: still on its way and unanswered, or done,
\* and passed on only by the rules.
LEMMA EffectPlace ==
    ASSUME IInv, NEW q \in Requests, NEW d \in RequestData, ServeEffect(q, d)
    PROVE  /\ pc[q] \in {"rules", "verify"} /\ resp[q].kind # "backend"
           /\ \/ pc'[q] = pc[q] /\ resp'[q] = resp[q] /\ issued' = issued
              \/ /\ pc'[q] = "done" /\ pos'[q] = pos[q]
                 /\ resp'[q].cookies \subseteq ResponseCookies(d, req[q])
                 /\ resp'[q].kind = "backend" => pc[q] = "rules"
                 /\ issued' = issued \cup resp'[q].cookies
<1>1. pc[q] \in {"rules", "verify"} /\ Moves(q, d)
  BY DEF ServeEffect
<1>2. resp[q].kind # "backend"
  BY <1>1 DEF IInv
<1>3. CASE NextRule(q, d) \/ NextChallenge(q, d)
  BY <1>1, <1>2, <1>3 DEF NextRule, NextChallenge
<1>4. CASE RuleMiss(q)
  BY <1>1, <1>2, <1>4 DEF RuleMiss
<1>5. CASE \E kind \in Kinds, by \in SUBSET Challenges, cookies \in SUBSET ResponseCookies(d, req[q]) :
         Reply(q, d, kind, by, cookies) /\ (kind = "backend" => pc[q] = "rules")
  <2>1. PICK kind \in Kinds, by \in SUBSET Challenges, cookies \in SUBSET ResponseCookies(d, req[q]) :
         Reply(q, d, kind, by, cookies) /\ (kind = "backend" => pc[q] = "rules")
    BY <1>5
  <2>2. pc \in [Requests -> {"idle", "rules", "verify", "done"}] /\ resp \in [Requests -> Response]
    BY DEF IInv, TypeOK
  <2>3. resp'[q] = [kind |-> kind, by |-> by, cookies |-> cookies] /\ pc'[q] = "done"
    BY <2>1, <2>2 DEF Reply
  <2>4. pos' = pos /\ issued' = issued \cup cookies
    BY <2>1 DEF Reply
  <2>. QED BY <1>1, <1>2, <2>1, <2>3, <2>4
<1>. QED BY <1>1, <1>3, <1>4, <1>5 DEF Moves

\* No step takes a pass back.
LEMMA VerdictsKept ==
    ASSUME IInv, NEW q \in Requests, NEW d \in RequestData, ServeEffect(q, d)
    PROVE  \A c \in Challenges : Ok(data[q].verify[c]) => Ok(d.verify[c])
<1>1. data[q].verify \in [Challenges -> Results] /\ Changes(q, d)
  BY DEF IInv, TypeOK, RequestData, ServeEffect
<1>2. ASSUME NEW c \in Challenges, IssuedTo(q, c, d)
      PROVE  \A x \in Challenges : Ok(data[q].verify[x]) => Ok(d.verify[x])
  BY <1>1, <1>2 DEF IssuedTo, Ok
<1>3. ASSUME NEW c \in Challenges, VerifiedBy(q, c, d)
      PROVE  \A x \in Challenges : Ok(data[q].verify[x]) => Ok(d.verify[x])
  BY <1>1, <1>3 DEF VerifiedBy, Ok
<1>. QED BY <1>1, <1>2, <1>3 DEF Changes

-----------------------------------------------------------------------------
(* The parts of the invariant, under a step of the request.                *)

LEMMA OnceKept ==
    ASSUME IInv, NEW q \in Requests, NEW d \in RequestData, ServeEffect(q, d), Once(q)
    PROVE  Once(q)'
<1>1. data'[q] = d /\ Changes(q, d)
  BY EffectFrame DEF ServeEffect
<1>2. /\ tried \in [Requests -> [Challenges -> Nat]]
      /\ data[q].state \in [Challenges -> VerifyStates]
  BY DEF IInv, TypeOK, RequestData
<1>3. ASSUME NEW c \in Challenges, IssuedTo(q, c, d) PROVE Once(q)'
  <2>1. tried'[q] = [tried[q] EXCEPT ![c] = tried[q][c] + 1]
    BY <1>2, <1>3 DEF IssuedTo
  <2>2. tried[q][c] = 0
    <3>1. tried[q][c] \in Nat /\ tried[q][c] <= 1 /\ tried[q][c] # 1
      BY <1>2, <1>3 DEF IssuedTo, Once
    <3>. QED BY <3>1
  <2>3. d.state = [data[q].state EXCEPT ![c] = "Pass"]
    BY <1>3 DEF IssuedTo
  <2>. QED BY <1>1, <1>2, <2>1, <2>2, <2>3 DEF Once
<1>4. ASSUME NEW c \in Challenges, VerifiedBy(q, c, d) PROVE Once(q)'
  BY <1>1, <1>4 DEF VerifiedBy, Once
<1>5. CASE d = data[q] /\ UNCHANGED tried
  BY <1>1, <1>5 DEF Once
<1>. QED BY <1>1, <1>3, <1>4, <1>5 DEF Changes

LEMMA StateKnownKept ==
    ASSUME IInv, NEW q \in Requests, NEW d \in RequestData, ServeEffect(q, d), StateKnown(q)
    PROVE  StateKnown(q)'
<1>1. data'[q] = d /\ Changes(q, d)
  BY EffectFrame DEF ServeEffect
<1>2. pc'[q] = "rules" \/ resp'[q].kind = "backend" => pc[q] = "rules"
  BY EffectPlace
<1>. SUFFICES ASSUME pc[q] = "rules", NEW c \in Challenges, Ok(d.verify[c])
              PROVE  d.state[c] # "None"
  BY <1>1, <1>2 DEF StateKnown
<1>3. /\ data[q].verify \in [Challenges -> Results]
      /\ data[q].state \in [Challenges -> VerifyStates]
  BY DEF IInv, TypeOK, RequestData
<1>4. CASE d = data[q]
  BY <1>4 DEF StateKnown
<1>5. ASSUME NEW x \in Challenges, IssuedTo(q, x, d) PROVE d.state[c] # "None"
  BY <1>3, <1>5 DEF IssuedTo, StateKnown
<1>6. ASSUME NEW x \in Challenges, VerifiedBy(q, x, d) PROVE FALSE
  BY <1>6 DEF VerifiedBy
<1>. QED BY <1>1, <1>4, <1>5, <1>6 DEF Changes

LEMMA RuleInTree ==
    ASSUME NEW i \in DOMAIN Rules
    PROVE  /\ i \in Nat /\ Rules[i].last \in Nat
           /\ \A j \in DOMAIN Rules[i].chals : Rules[i].chals[j] \in Challenges
<1>1. Rules \in Seq(RuleState) /\ i \in 1 .. Len(Rules)
  BY RulesAssumption
<1>2. Rules[i] \in RuleState /\ i \in Nat
  BY <1>1
<1>3. Rules[i].chals \in Seq(Challenges) /\ Rules[i].last \in Nat
  BY <1>2 DEF RuleState
<1>. QED BY <1>2, <1>3

\* The parts of the tree a rule that was passed over leaves behind.
LEMMA PassedOver ==
    ASSUME NEW r \in DOMAIN Rules, NEW i \in DOMAIN Rules,
           i < Rules[r].last + 1, Rules[r].last + 1 <= Rules[i].last
    PROVE  i < r /\ r <= Rules[i].last
<1>1. Rules[r].last \in Nat /\ Rules[i].last \in Nat /\ r \in Nat /\ i \in Nat
  BY RuleInTree
<1>2. r <= Rules[r].last /\ (r < i /\ i <= Rules[r].last => Rules[i].last <= Rules[r].last)
  BY TreeAssumption
<1>. QED BY <1>1, <1>2

LEMMA AncestorsKept ==
    ASSUME IInv, NEW q \in Requests, NEW d \in RequestData, ServeEffect(q, d), Ancestors(q)
    PROVE  Ancestors(q)'
<1>1. data'[q] = d /\ Moves(q, d)
  BY EffectFrame DEF ServeEffect
<1>2. pc'[q] = "rules" \/ resp'[q].kind = "backend" => pc[q] = "rules"
  BY EffectPlace
<1>3. SUFFICES ASSUME pc[q] = "rules", NEW i \in DOMAIN Rules, i < pos'[q].rule,
                      pos'[q].rule <= Rules[i].last, Strict(Rules[i])
               PROVE  PassedOne(Rules[i], d)
  BY <1>1, <1>2 DEF Ancestors
<1>4. i < pos[q].rule /\ pos[q].rule <= Rules[i].last => PassedOne(Rules[i], data[q])
  BY <1>3 DEF Ancestors
<1>5. PassedOne(Rules[i], data[q]) => PassedOne(Rules[i], d)
  <2>1. \A j \in DOMAIN Rules[i].chals : Rules[i].chals[j] \in Challenges
    BY RuleInTree
  <2>. QED BY <2>1, VerdictsKept DEF PassedOne
<1>6. /\ pos \in [Requests -> [rule: Nat \ {0}, idx: Nat]] /\ pos[q].rule \in Nat
      /\ Rules[i].last \in Nat /\ i \in Nat
  BY RuleInTree DEF IInv, TypeOK
<1>7. CASE NextRule(q, d) /\ InRule(q) /\ (Strict(Rule(q)) => PassedOne(Rule(q), d))
  <2>1. pos'[q].rule = pos[q].rule + 1
    BY <1>6, <1>7 DEF NextRule
  <2>2. CASE i = pos[q].rule
    BY <1>3, <1>7, <2>2 DEF Rule
  <2>3. CASE i # pos[q].rule
    BY <1>3, <1>4, <1>5, <1>6, <2>1, <2>3
  <2>. QED BY <2>2, <2>3
<1>8. CASE NextChallenge(q, d)
  <2>1. pos'[q].rule = pos[q].rule
    BY <1>6, <1>8 DEF NextChallenge
  <2>. QED BY <1>3, <1>4, <1>5, <2>1
<1>9. CASE \E kind, by, cookies : Reply(q, d, kind, by, cookies)
  <2>1. pos' = pos
    BY <1>9 DEF Reply
  <2>. QED BY <1>3, <1>4, <1>5, <2>1
<1>10. CASE RuleMiss(q)
  <2>1. pos[q].rule \in DOMAIN Rules /\ pos'[q].rule = Rules[pos[q].rule].last + 1
    BY <1>6, <1>10 DEF RuleMiss, Entering, InRule, Rule
  <2>. QED BY <1>3, <1>4, <1>5, <2>1, PassedOver
<1>. QED BY <1>1, <1>7, <1>8, <1>9, <1>10 DEF Moves

LEMMA EnteredNeat ==
    ASSUME NEW old, NEW new, NEW c, NEW r, NEW t, Entered(old, new, c, r, t), Neat(old)
    PROVE  Neat(new)
<1>1. t.key.chal = c /\ t.exp = t.key.exp
  BY DEF Entered, KeyFor
<1>2. new = (old \ TokensOf(old, c)) \cup {t}
  BY DEF Entered
<1>. QED BY <1>1, <1>2 DEF Neat, TokensOf

LEMMA NeatKept ==
    ASSUME IInv, NEW q \in Requests, NEW d \in RequestData, ServeEffect(q, d), Neat(data[q].map)
    PROVE  Neat(d.map)
<1>1. d.map = data[q].map \/ \E c, t : Entered(data[q].map, d.map, c, req[q], t)
  BY DEF ServeEffect, Changes, IssuedTo, VerifiedBy
<1>. QED BY <1>1, EnteredNeat

LEMMA CarriedKept ==
    ASSUME IInv, NEW q \in Requests, NEW d \in RequestData, ServeEffect(q, d), Carried(q)
    PROVE  Carried(q)'
<1>1. data'[q] = d /\ Changes(q, d) /\ req' = req
  BY EffectFrame DEF ServeEffect
<1>2. SUFFICES ASSUME NEW k \in req[q].cookies, NEW t \in k.tokens,
                      CookieOpens(k, req[q], req[q].time), OwnPass(t, req[q])
               PROVE  Ok(d.verify[t.key.chal]) /\ \E u \in d.map : u.ok = TRUE /\ u.key = t.key
  BY <1>1 DEF Carried
<1>3. t.key.chal \in Challenges
  BY DEF IInv, TypeOK, Request, Cookie, Token, Key
<1>4. Ok(data[q].verify[t.key.chal])
  BY <1>2 DEF Carried
<1>5. PICK u \in data[q].map : u.ok = TRUE /\ u.key = t.key
  BY <1>2 DEF Carried
<1>6. Ok(d.verify[t.key.chal])
  BY <1>3, <1>4, VerdictsKept
<1>7. ASSUME NEW c, c # t.key.chal, NEW s, Entered(data[q].map, d.map, c, req[q], s)
      PROVE  u \in d.map
  BY <1>5, <1>7 DEF Entered, TokensOf
<1>8. CASE d = data[q]
  BY <1>5, <1>6, <1>8
<1>9. ASSUME NEW c \in Challenges, IssuedTo(q, c, d)
      PROVE  \E w \in d.map : w.ok = TRUE /\ w.key = t.key
  <2>1. c # t.key.chal
    BY <1>4, <1>9 DEF IssuedTo, Ok
  <2>2. u \in d.map
    BY <1>5, <1>7, <1>9, <2>1 DEF IssuedTo
  <2>. QED BY <1>5, <2>2
<1>10. ASSUME NEW c \in Challenges, VerifiedBy(q, c, d)
       PROVE  \E w \in d.map : w.ok = TRUE /\ w.key = t.key
  <2>1. PICK s : s.ok = TRUE /\ Entered(data[q].map, d.map, c, req[q], s)
    BY <1>10 DEF VerifiedBy
  <2>2. CASE c = t.key.chal
    <3>1. s \in d.map /\ s.key = KeyFor(c, req[q]) /\ t.key = KeyFor(c, req[q])
      BY <1>2, <2>1, <2>2 DEF Entered, OwnPass
    <3>. QED BY <2>1, <3>1
  <2>3. CASE c # t.key.chal
    BY <1>5, <1>7, <2>1, <2>3
  <2>. QED BY <2>2, <2>3
<1>. QED BY <1>1, <1>6, <1>8, <1>9, <1>10 DEF Changes

LEMMA CookieIsMapKept ==
    ASSUME IInv, NEW q \in Requests, NEW d \in RequestData, ServeEffect(q, d), CookieIsMap(q)
    PROVE  CookieIsMap(q)' /\ \A k \in issued' : k \in issued \/ k.tokens = d.map
<1>1. data'[q] = d /\ req[q] \in Request
  BY EffectFrame DEF IInv, TypeOK
<1>2. \A k \in ResponseCookies(d, req[q]) : k.tokens = d.map
  BY <1>1, ResponseCookiesType
<1>. QED BY <1>1, <1>2, EffectPlace DEF CookieIsMap

\* A step of Serve keeps the invariant of every request.
LEMMA ServeKeepsWalk ==
    ASSUME IInv, WalkInv, NEW q \in Requests, Serve(q)
    PROVE  WalkInv'
<1>1. PICK d \in RequestData : ServeEffect(q, d)
  BY ServeHasEffect
<1>2. data'[q] = d /\ Walk(q) /\ UNCHANGED <<secret, req>>
  BY <1>1, EffectFrame DEF WalkInv, ServeEffect
<1>3. Walk(q)'
  <2>1. IdleClean(q)'
    BY <1>1, EffectPlace DEF IdleClean
  <2>2. Once(q)' /\ StateKnown(q)' /\ Ancestors(q)'
    BY <1>1, <1>2, OnceKept, StateKnownKept, AncestorsKept DEF Walk
  <2>3. Neat(data[q].map)'
    BY <1>1, <1>2, NeatKept DEF Walk, Neat
  <2>4. Carried(q)' /\ CookieIsMap(q)'
    BY <1>1, <1>2, CarriedKept, CookieIsMapKept DEF Walk
  <2>. QED BY <2>1, <2>2, <2>3, <2>4 DEF Walk
<1>4. \A p \in Requests \ {q} : Walk(p)'
  BY <1>1, EffectFrame, WalkFrame DEF WalkInv
<1>5. \A k \in issued' : Neat(k.tokens)
  BY <1>1, <1>2, CookieIsMapKept, NeatKept DEF WalkInv, Walk
<1>. QED BY <1>2, <1>3, <1>4, <1>5 DEF WalkInv

-----------------------------------------------------------------------------
(* What EvaluateChallenges makes of the state cookie a request brings.     *)

LEMMA EvaluateReads ==
    ASSUME NEW r \in Request, NEW now \in Nat, NEW spots, NEW c \in Challenges
    PROVE  LET d == EvaluateChallenges(r, now, spots)
               v == VerifyChallenge(c, VerifyChallengeState(r, now).map, r, now, c \in spots)
           IN  d.verify[c] = v.result /\ d.state[c] = v.state
BY DEF EvaluateChallenges

\* A verdict OK comes with the state Brief or Full.
LEMMA EvaluateKnown ==
    ASSUME NEW r \in Request, NEW now \in Nat, NEW spots, NEW c \in Challenges,
           Ok(EvaluateChallenges(r, now, spots).verify[c])
    PROVE  EvaluateChallenges(r, now, spots).state[c] # "None"
<1>. DEFINE map == VerifyChallengeState(r, now).map
            token == CHOOSE t \in map : t.key.chal = c
            v == VerifyChallengeToken(c, token, r, now, c \in spots)
<1>1. Ok(VerifyChallenge(c, map, r, now, c \in spots).result)
  BY EvaluateReads
<1>2. v.result = "OK" => v.state # "None"
  BY DEF VerifyChallengeToken
<1>. HIDE DEF map
<1>3. VerifyChallenge(c, map, r, now, c \in spots).state # "None"
  BY <1>1, <1>2 DEF VerifyChallenge, Ok
<1>. QED BY <1>3, EvaluateReads DEF map

\* Of at most one cookie, at most its tokens are left.
LEMMA EvaluateNeat ==
    ASSUME NEW r \in Request, NEW now \in Nat, NEW spots, NEW S, r.cookies \in AtMostOne(S),
           \A k \in S : Neat(k.tokens)
    PROVE  Neat(VerifyChallengeState(r, now).map) /\ Neat(EvaluateChallenges(r, now, spots).map)
<1>. DEFINE map == VerifyChallengeState(r, now).map
<1>1. CASE \A k \in r.cookies : ~CookieOpens(k, r, now)
  <2>1. map = {}
    BY <1>1 DEF VerifyChallengeState
  <2>. QED BY <2>1 DEF Neat, EvaluateChallenges
<1>2. CASE \E k \in r.cookies : CookieOpens(k, r, now)
  <2>1. PICK k \in S : r.cookies = {k} /\ CookieOpens(k, r, now)
    BY <1>2 DEF AtMostOne
  <2>2. map = k.tokens
    BY <2>1 DEF VerifyChallengeState
  <2>3. EvaluateChallenges(r, now, spots).map \subseteq map
    BY DEF EvaluateChallenges
  <2>. QED BY <2>2, <2>3 DEF Neat
<1>. QED BY <1>1, <1>2

\* An expiration lies not before the time it is computed at.
LEMMA ExpirationAhead ==
    ASSUME NEW t \in Nat, NEW d \in Nat \ {0}
    PROVE  Expiration(t, d) >= t
<1>1. Round(t + d, d) \in Nat /\ 2 * Round(t + d, d) > 2 * (t + d) - d
  BY RoundBounds, t + d \in Nat
<1>. QED BY <1>1 DEF Expiration

\* A pass of the client's own is found valid, and its token is kept.
LEMMA EvaluateCarries ==
    ASSUME NEW r \in Request, NEW now \in Nat, NEW spots, NEW S, r.cookies \in AtMostOne(S),
           \A k \in S : Neat(k.tokens), r.time = now,
           NEW k \in r.cookies, NEW t \in k.tokens, CookieOpens(k, r, now), OwnPass(t, r)
    PROVE  /\ Ok(EvaluateChallenges(r, now, spots).verify[t.key.chal])
           /\ t \in EvaluateChallenges(r, now, spots).map
<1>. DEFINE c == t.key.chal
            map == VerifyChallengeState(r, now).map
            token == CHOOSE u \in map : u.key.chal = c
            v == VerifyChallengeToken(c, token, r, now, c \in spots)
            w == VerifyChallenge(c, map, r, now, c \in spots)
<1>1. c \in Challenges /\ t \in map
  BY DEF Request, Cookie, Token, Key, VerifyChallengeState
<1>2. token \in map /\ token.key.chal = c
  BY <1>1
<1>3. token = t
  BY <1>1, <1>2, EvaluateNeat DEF Neat
<1>4. t.exp >= now /\ t.key = KeyFor(c, r) /\ t.ok = TRUE /\ c \notin CookieBound
  <2>1. t.key = KeyFor(c, r) /\ t.ok = TRUE /\ c \notin CookieBound
    BY DEF OwnPass
  <2>2. t.exp = Expiration(r.time, Duration[c])
    BY <1>1, <2>1, EvaluateNeat DEF Neat, KeyFor
  <2>3. t.exp >= now
    BY <1>1, <2>2, ExpirationAhead, DurationAssumption
  <2>. QED BY <2>1, <2>3
<1>5. t.exp \in Nat
  BY DEF Request, Cookie, Token
<1>6. v.result = "OK" /\ v.err = "nil"
  <2>. HIDE DEF token, c, map
  <2>1. VerifyChallengeToken(c, t, r, now, c \in spots).result = "OK"
    BY <1>4, <1>5 DEF VerifyChallengeToken
  <2>2. VerifyChallengeToken(c, t, r, now, c \in spots).err = "nil"
    BY <1>4, <1>5 DEF VerifyChallengeToken
  <2>. QED BY <1>3, <2>1, <2>2
<1>7. TokensOf(map, c) # {}
  BY <1>1 DEF TokensOf
<1>8. w.result = "OK" /\ w.clear = FALSE
  <2>. HIDE DEF map, c
  <2>. QED BY <1>6, <1>7 DEF VerifyChallenge, Ok
<1>9. Ok(EvaluateChallenges(r, now, spots).verify[c])
  BY <1>1, <1>8, EvaluateReads DEF Ok
<1>10. t \in EvaluateChallenges(r, now, spots).map
  BY <1>1, <1>8 DEF EvaluateChallenges
<1>. QED BY <1>9, <1>10

\* A request that is accepted, with one of the state cookies responses have set.
LEMMA AcceptKeepsWalk ==
    ASSUME IInv, WalkInv, NEW q \in Requests, NEW r \in Request, r.cookies \in AtMostOne(issued),
           r.time = clock, r.secret = secret, Accept(q, r)
    PROVE  WalkInv'
<1>1. clock \in Nat /\ \A k \in issued : Neat(k.tokens)
  BY DEF IInv, TypeOK, WalkInv
<1>2. PICK spots : data' = [data EXCEPT ![q] = EvaluateChallenges(r, clock, spots)]
  BY DEF Accept
<1>. DEFINE d == EvaluateChallenges(r, clock, spots)
<1>3. /\ pc[q] = "idle" /\ pc'[q] \in {"rules", "verify"} /\ data'[q] = d /\ req'[q] = r
      /\ UNCHANGED <<clock, secret, issued, pos, tried, resp>>
      /\ \A p \in Requests \ {q} : req'[p] = req[p] /\ data'[p] = data[p] /\ pc'[p] = pc[p]
  BY <1>2 DEF Accept, IInv, TypeOK
<1>4. pos[q] = Start /\ tried[q] = Untried /\ resp[q].kind = "none" /\ resp[q].cookies = {}
  BY <1>3 DEF WalkInv, Walk, IdleClean
<1>5. Walk(q)'
  <2>1. IdleClean(q)' /\ Once(q)'
    BY <1>3, <1>4 DEF IdleClean, Once, Untried
  <2>2. StateKnown(q)'
    BY <1>1, <1>3, <1>4, EvaluateKnown DEF StateKnown
  <2>3. Ancestors(q)'
    BY <1>3, <1>4, RuleInTree, RulesAssumption DEF Ancestors, Start
  <2>4. Neat(data[q].map)'
    BY <1>1, <1>3, EvaluateNeat DEF Neat
  <2>5. Carried(q)'
    <3>1. SUFFICES ASSUME NEW k \in r.cookies, NEW t \in k.tokens,
                          CookieOpens(k, r, r.time), OwnPass(t, r)
                   PROVE  Ok(d.verify[t.key.chal]) /\ \E u \in d.map : u.ok = TRUE /\ u.key = t.key
      BY <1>3 DEF Carried
    <3>2. Ok(d.verify[t.key.chal]) /\ t \in d.map
      BY <1>1, <3>1, EvaluateCarries
    <3>. QED BY <3>1, <3>2 DEF OwnPass
  <2>6. CookieIsMap(q)'
    BY <1>3, <1>4 DEF CookieIsMap
  <2>. QED BY <2>1, <2>2, <2>3, <2>4, <2>5, <2>6 DEF Walk
<1>6. \A p \in Requests \ {q} : Walk(p)'
  BY <1>3, WalkFrame DEF WalkInv
<1>7. \A p \in Requests : req'[p].secret <= secret'
  <2>1. secret \in Nat /\ req'[q].secret = secret /\ secret' = secret
    BY <1>3 DEF IInv, TypeOK
  <2>2. \A p \in Requests \ {q} : req'[p].secret <= secret
    BY <1>3 DEF WalkInv
  <2>. QED BY <2>1, <2>2
<1>. QED BY <1>3, <1>5, <1>6, <1>7 DEF WalkInv

LEMMA ArriveKeepsWalk ==
    ASSUME IInv, WalkInv, NEW q \in Requests, NEW r \in PageRequests \cup VerifyRequests,
           Arrive(q, r)
    PROVE  WalkInv'
BY ArrivalFacts, AcceptKeepsWalk DEF Arrive

\* A slot that nobody uses has the invariant.
LEMMA FreshWalk ==
    ASSUME NEW q \in Requests, req[q] = NoRequest, pc[q] = "idle", pos[q] = Start,
           data[q] = NoData, tried[q] = Untried, resp[q] = NoResponse
    PROVE  Walk(q)
<1>1. IdleClean(q) /\ Once(q) /\ Carried(q) /\ CookieIsMap(q)
  BY DEF IdleClean, Once, Carried, CookieIsMap, NoRequest, Untried, NoResponse
<1>2. StateKnown(q) /\ Ancestors(q)
  BY DEF StateKnown, Ancestors, NoResponse
<1>3. Neat(data[q].map)
  BY DEF Neat, NoData
<1>. QED BY <1>1, <1>2, <1>3 DEF Walk

LEMMA FinishKeepsWalk ==
    ASSUME IInv, WalkInv, NEW q \in Requests, Finish(q)
    PROVE  WalkInv'
<1>1. /\ req'[q] = NoRequest /\ pc'[q] = "idle" /\ pos'[q] = Start /\ data'[q] = NoData
      /\ tried'[q] = Untried /\ resp'[q] = NoResponse
      /\ UNCHANGED <<secret, issued>>
  BY DEF Finish, IInv, TypeOK
<1>2. \A p \in Requests \ {q} :
        /\ req'[p] = req[p] /\ pc'[p] = pc[p] /\ pos'[p] = pos[p]
        /\ data'[p] = data[p] /\ tried'[p] = tried[p] /\ resp'[p] = resp[p]
  BY DEF Finish, IInv, TypeOK
<1>3. Walk(q)'
  <2>1. IdleClean(q)' /\ Once(q)' /\ Carried(q)' /\ CookieIsMap(q)'
    BY <1>1 DEF IdleClean, Once, Carried, CookieIsMap, NoRequest, Untried, NoResponse
  <2>2. StateKnown(q)' /\ Ancestors(q)'
    BY <1>1 DEF StateKnown, Ancestors, NoResponse
  <2>3. Neat(data[q].map)'
    BY <1>1 DEF Neat, NoData
  <2>. QED BY <2>1, <2>2, <2>3 DEF Walk
<1>4. \A p \in Requests \ {q} : Walk(p)'
  BY <1>2, WalkFrame DEF WalkInv
<1>5. \A p \in Requests : req'[p].secret <= secret'
  BY <1>1, <1>2 DEF WalkInv, IInv, TypeOK, NoRequest
<1>. QED BY <1>1, <1>3, <1>4, <1>5 DEF WalkInv

LEMMA InitWalk == Init => WalkInv
<1>. SUFFICES ASSUME Init PROVE WalkInv
  OBVIOUS
<1>1. \A q \in Requests : Walk(q)
  BY FreshWalk DEF Init
<1>2. secret <= MaxSecret /\ \A q \in Requests : req[q].secret <= secret
  BY BoundsAssumption DEF Init, NoRequest
<1>. QED BY <1>1, <1>2 DEF Init, WalkInv

LEMMA NextWalk == IInv /\ WalkInv /\ [Next]_vars => WalkInv'
<1>. SUFFICES ASSUME IInv, WalkInv, [Next]_vars PROVE WalkInv'
  OBVIOUS
<1>1. ASSUME NEW q \in Requests, ArrivePage(q) \/ ArriveVerify(q) PROVE WalkInv'
  BY <1>1, ArriveKeepsWalk DEF ArrivePage, ArriveVerify
<1>2. ASSUME NEW q \in Requests, Serve(q) PROVE WalkInv'
  BY <1>2, ServeKeepsWalk
<1>3. ASSUME NEW q \in Requests, Finish(q) PROVE WalkInv'
  BY <1>3, FinishKeepsWalk
<1>4. CASE Tick \/ Rekey \/ UNCHANGED vars
  <2>1. UNCHANGED <<issued, req, pc, pos, data, tried, resp>>
    BY <1>4 DEF Tick, Rekey, vars
  <2>2. \A p \in Requests : Walk(p)'
    BY <2>1, WalkFrame DEF WalkInv
  <2>3. secret \in Nat /\ \A p \in Requests : req[p].secret \in Nat
    BY DEF IInv, TypeOK, Request
  <2>4. secret' = secret \/ (secret < MaxSecret /\ secret' = secret + 1)
    BY <1>4 DEF Tick, Rekey, vars
  <2>5. secret' <= MaxSecret /\ \A p \in Requests : req[p].secret <= secret'
    BY <2>3, <2>4, BoundsAssumption DEF WalkInv
  <2>. QED BY <2>1, <2>2, <2>5 DEF WalkInv
<1>. QED BY <1>1, <1>2, <1>3, <1>4 DEF Next

-----------------------------------------------------------------------------
(* What the invariant gives.                                               *)

LEMMA WalkGuards == IInv /\ WalkInv => CheckGuardsChildren
<1>. SUFFICES ASSUME IInv, WalkInv, NEW q \in Requests, resp[q].kind = "backend",
                     pos[q].rule \in DOMAIN Rules, NEW i \in 1 .. pos[q].rule - 1,
                     pos[q].rule <= Rules[i].last, Strict(Rules[i])
              PROVE  \E j \in DOMAIN Rules[i].chals : \E p \in answers :
                       /\ SameClient(p.key, Rules[i].chals[j], req[q])
                       /\ p.ok \/ Rules[i].chals[j] \in CookieBound
                       /\ p.at <= req[q].time
                       /\ req[q].time < p.at + Duration[Rules[i].chals[j]]
  BY DEF CheckGuardsChildren, Strict
<1>1. i \in DOMAIN Rules /\ i < pos[q].rule
  BY RulesAssumption
<1>2. PassedOne(Rules[i], data[q])
  BY <1>1 DEF WalkInv, Walk, Ancestors
<1>3. PICK j \in DOMAIN Rules[i].chals : Ok(data[q].verify[Rules[i].chals[j]])
  BY <1>2 DEF PassedOne
<1>4. Rules[i].chals[j] \in Challenges
  BY <1>1, RuleInTree
<1>. DEFINE c == Rules[i].chals[j]
<1>5. \E p \in answers :
        /\ SameClient(p.key, c, req[q]) /\ (p.ok \/ c \in CookieBound)
        /\ p.at <= req[q].time /\ req[q].time < p.at + Duration[c]
  <2>. HIDE DEF c
  <2>1. c \in Challenges /\ Ok(data[q].verify[c])
    BY <1>3, <1>4 DEF c
  <2>. QED BY <2>1, VerdictRecent
<1>. QED BY <1>5

LEMMA WalkHeader == IInv /\ WalkInv => HeaderStateKnown
<1>1. WalkInv => \A q \in Requests : StateKnown(q)
  BY DEF WalkInv, Walk
<1>. QED BY <1>1 DEF StateKnown, HeaderStateKnown, Issuing, InRule

LEMMA WalkPasses == IInv /\ WalkInv => PassesKept
<1>. SUFFICES ASSUME IInv, WalkInv, NEW q \in Requests, NEW new \in resp[q].cookies,
                     NEW old \in req[q].cookies, NEW t \in old.tokens,
                     CookieOpens(old, req[q], req[q].time),
                     t.ok, t.key = KeyFor(t.key.chal, req[q]), t.key.chal \notin CookieBound
              PROVE  \E u \in new.tokens : u.ok /\ u.key = t.key
  BY DEF PassesKept
<1>1. t.ok \in BOOLEAN
  BY DEF IInv, TypeOK, Request, Cookie, Token
<1>2. OwnPass(t, req[q])
  BY <1>1 DEF OwnPass
<1>3. PICK u \in data[q].map : u.ok = TRUE /\ u.key = t.key
  BY <1>2 DEF WalkInv, Walk, Carried
<1>4. new.tokens = data[q].map
  BY DEF WalkInv, Walk, CookieIsMap
<1>. QED BY <1>3, <1>4

\* Whatever conditions, other rules, misses and errors lie between, a child of a
\* CHECK or CHALLENGE rule that turns failures away passes a request on only if
\* its client has lately passed one of that rule's own challenges
\* (RuleState.Evaluate and Challenge.Handle, for every tree of rules).
THEOREM GuardedChildren == Spec => []CheckGuardsChildren
BY InitIInv, NextIInv, InitWalk, NextWalk, WalkGuards, PTL DEF Spec

\* However many rules list a challenge, one request makes go-away issue it at most
\* once (the test of VerifyStatePass in Challenge.Handle).
THEOREM OneIssue == Spec => []IssuedOnce
<1>1. WalkInv => IssuedOnce
  BY DEF WalkInv, Walk, Once, IssuedOnce
<1>. QED BY <1>1, InitIInv, NextIInv, InitWalk, NextWalk, PTL DEF Spec

\* RequestHeaders never meets a passed challenge without a state, on which
\* VerifyState.String panics: neither for the backend nor for the http runtime.
THEOREM HeadersSafe == Spec => []HeaderStateKnown
BY InitIInv, NextIInv, InitWalk, NextWalk, WalkHeader, PTL DEF Spec

\* A state cookie that replaces the client's keeps every pass of his that the old
\* one held, whatever is issued, cleared or refused in between
\* (EvaluateChallenges, IssueChallengeToken and ResponseHeaders together).
THEOREM NoPassLost == Spec => []PassesKept
BY InitIInv, NextIInv, InitWalk, NextWalk, WalkPasses, PTL DEF Spec

-----------------------------------------------------------------------------
(* The refinement.                                                         *)

\* The abstract state the refinement mapping gives.
Counts(a) == a.ok \/ a.key.chal \in CookieBound
PassOf(p) == [client |-> [net |-> p.key.net, agent |-> p.key.agent, secret |-> p.key.secret],
              chal |-> p.key.chal, at |-> p.at]
Passes == {[client |-> [net |-> p.key.net, agent |-> p.key.agent, secret |-> p.key.secret],
            chal |-> p.key.chal, at |-> p.at] :
           p \in {a \in answers : a.ok \/ a.key.chal \in CookieBound}}
Visits == [q \in Requests |-> Visit(q)]

LEMMA PassesAre ==
    /\ \A p : p \in Passes <=> \E a \in answers : Counts(a) /\ p = PassOf(a)
    /\ \A p : p \in Passes' <=> \E a \in answers' : Counts(a) /\ p = PassOf(a)
BY DEF Passes, Counts, PassOf

\* What the abstract visit shows of a request on its way, answered or admitted.
LEMMA VisitReads ==
    ASSUME NEW q \in Requests, pc[q] # "idle"
    PROVE  /\ \E status, by : Visits[q] = [status |-> status, client |-> ClientOf(req[q]),
                                          since |-> req[q].time, by |-> by]
           /\ Visits[q].client = ClientOf(req[q]) /\ Visits[q].since = req[q].time
           /\ pc[q] # "done" => Visits[q].status = "waiting"
           /\ pc[q] = "done" => Visits[q].status \in {"answered", "admitted"}
           /\ pc[q] = "done" /\ resp[q].kind = "backend" => Visits[q].status = "admitted"
           /\ Visits[q].by = IF resp[q].kind = "backend" THEN resp[q].by ELSE {}
BY DEF Visits, Visit

LEMMA VisitReadsNext ==
    ASSUME NEW q \in Requests, pc'[q] # "idle"
    PROVE  /\ \E status, by : Visits'[q] = [status |-> status, client |-> ClientOf(req'[q]),
                                           since |-> req'[q].time, by |-> by]
           /\ pc'[q] # "done" => Visits'[q].status = "waiting"
           /\ pc'[q] = "done" => Visits'[q].status \in {"answered", "admitted"}
           /\ pc'[q] = "done" /\ resp'[q].kind = "backend" => Visits'[q].status = "admitted"
           /\ Visits'[q].by = IF resp'[q].kind = "backend" THEN resp'[q].by ELSE {}
BY DEF Visits, Visit

LEMMA StatusAndBy ==
    ASSUME NEW v, NEW w, NEW st, NEW by, NEW st0, NEW by0, NEW who, NEW since,
           v = [status |-> st0, client |-> who, since |-> since, by |-> by0],
           w = [status |-> st, client |-> who, since |-> since, by |-> by]
    PROVE  w = [v EXCEPT !.status = w.status, !.by = w.by]
<1>. DEFINE u == [v EXCEPT !.status = w.status, !.by = w.by]
<1>1. DOMAIN u = {"status", "client", "since", "by"} /\ u = [x \in DOMAIN u |-> u[x]]
  OBVIOUS
<1>2. u.status = st /\ u.client = who /\ u.since = since /\ u.by = by
  OBVIOUS
<1>. HIDE DEF u
<1>3. u = w
  BY <1>1, <1>2
<1>. QED BY <1>3 DEF u

LEMMA VisitsFrame ==
    ASSUME NEW q \in Requests,
           \A p \in Requests \ {q} : req'[p] = req[p] /\ pc'[p] = pc[p] /\ resp'[p] = resp[p]
    PROVE  Visits' = [Visits EXCEPT ![q] = Visits'[q]]
<1>1. \A p \in Requests \ {q} : Visit(p)' = Visit(p)
  BY DEF Visit, ClientOf
<1>2. Visits = [p \in Requests |-> Visit(p)] /\ Visits' = [p \in Requests |-> Visit(p)']
  BY DEF Visits
<1>. QED BY <1>1, <1>2

LEMMA ServeImplements ==
    ASSUME IInv, IInv', AdmissionBacked', NEW q \in Requests, Serve(q)
    PROVE  Promise!Serve(q)
<1>1. PICK d \in RequestData : ServeEffect(q, d)
  BY ServeHasEffect
<1>2. /\ pc[q] \in {"rules", "verify"} /\ req' = req /\ UNCHANGED clock
      /\ pc'[q] \in {"rules", "verify", "done"}
      /\ \A p \in Requests \ {q} : req'[p] = req[p] /\ pc'[p] = pc[p] /\ resp'[p] = resp[p]
  BY <1>1, EffectFrame, EffectPlace DEF ServeEffect
<1>3. Visits[q].status = "waiting" /\ Visits[q].client = ClientOf(req[q])
      /\ Visits[q].since = req[q].time
  BY <1>2, VisitReads
<1>4. answers' = answers \/ \E c \in Challenges, ok \in BOOLEAN : Record(q, c, ok)
  BY <1>1 DEF ServeEffect
<1>5. Passes \subseteq Passes'
  <2>1. answers \subseteq answers'
    BY <1>4 DEF Record
  <2>. QED BY <2>1, PassesAre
<1>6. \A p \in Passes' \ Passes : p.client = Visits[q].client /\ p.at = Visits[q].since
  <2>1. SUFFICES ASSUME NEW p \in Passes' \ Passes
                 PROVE  p.client = ClientOf(req[q]) /\ p.at = req[q].time
    BY <1>3
  <2>2. PICK a \in answers' : p = PassOf(a) /\ a \notin answers
    BY <2>1, PassesAre
  <2>3. PICK c \in Challenges, ok \in BOOLEAN : Record(q, c, ok)
    BY <1>4, <2>2
  <2>4. a.key = KeyFor(c, req[q]) /\ a.at = req[q].time
    BY <2>2, <2>3 DEF Record
  <2>. QED BY <2>2, <2>4 DEF PassOf, KeyFor, ClientOf
<1>7. \E status \in {"waiting", "answered", "admitted"} :
        Visits' = [Visits EXCEPT ![q].status = status, ![q].by = Visits'[q].by]
  <2>1. Visits' = [Visits EXCEPT ![q] = Visits'[q]]
    BY <1>2, VisitsFrame
  <2>2. Visits'[q].status \in {"waiting", "answered", "admitted"}
    BY <1>2, VisitReadsNext
  <2>3. PICK st, by : Visits'[q] = [status |-> st, client |-> ClientOf(req[q]),
                                    since |-> req[q].time, by |-> by]
    <3>1. pc'[q] # "idle" /\ req'[q] = req[q]
      BY <1>2
    <3>2. \E st, by : Visits'[q] = [status |-> st, client |-> ClientOf(req'[q]),
                                   since |-> req'[q].time, by |-> by]
      BY <3>1, VisitReadsNext, Zenon
    <3>. QED BY <3>1, <3>2, Zenon
  <2>4. PICK st0, by0 : Visits[q] = [status |-> st0, client |-> ClientOf(req[q]),
                                     since |-> req[q].time, by |-> by0]
    BY <1>2, VisitReads
  <2>5. Visits'[q] = [Visits[q] EXCEPT !.status = Visits'[q].status, !.by = Visits'[q].by]
    <3>. DEFINE v == Visits[q]
                w == Visits'[q]
    <3>1. /\ v = [status |-> st0, client |-> ClientOf(req[q]), since |-> req[q].time, by |-> by0]
          /\ w = [status |-> st, client |-> ClientOf(req[q]), since |-> req[q].time, by |-> by]
      BY <2>3, <2>4, Zenon
    <3>. HIDE DEF v, w
    <3>2. w = [v EXCEPT !.status = w.status, !.by = w.by]
      BY <3>1, StatusAndBy
    <3>. QED BY <3>2 DEF v, w
  <2>. QED BY <2>1, <2>2, <2>5 DEF Visits
<1>8. Visits'[q].by # {} => Visits'[q].status = "admitted"
  BY <1>2, VisitReadsNext DEF IInv
<1>9. \A c \in Visits'[q].by : \E p \in Passes' : Promise!Fresh(p, c, Visits[q])
  <2>1. SUFFICES ASSUME NEW c \in Visits'[q].by
                 PROVE  \E p \in Passes' : Promise!Fresh(p, c, Visits[q])
    OBVIOUS
  <2>2. resp'[q].kind = "backend" /\ c \in resp'[q].by
    BY <1>2, <2>1, VisitReadsNext
  <2>3. PICK a \in answers' :
          /\ SameClient(a.key, c, req[q]) /\ (a.ok \/ c \in CookieBound)
          /\ a.at <= req[q].time /\ req[q].time < a.at + Duration[c]
    BY <1>2, <2>2 DEF AdmissionBacked
  <2>4. PassOf(a) \in Passes'
    BY <2>3, PassesAre DEF SameClient, Counts
  <2>5. Promise!Fresh(PassOf(a), c, Visits[q])
    BY <1>3, <2>3 DEF Promise!Fresh, PassOf, SameClient, ClientOf
  <2>. QED BY <2>4, <2>5
<1>. QED BY <1>2, <1>3, <1>5, <1>6, <1>7, <1>8, <1>9 DEF Promise!Serve, Passes, Visits, Promise!Fresh

LEMMA AcceptImplements ==
    ASSUME IInv, WalkInv, NEW q \in Requests, NEW r \in Request,
           r.time = clock, r.secret = secret, Accept(q, r)
    PROVE  Promise!Enter(q)
<1>1. secret \in Nat /\ secret <= MaxSecret
  BY DEF IInv, TypeOK, WalkInv
<1>2. /\ pc[q] = "idle" /\ pc'[q] \in {"rules", "verify"} /\ req'[q] = r
      /\ UNCHANGED <<clock, answers, resp>>
      /\ \A p \in Requests \ {q} : req'[p] = req[p] /\ pc'[p] = pc[p] /\ resp'[p] = resp[p]
  BY DEF Accept, IInv, TypeOK
<1>3. resp'[q].kind # "backend"
  BY <1>2 DEF WalkInv, Walk, IdleClean
<1>4. Visits[q].status = "away"
  BY <1>2 DEF Visits, Visit
<1>5. Visits'[q] = [status |-> "waiting", client |-> ClientOf(r), since |-> clock, by |-> {}]
  BY <1>1, <1>2, <1>3 DEF Visits, Visit
<1>6. ClientOf(r) \in [net: Nets, agent: Agents, secret: 0 .. MaxSecret]
  BY <1>1, BoundsAssumption DEF ClientOf, Request
<1>7. Visits' = [Visits EXCEPT ![q] = Visits'[q]]
  BY <1>2, VisitsFrame
<1>8. \E who \in [net: Nets, agent: Agents, secret: 0 .. MaxSecret] :
        Visits' = [Visits EXCEPT ![q] =
                     [status |-> "waiting", client |-> who, since |-> clock, by |-> {}]]
  BY <1>5, <1>6, <1>7
<1>9. Passes' = Passes
  BY <1>2 DEF Passes
<1>. QED BY <1>2, <1>4, <1>8, <1>9 DEF Promise!Enter, Passes, Visits

LEMMA ArriveImplements ==
    ASSUME IInv, WalkInv, NEW q \in Requests, NEW r \in PageRequests \cup VerifyRequests,
           Arrive(q, r)
    PROVE  Promise!Enter(q)
BY ArrivalFacts, AcceptImplements DEF Arrive

LEMMA FinishImplements ==
    ASSUME IInv, NEW q \in Requests, Finish(q)
    PROVE  Promise!Leave(q)
<1>1. /\ pc[q] = "done" /\ pc'[q] = "idle" /\ UNCHANGED <<clock, answers>>
      /\ \A p \in Requests \ {q} : req'[p] = req[p] /\ pc'[p] = pc[p] /\ resp'[p] = resp[p]
  BY DEF Finish, IInv, TypeOK
<1>2. Visits[q].status \in {"answered", "admitted"}
  BY <1>1, VisitReads
<1>3. Visits'[q] = [status |-> "away"]
  BY <1>1 DEF Visits, Visit
<1>4. Visits' = [Visits EXCEPT ![q] = Visits'[q]]
  BY <1>1, VisitsFrame
<1>5. Passes' = Passes
  BY <1>1 DEF Passes
<1>. QED BY <1>1, <1>2, <1>3, <1>4, <1>5 DEF Promise!Leave, Promise!Away, Passes, Visits

LEMMA StepImplements ==
    ASSUME IInv, WalkInv, IInv', AdmissionBacked', [Next]_vars
    PROVE  [Promise!Next]_<<clock, Passes, Visits>>
<1>1. ASSUME NEW q \in Requests, ArrivePage(q) \/ ArriveVerify(q) PROVE Promise!Next
  BY <1>1, ArriveImplements DEF ArrivePage, ArriveVerify, Promise!Next
<1>2. ASSUME NEW q \in Requests, Serve(q) PROVE Promise!Next
  BY <1>2, ServeImplements DEF Promise!Next
<1>3. ASSUME NEW q \in Requests, Finish(q) PROVE Promise!Next
  BY <1>3, FinishImplements DEF Promise!Next
<1>4. CASE Tick
  <2>1. Promise!Tick
    BY <1>4 DEF Promise!Tick, Tick, Visit, ClientOf
  <2>. QED BY <2>1 DEF Promise!Next
<1>5. CASE Rekey \/ UNCHANGED vars
  BY <1>5 DEF Rekey, vars, Passes, Visits, Visit, ClientOf
<1>. QED BY <1>1, <1>2, <1>3, <1>4, <1>5 DEF Next

LEMMA InitImplements == Init => Promise!Init
BY DEF Promise!Init, Init, Visit, ClientOf, Promise!Away

\* The request flow, with its cookies, keys, rules and concurrent requests,
\* implements the abstract specification of admission: every step is one there,
\* or is not seen there.  So a pass is won only by the client being served, none
\* is ever taken back, and who is let in because of a challenge holds a fresh one.
THEOREM ImplementsAdmission == Spec => AdmissionPromise
<1>1. IInv /\ WalkInv /\ IInv' /\ AdmissionBacked' /\ [Next]_vars
        => [Promise!Next]_<<clock, Passes, Visits>>
  BY StepImplements
<1>2. Init => Promise!Init
  BY InitImplements
<1>3. Spec => Promise!Init /\ [][Promise!Next]_<<clock, Passes, Visits>>
  BY <1>1, <1>2, InitIInv, NextIInv, InitWalk, NextWalk, IInvImpliesAdmissionBacked, PTL DEF Spec
<1>. QED BY <1>3, PTL DEF AdmissionPromise, Promise!Spec, Passes, Visits
=============================================================================
