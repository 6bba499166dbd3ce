--------------------------- MODULE RequestFlowProofs ---------------------------
(***************************************************************************)
(* RequestFlow's type invariant and AdmissionBacked, for every set of      *)
(* clients, every policy and every number of concurrent requests.          *)
(***************************************************************************)
EXTENDS RequestFlow, TLAPS

\* A token is the trace of an answer given under its key.
TokenBacked(t, A) == \E p \in A : p.key = t.key /\ (t.ok => p.ok)

\* A verdict OK on challenge c for the request r rests on an answer under the
\* key of r, given no later than r arrived.
VerdictBacked(c, r, A) ==
    \E p \in A : p.key = KeyFor(c, r) /\ p.at <= r.time /\ (p.ok \/ c \in CookieBound)

DataBacked(d, r, A) ==
    /\ d \in RequestData
    /\ \A t \in d.map : TokenBacked(t, A)
    /\ \A c \in Challenges : Ok(d.verify[c]) => VerdictBacked(c, r, A)

AnswersSound(A, now) ==
    \A p \in A : p.at <= now /\ p.key.exp = Expiration(p.at, Duration[p.key.chal])

\* The inductive invariant.
IInv ==
    /\ TypeOK
    /\ AnswersSound(answers, clock)
    /\ \A k \in issued : \A t \in k.tokens : TokenBacked(t, answers)
    /\ \A q \in Requests : req[q].time <= clock /\ DataBacked(data[q], req[q], answers)
    /\ \A q \in Requests : resp[q].kind = "backend" =>
         pc[q] = "done" /\ \A c \in resp[q].by : Ok(data[q].verify[c])

-----------------------------------------------------------------------------
\* Rounding to a multiple of d moves a time by at most half of d, down by less.
LEMMA RoundBounds ==
    ASSUME NEW x \in Nat, NEW d \in Nat \ {0}
    PROVE  /\ Round(x, d) \in Nat
           /\ 2 * Round(x, d) <= 2 * x + d
           /\ 2 * Round(x, d) > 2 * x - d
<1>1. x % d \in 0 .. (d - 1)
  OBVIOUS
<1>2. x % d <= x
  OBVIOUS
<1>. QED BY <1>1, <1>2 DEF Round

LEMMA ExpirationType ==
    ASSUME NEW t \in Nat, NEW d \in Nat \ {0}
    PROVE  Expiration(t, d) \in Nat
BY RoundBounds, t + d \in Nat DEF Expiration

\* Two times that share an expiration, and hence a challenge key, are less than
\* the duration apart (RequestData.Expiration).
LEMMA SameExpiration ==
    ASSUME NEW s \in Nat, NEW t \in Nat, NEW d \in Nat \ {0},
           Expiration(s, d) = Expiration(t, d)
    PROVE  t < s + d
<1>. DEFINE e == Expiration(s, d)
<1>1. e \in Nat /\ 2 * e <= 2 * (s + d) + d
  BY RoundBounds, s + d \in Nat DEF Expiration
<1>2. 2 * e > 2 * (t + d) - d
  BY RoundBounds, t + d \in Nat DEF Expiration
<1>. HIDE DEF e
<1>. QED BY <1>1, <1>2

LEMMA KeyForType ==
    ASSUME NEW c \in Challenges, NEW r \in Request
    PROVE  KeyFor(c, r) \in Key
<1>1. Duration[c] \in Nat \ {0}
  BY DurationAssumption
<1>2. Expiration(r.time, Duration[c]) \in Nat
  BY <1>1, ExpirationType DEF Request
<1>. QED BY <1>2 DEF KeyFor, Key, Request

-----------------------------------------------------------------------------
\* The tokens verifyChallengeState hands on come from the presented cookies.
LEMMA StateMap ==
    ASSUME NEW r \in Request, NEW now \in Nat
    PROVE  /\ VerifyChallengeState(r, now).map \subseteq UNION {k.tokens : k \in r.cookies}
           /\ VerifyChallengeState(r, now).map \subseteq Token
BY DEF VerifyChallengeState, Request, Cookie

LEMMA VerifyChallengeType ==
    ASSUME NEW c \in Challenges, NEW map, NEW r \in Request, NEW now \in Nat, NEW spot \in BOOLEAN
    PROVE  /\ VerifyChallenge(c, map, r, now, spot).result \in Results
           /\ VerifyChallenge(c, map, r, now, spot).state \in VerifyStates
           /\ VerifyChallenge(c, map, r, now, spot).clear \in BOOLEAN
<1>. DEFINE token == CHOOSE t \in map : t.key.chal = c
            v == VerifyChallengeToken(c, token, r, now, spot)
<1>1. v.result \in Results /\ v.state \in VerifyStates
  BY DEF VerifyChallengeToken, Results, VerifyStates
<1>. QED BY <1>1 DEF VerifyChallenge, Results, VerifyStates

\* verifyChallenge says OK only of a token that carries the key of the request,
\* and that says so itself unless the challenge is spot-checked.
LEMMA VerifyChallengeOK ==
    ASSUME NEW c \in Challenges, NEW map, NEW r \in Request, NEW now \in Nat, NEW spot \in BOOLEAN,
           Ok(VerifyChallenge(c, map, r, now, spot).result)
    PROVE  \E t \in map : t.key = KeyFor(c, r) /\ (t.ok \/ c \in CookieBound)
<1>. DEFINE token == CHOOSE t \in map : t.key.chal = c
            v == VerifyChallengeToken(c, token, r, now, spot)
<1>1. TokensOf(map, c) # {}
  BY DEF VerifyChallenge, Ok
<1>2. token \in map
  BY <1>1 DEF TokensOf
<1>3. v.result = "OK"
  BY <1>1 DEF VerifyChallenge, Ok
<1>4. token.key = KeyFor(c, r) /\ (token.ok \/ c \in CookieBound)
  BY <1>3 DEF VerifyChallengeToken
<1>. QED BY <1>2, <1>4

LEMMA EvaluateType ==
    ASSUME NEW r \in Request, NEW now \in Nat, NEW spots
    PROVE  EvaluateChallenges(r, now, spots) \in RequestData
<1>. DEFINE st == VerifyChallengeState(r, now)
            v == [c \in Challenges |-> VerifyChallenge(c, st.map, r, now, c \in spots)]
<1>1. st.map \subseteq Token
  BY StateMap
<1>2. ASSUME NEW c \in Challenges
      PROVE  v[c].result \in Results /\ v[c].state \in VerifyStates /\ v[c].clear \in BOOLEAN
  BY VerifyChallengeType, (c \in spots) \in BOOLEAN
<1>3. st.invalid \in BOOLEAN
  BY DEF VerifyChallengeState
<1>. QED BY <1>1, <1>2, <1>3 DEF EvaluateChallenges, RequestData

\* What EvaluateChallenges leaves behind rests on the answers the presented
\* cookies rest on.
LEMMA EvaluateBacked ==
    ASSUME NEW r \in Request, NEW now \in Nat, NEW spots, NEW A \in SUBSET Answer,
           r.time = now, AnswersSound(A, now),
           \A k \in r.cookies : \A t \in k.tokens : TokenBacked(t, A)
    PROVE  DataBacked(EvaluateChallenges(r, now, spots), r, A)
<1>. DEFINE st == VerifyChallengeState(r, now)
            d == EvaluateChallenges(r, now, spots)
<1>1. \A t \in st.map : TokenBacked(t, A)
  BY StateMap
<1>2. \A t \in d.map : TokenBacked(t, A)
  BY <1>1 DEF EvaluateChallenges
<1>3. ASSUME NEW c \in Challenges, Ok(d.verify[c])
      PROVE  VerdictBacked(c, r, A)
  <2>1. Ok(VerifyChallenge(c, st.map, r, now, c \in spots).result)
    BY <1>3 DEF EvaluateChallenges
  <2>2. PICK t \in st.map : t.key = KeyFor(c, r) /\ (t.ok \/ c \in CookieBound)
    BY <2>1, VerifyChallengeOK, (c \in spots) \in BOOLEAN
  <2>3. PICK p \in A : p.key = t.key /\ (t.ok => p.ok)
    BY <1>1, <2>2 DEF TokenBacked
  <2>4. p.at <= r.time
    BY DEF AnswersSound
  <2>. QED BY <2>2, <2>3, <2>4 DEF VerdictBacked
<1>. QED BY <1>2, <1>3, EvaluateType DEF DataBacked

-----------------------------------------------------------------------------
LEMMA VerdictType ==
    ASSUME NEW d \in RequestData, NEW c \in Challenges, NEW result \in Results
    PROVE  /\ Verdict(d, c, result) \in RequestData
           /\ Verdict(d, c, result).map = d.map
           /\ Verdict(d, c, result).verify = [d.verify EXCEPT ![c] = result]
BY DEF Verdict, RequestData, VerifyStates

\* An issued token joins the map under the request's key.
LEMMA IssueTokenType ==
    ASSUME NEW d \in RequestData, NEW c \in Challenges, NEW r \in Request,
           NEW res \in SUBSET Sessions, NEW ok \in BOOLEAN
    PROVE  /\ IssueChallengeToken(d, c, r, res, ok) \in RequestData
           /\ IssueChallengeToken(d, c, r, res, ok).verify = d.verify
           /\ \A t \in IssueChallengeToken(d, c, r, res, ok).map :
                t \in d.map \/ (t.key = KeyFor(c, r) /\ t.ok = ok)
<1>1. KeyFor(c, r) \in Key
  BY KeyForType
<1>2. Expiration(r.time, Duration[c]) \in Nat
  BY ExpirationType, DurationAssumption DEF Request
<1>. DEFINE new == [key |-> KeyFor(c, r), res |-> res, ok |-> ok,
                    exp |-> Expiration(r.time, Duration[c])]
            map == (d.map \ TokensOf(d.map, c)) \cup {new}
<1>3. new \in Token /\ new.key = KeyFor(c, r) /\ new.ok = ok
  BY <1>1, <1>2 DEF Token
<1>4. map \in SUBSET Token /\ \A t \in map : t \in d.map \/ t = new
  BY <1>3 DEF RequestData
<1>5. IssueChallengeToken(d, c, r, res, ok) = [d EXCEPT !.map = map, !.modified = TRUE]
  BY DEF IssueChallengeToken
<1>. HIDE DEF new, map
<1>. QED BY <1>3, <1>4, <1>5 DEF RequestData

LEMMA ResponseCookiesType ==
    ASSUME NEW d \in RequestData, NEW r \in Request
    PROVE  /\ ResponseCookies(d, r) \subseteq Cookie
           /\ \A k \in ResponseCookies(d, r) : k.tokens = d.map
<1>1. Expiration(r.time, DefaultDuration) \in Nat
  BY ExpirationType, DurationAssumption DEF Request
<1>. QED BY <1>1 DEF ResponseCookies, Cookie, Request, RequestData

\* Backing is kept when answers are added.
LEMMA BackingMonotone ==
    ASSUME NEW A, NEW B, A \subseteq B
    PROVE  /\ \A t : TokenBacked(t, A) => TokenBacked(t, B)
           /\ \A c, r : VerdictBacked(c, r, A) => VerdictBacked(c, r, B)
           /\ \A d, r : DataBacked(d, r, A) => DataBacked(d, r, B)
BY DEF TokenBacked, VerdictBacked, DataBacked


-----------------------------------------------------------------------------
\* The ways a step of the request q can end with the data d: the next iteration,
\* the next rule, or a response, which names a challenge as the reason to reach
\* the backend only if d finds it valid.
Settles(q, d) ==
    \/ NextRule(q, d)
    \/ NextChallenge(q, d)
    \/ \E kind \in Kinds, by \in SUBSET Challenges, cookies \in SUBSET ResponseCookies(d, req[q]) :
         Reply(q, d, kind, by, cookies) /\ (kind = "backend" => \A c \in by : Ok(d.verify[c]))

LEMMA RespondSettles ==
    ASSUME NEW q, NEW d, NEW kind \in Kinds, NEW by \in SUBSET Challenges,
           Respond(q, d, kind, by), kind = "backend" => \A c \in by : Ok(d.verify[c])
    PROVE  Settles(q, d)
BY DEF Respond, Settles

LEMMA ActSettles ==
    ASSUME NEW q, NEW d, NEW action, NEW by \in SUBSET Challenges,
           Act(q, d, action, by), \A c \in by : Ok(d.verify[c])
    PROVE  Settles(q, d)
<1>1. CASE action \in {"PASS", "PROXY"} /\ Respond(q, d, "backend", by)
  BY <1>1, RespondSettles DEF Kinds
<1>5. CASE action = "PROXY" /\ Respond(q, d, "error", {})
  BY <1>5, RespondSettles DEF Kinds
<1>2. CASE action = "DENY" /\ Respond(q, d, "deny", {})
  BY <1>2, RespondSettles DEF Kinds
<1>3. CASE action = "DROP" /\ Reply(q, d, "deny", {}, {})
  <2>1. "deny" \in Kinds /\ {} \in SUBSET Challenges /\ {} \in SUBSET ResponseCookies(d, req[q])
    BY DEF Kinds
  <2>. QED BY <1>3, <2>1 DEF Settles
<1>4. CASE action = "NONE" /\ NextRule(q, d)
  BY <1>4 DEF Settles
<1>. QED BY <1>1, <1>2, <1>3, <1>4, <1>5 DEF Act

LEMMA PassSettles ==
    ASSUME NEW q, NEW d, NEW rule, NEW c \in Challenges, Pass(q, d, rule, c), Ok(d.verify[c])
    PROVE  Settles(q, d)
<1>1. CASE rule.cont
  BY <1>1 DEF Pass, Settles
<1>2. CASE ~rule.cont
  BY <1>2, ActSettles, {c} \in SUBSET Challenges DEF Pass
<1>. QED BY <1>1, <1>2

\* A step of one request that settles with backed data keeps the invariant.
LEMMA SettlesKeepsIInv ==
    ASSUME IInv, NEW q \in Requests, NEW d, Settles(q, d), pc[q] # "done",
           DataBacked(d, req[q], answers'),
           answers \subseteq answers', answers' \subseteq Answer, AnswersSound(answers', clock),
           disclosed' \subseteq Key, tried' \in [Requests -> [Challenges -> Nat]],
           UNCHANGED <<clock, secret, arrivals, req>>
    PROVE  IInv'
<1>1. d \in RequestData /\ req[q] \in Request
  BY DEF DataBacked, IInv, TypeOK
<1>2. data' = [data EXCEPT ![q] = d] /\ data' \in [Requests -> RequestData]
  <2>1. data' = [data EXCEPT ![q] = d]
    BY DEF Settles, NextRule, NextChallenge, Reply
  <2>. QED BY <1>1, <2>1 DEF IInv, TypeOK
<1>3. \A p \in Requests : req'[p].time <= clock' /\ DataBacked(data'[p], req'[p], answers')
  BY <1>2, BackingMonotone DEF IInv, TypeOK
<1>4. CASE NextRule(q, d) \/ NextChallenge(q, d)
  <2>1. issued' = issued /\ resp' = resp /\ pc' = pc
    BY <1>4 DEF NextRule, NextChallenge
  <2>2. pos' \in [Requests -> [rule: Nat \ {0}, idx: Nat]]
    <3>1. pos \in [Requests -> [rule: Nat \ {0}, idx: Nat]]
      BY DEF IInv, TypeOK
    <3>2. CASE NextRule(q, d)
      BY <3>1, <3>2 DEF NextRule
    <3>3. CASE NextChallenge(q, d)
      BY <3>1, <3>3 DEF NextChallenge
    <3>. QED BY <1>4, <3>2, <3>3
  <2>3. TypeOK'
    BY <1>2, <2>1, <2>2 DEF IInv, TypeOK
  <2>4. \A k \in issued' : \A t \in k.tokens : TokenBacked(t, answers')
    BY <2>1, BackingMonotone DEF IInv
  <2>5. \A p \in Requests : resp'[p].kind = "backend" =>
          pc'[p] = "done" /\ \A c \in resp'[p].by : Ok(data'[p].verify[c])
    BY <1>2, <2>1 DEF IInv, TypeOK
  <2>. QED BY <1>3, <2>3, <2>4, <2>5 DEF IInv
<1>5. CASE \E kind \in Kinds, by \in SUBSET Challenges, cookies \in SUBSET ResponseCookies(d, req[q]) :
             Reply(q, d, kind, by, cookies) /\ (kind = "backend" => \A c \in by : Ok(d.verify[c]))
  <2>1. PICK kind \in Kinds, by \in SUBSET Challenges, cookies \in SUBSET ResponseCookies(d, req[q]) :
             Reply(q, d, kind, by, cookies) /\ (kind = "backend" => \A c \in by : Ok(d.verify[c]))
    BY <1>5
  <2>2. cookies \subseteq Cookie /\ \A k \in cookies : k.tokens = d.map
    BY <1>1, ResponseCookiesType
  <2>3. issued' = issued \cup cookies /\ pos' = pos
    BY <2>1 DEF Reply
  <2>4. resp' = [resp EXCEPT ![q] = [kind |-> kind, by |-> by, cookies |-> cookies]]
    BY <2>1 DEF Reply
  <2>5. resp' \in [Requests -> Response] /\ pc' \in [Requests -> {"idle", "rules", "verify", "done"}]
    BY <2>1, <2>2 DEF Reply, IInv, TypeOK, Response
  <2>6. TypeOK'
    BY <1>2, <2>2, <2>3, <2>5 DEF IInv, TypeOK
  <2>7. \A k \in issued' : \A t \in k.tokens : TokenBacked(t, answers')
    BY <2>2, <2>3, BackingMonotone DEF IInv, DataBacked
  <2>9. pc' = [pc EXCEPT ![q] = "done"]
    BY <2>1 DEF Reply
  <2>8. \A p \in Requests : resp'[p].kind = "backend" =>
          pc'[p] = "done" /\ \A c \in resp'[p].by : Ok(data'[p].verify[c])
    BY <1>2, <2>1, <2>4, <2>9 DEF IInv, TypeOK
  <2>. QED BY <1>3, <2>6, <2>7, <2>8 DEF IInv
<1>. QED BY <1>4, <1>5 DEF Settles


-----------------------------------------------------------------------------
LEMMA RuleType ==
    ASSUME NEW q \in Requests, InRule(q)
    PROVE  /\ Rule(q).chals \in Seq(Challenges) /\ Rule(q).last \in Nat
           /\ \A i \in DOMAIN Rule(q).chals : Rule(q).chals[i] \in Challenges
<1>1. Rule(q) \in RuleState
  BY RulesAssumption DEF InRule, Rule
<1>2. Rule(q).chals \in Seq(Challenges) /\ Rule(q).last \in Nat
  BY <1>1 DEF RuleState
<1>. QED BY <1>2

\* A step that leaves the answers, the keys shown and the issue counts alone.
LEMMA QuietStep ==
    ASSUME IInv, NEW q \in Requests, Settles(q, data[q]), pc[q] # "done",
           UNCHANGED <<clock, secret, arrivals, disclosed, answers, req, tried>>
    PROVE  IInv'
<1>1. DataBacked(data[q], req[q], answers')
  BY DEF IInv
<1>2. /\ answers \subseteq answers' /\ answers' \subseteq Answer /\ AnswersSound(answers', clock)
      /\ disclosed' \subseteq Key /\ tried' \in [Requests -> [Challenges -> Nat]]
  BY DEF IInv, TypeOK
<1>. QED BY <1>1, <1>2, SettlesKeepsIInv

\* The history after a pass or a refusal of challenge c by the request q.
LEMMA RecordSound ==
    ASSUME IInv, NEW q \in Requests, NEW c \in Challenges, NEW ok \in BOOLEAN, Record(q, c, ok)
    PROVE  /\ answers \subseteq answers' /\ answers' \subseteq Answer
           /\ AnswersSound(answers', clock)
           /\ ok => VerdictBacked(c, req[q], answers')
           /\ \A t : t.key = KeyFor(c, req[q]) /\ t.ok = ok => TokenBacked(t, answers')
<1>. DEFINE p == [key |-> KeyFor(c, req[q]), at |-> req[q].time, ok |-> ok]
<1>1. req[q] \in Request /\ req[q].time \in Nat /\ req[q].time <= clock
  BY DEF IInv, TypeOK, Request
<1>2. p \in Answer /\ p.key = KeyFor(c, req[q]) /\ p.at = req[q].time /\ p.ok = ok
  BY <1>1, KeyForType DEF Answer
<1>3. p.key.chal = c /\ p.key.exp = Expiration(p.at, Duration[c])
  BY <1>2 DEF KeyFor
<1>4. answers' = answers \cup {p}
  BY DEF Record
<1>. HIDE DEF p
<1>5. answers \subseteq answers' /\ answers' \subseteq Answer
  BY <1>2, <1>4 DEF IInv, TypeOK
<1>6. AnswersSound(answers', clock)
  BY <1>1, <1>2, <1>3, <1>4 DEF AnswersSound, IInv
<1>7. ok => VerdictBacked(c, req[q], answers')
  <2>1. p \in answers' /\ p.at <= req[q].time
    BY <1>1, <1>2, <1>4
  <2>2. ok => p.ok
    BY <1>2
  <2>. QED BY <1>2, <2>1, <2>2, Zenon DEF VerdictBacked
<1>8. \A t : t.key = KeyFor(c, req[q]) /\ t.ok = ok => TokenBacked(t, answers')
  BY <1>2, <1>4 DEF TokenBacked
<1>. QED BY <1>5, <1>6, <1>7, <1>8

\* A verdict on c keeps data backed, if an OK is backed.
LEMMA VerdictKeepsBacked ==
    ASSUME NEW d, NEW r, NEW A, DataBacked(d, r, A), NEW c \in Challenges,
           NEW result \in Results, Ok(result) => VerdictBacked(c, r, A)
    PROVE  DataBacked(Verdict(d, c, result), r, A)
<1>1. d \in RequestData
  BY DEF DataBacked
<1>2. /\ Verdict(d, c, result) \in RequestData /\ Verdict(d, c, result).map = d.map
      /\ Verdict(d, c, result).verify = [d.verify EXCEPT ![c] = result]
  BY <1>1, VerdictType
<1>3. d.verify \in [Challenges -> Results]
  BY <1>1 DEF RequestData
<1>4. ASSUME NEW x \in Challenges, Ok(Verdict(d, c, result).verify[x])
      PROVE  VerdictBacked(x, r, A)
  <2>1. CASE x = c
    BY <1>2, <1>3, <1>4, <2>1
  <2>2. CASE x # c
    BY <1>2, <1>3, <1>4, <2>2 DEF DataBacked
  <2>. QED BY <2>1, <2>2
<1>. QED BY <1>2, <1>4 DEF DataBacked

LEMMA VerdictReads ==
    ASSUME NEW d \in RequestData, NEW c \in Challenges
    PROVE  Ok(Verdict(d, c, "OK").verify[c])
<1>1. Verdict(d, c, "OK").verify = [d.verify EXCEPT ![c] = "OK"]
  BY VerdictType DEF Results
<1>2. d.verify \in [Challenges -> Results]
  BY DEF RequestData
<1>. QED BY <1>1, <1>2 DEF Ok

\* So does a token for an answer in the history.
LEMMA TokenKeepsBacked ==
    ASSUME NEW d, NEW r \in Request, NEW A, DataBacked(d, r, A), NEW c \in Challenges,
           NEW res \in SUBSET Sessions, NEW ok \in BOOLEAN,
           \A t : t.key = KeyFor(c, r) /\ t.ok = ok => TokenBacked(t, A)
    PROVE  DataBacked(IssueChallengeToken(d, c, r, res, ok), r, A)
<1>1. d \in RequestData
  BY DEF DataBacked
<1>. QED BY <1>1, IssueTokenType DEF DataBacked

\* What holds whenever an IssueChallenge runs.
LEMMA IssueFacts ==
    ASSUME IInv, NEW q \in Requests, NEW runtime, Issue(q, runtime)
    PROVE  /\ Current(q) \in Challenges /\ pc[q] # "done"
           /\ tried' \in [Requests -> [Challenges -> Nat]]
           /\ UNCHANGED <<clock, secret, arrivals, req>>
           /\ req[q] \in Request /\ DataBacked(data[q], req[q], answers)
<1>1. Current(q) \in Challenges
  BY RuleType DEF Issue, Issuing, Current
<1>2. tried \in [Requests -> [Challenges -> Nat]]
  BY DEF IInv, TypeOK
<1>3. tried' = [tried EXCEPT ![q] = [tried[q] EXCEPT ![Current(q)] = tried[q][Current(q)] + 1]]
  BY DEF Issue
<1>4. tried' \in [Requests -> [Challenges -> Nat]]
  BY <1>1, <1>2, <1>3
<1>5. pc[q] # "done"
  BY DEF Issue, Issuing, InRule
<1>. QED BY <1>1, <1>4, <1>5 DEF Issue, IInv, TypeOK


-----------------------------------------------------------------------------
\* The issuing steps, one lemma for each runtime.
LEMMA IssueCookieStep ==
    ASSUME IInv, NEW q \in Requests, IssueCookie(q)
    PROVE  IInv'
<1>. DEFINE c == Current(q)
            d == IssueChallengeToken(data[q], c, req[q], {}, TRUE)
<1>1. Issue(q, "cookie") /\ Record(q, c, TRUE) /\ disclosed' = disclosed
  BY DEF IssueCookie
<1>2. /\ c \in Challenges /\ pc[q] # "done" /\ tried' \in [Requests -> [Challenges -> Nat]]
      /\ UNCHANGED <<clock, secret, arrivals, req>>
      /\ req[q] \in Request /\ DataBacked(data[q], req[q], answers)
  BY <1>1, IssueFacts
<1>3. /\ answers \subseteq answers' /\ answers' \subseteq Answer /\ AnswersSound(answers', clock)
      /\ \A t : t.key = KeyFor(c, req[q]) /\ t.ok = TRUE => TokenBacked(t, answers')
  BY <1>1, <1>2, RecordSound
<1>4. DataBacked(d, req[q], answers')
  BY <1>2, <1>3, BackingMonotone, TokenKeepsBacked
<1>5. \A result \in {"None", "Fail"} : DataBacked(Verdict(d, c, result), req[q], answers')
  BY <1>2, <1>4, VerdictKeepsBacked DEF Results, Ok
<1>6. disclosed' \subseteq Key
  BY <1>1 DEF IInv, TypeOK
<1>7. Settles(q, Verdict(d, c, "None")) \/ Settles(q, Verdict(d, c, "Fail"))
  <2>1. \/ Respond(q, Verdict(d, c, "None"), "redirect", {c})
        \/ Act(q, Verdict(d, c, "Fail"), Rule(q).fail, {})
    BY DEF IssueCookie
  <2>2. "redirect" \in Kinds /\ "redirect" # "backend"
    BY DEF Kinds
  <2>3. {c} \in SUBSET Challenges /\ {} \in SUBSET Challenges
    BY <1>2
  <2>. HIDE DEF c, d
  <2>. QED BY <2>1, <2>2, <2>3, RespondSettles, ActSettles
<1>. QED BY <1>2, <1>3, <1>5, <1>6, <1>7, SettlesKeepsIInv

LEMMA IssuePageStep ==
    ASSUME IInv, NEW q \in Requests, NEW runtime, IssuePage(q, runtime)
    PROVE  IInv'
<1>. DEFINE c == Current(q)
<1>1. Issue(q, runtime) /\ answers' = answers
  BY DEF IssuePage
<1>2. /\ c \in Challenges /\ pc[q] # "done" /\ tried' \in [Requests -> [Challenges -> Nat]]
      /\ UNCHANGED <<clock, secret, arrivals, req>>
      /\ req[q] \in Request /\ DataBacked(data[q], req[q], answers)
  BY <1>1, IssueFacts
<1>3. /\ answers \subseteq answers' /\ answers' \subseteq Answer /\ AnswersSound(answers', clock)
  BY <1>1 DEF IInv, TypeOK
<1>5. \A result \in {"None", "Fail"} : DataBacked(Verdict(data[q], c, result), req[q], answers')
  BY <1>1, <1>2, VerdictKeepsBacked DEF Results, Ok
<1>6. disclosed' \subseteq Key
  BY <1>2, KeyForType DEF IssuePage, IInv, TypeOK
<1>7. Settles(q, Verdict(data[q], c, "None")) \/ Settles(q, Verdict(data[q], c, "Fail"))
  <2>1. \/ Respond(q, Verdict(data[q], c, "None"), "challenge", {c})
        \/ Act(q, Verdict(data[q], c, "Fail"), Rule(q).fail, {})
    BY DEF IssuePage
  <2>2. "challenge" \in Kinds /\ "challenge" # "backend"
    BY DEF Kinds
  <2>3. {c} \in SUBSET Challenges /\ {} \in SUBSET Challenges
    BY <1>2
  <2>. HIDE DEF c
  <2>. QED BY <2>1, <2>2, <2>3, RespondSettles, ActSettles
<1>. QED BY <1>2, <1>3, <1>5, <1>6, <1>7, SettlesKeepsIInv

LEMMA AnsweredStep ==
    ASSUME IInv, NEW q \in Requests, NEW runtime, Issue(q, runtime), disclosed' = disclosed,
           NEW res \in SUBSET Sessions, NEW ok \in BOOLEAN, Answered(q, Current(q), res, ok)
    PROVE  IInv'
<1>. DEFINE c == Current(q)
            d == IssueChallengeToken(data[q], c, req[q], res, ok)
<1>1. Record(q, c, ok)
  BY DEF Answered
<1>2. /\ c \in Challenges /\ pc[q] # "done" /\ tried' \in [Requests -> [Challenges -> Nat]]
      /\ UNCHANGED <<clock, secret, arrivals, req>>
      /\ req[q] \in Request /\ DataBacked(data[q], req[q], answers)
  BY IssueFacts
<1>3. /\ answers \subseteq answers' /\ answers' \subseteq Answer /\ AnswersSound(answers', clock)
      /\ ok => VerdictBacked(c, req[q], answers')
      /\ \A t : t.key = KeyFor(c, req[q]) /\ t.ok = ok => TokenBacked(t, answers')
  BY <1>1, <1>2, RecordSound
<1>4. DataBacked(d, req[q], answers')
  BY <1>2, <1>3, BackingMonotone, TokenKeepsBacked
<1>5. disclosed' \subseteq Key
  BY DEF IInv, TypeOK
<1>6. CASE ok
  <2>1. DataBacked(Verdict(d, c, "OK"), req[q], answers')
    BY <1>2, <1>3, <1>4, <1>6, VerdictKeepsBacked DEF Results
  <2>2. Pass(q, Verdict(d, c, "OK"), Rule(q), c)
    BY <1>6 DEF Answered
  <2>3. Ok(Verdict(d, c, "OK").verify[c])
    BY <1>2, <1>4, VerdictReads DEF DataBacked
  <2>4. Settles(q, Verdict(d, c, "OK"))
    BY <1>2, <2>2, <2>3, PassSettles
  <2>. QED BY <1>2, <1>3, <1>5, <2>1, <2>4, SettlesKeepsIInv
<1>7. CASE ~ok
  <2>1. DataBacked(Verdict(d, c, "NotOK"), req[q], answers')
    BY <1>2, <1>4, VerdictKeepsBacked DEF Results, Ok
  <2>2. Settles(q, Verdict(d, c, "NotOK"))
    BY <1>7 DEF Answered, Settles
  <2>. QED BY <1>2, <1>3, <1>5, <2>1, <2>2, SettlesKeepsIInv
<1>. QED BY <1>6, <1>7

LEMMA UnansweredStep ==
    ASSUME IInv, NEW q \in Requests, NEW runtime, Issue(q, runtime), disclosed' = disclosed,
           NEW result \in {"Skip", "Fail"}, Unanswered(q, Current(q), result)
    PROVE  IInv'
<1>. DEFINE c == Current(q)
<1>1. /\ c \in Challenges /\ pc[q] # "done" /\ tried' \in [Requests -> [Challenges -> Nat]]
      /\ UNCHANGED <<clock, secret, arrivals, req>>
      /\ req[q] \in Request /\ DataBacked(data[q], req[q], answers)
  BY IssueFacts
<1>2. /\ answers \subseteq answers' /\ answers' \subseteq Answer /\ AnswersSound(answers', clock)
      /\ disclosed' \subseteq Key /\ answers' = answers
  BY DEF Unanswered, IInv, TypeOK
<1>3. DataBacked(Verdict(data[q], c, result), req[q], answers')
  BY <1>1, <1>2, VerdictKeepsBacked DEF Results, Ok
<1>4. Settles(q, Verdict(data[q], c, result))
  BY DEF Unanswered, Settles
<1>. QED BY <1>1, <1>2, <1>3, <1>4, SettlesKeepsIInv

LEMMA IssuePreloadLinkStep ==
    ASSUME IInv, NEW q \in Requests, IssuePreloadLink(q)
    PROVE  IInv'
<1>. DEFINE c == Current(q)
<1>1. Issue(q, "preload-link") /\ disclosed' = disclosed
  BY DEF IssuePreloadLink
<1>2. /\ c \in Challenges /\ pc[q] # "done" /\ tried' \in [Requests -> [Challenges -> Nat]]
      /\ UNCHANGED <<clock, secret, arrivals, req>>
      /\ req[q] \in Request /\ DataBacked(data[q], req[q], answers)
  BY <1>1, IssueFacts
<1>3. CASE \E result \in {"Skip", "Fail"} : Unanswered(q, c, result)
  BY <1>1, <1>3, UnansweredStep
<1>4. CASE Record(q, c, TRUE) /\ Pass(q, Verdict(data[q], c, "OK"), Rule(q), c)
  <2>1. /\ answers \subseteq answers' /\ answers' \subseteq Answer /\ AnswersSound(answers', clock)
        /\ VerdictBacked(c, req[q], answers')
    BY <1>2, <1>4, RecordSound
  <2>2. DataBacked(Verdict(data[q], c, "OK"), req[q], answers')
    BY <1>2, <2>1, BackingMonotone, VerdictKeepsBacked DEF Results
  <2>3. Ok(Verdict(data[q], c, "OK").verify[c])
    BY <1>2, VerdictReads DEF DataBacked
  <2>4. Settles(q, Verdict(data[q], c, "OK"))
    BY <1>2, <1>4, <2>3, PassSettles
  <2>5. disclosed' \subseteq Key
    BY <1>1 DEF IInv, TypeOK
  <2>. QED BY <1>2, <2>1, <2>2, <2>4, <2>5, SettlesKeepsIInv
<1>. QED BY <1>3, <1>4 DEF IssuePreloadLink

LEMMA IssueHttpStep ==
    ASSUME IInv, NEW q \in Requests, IssueHttp(q)
    PROVE  IInv'
<1>. DEFINE c == Current(q)
            res == IF c \in CookieBound THEN req[q].session ELSE {}
<1>1. Issue(q, "http") /\ disclosed' = disclosed
  BY DEF IssueHttp
<1>2. \/ \E result \in {"Skip", "Fail"} : Unanswered(q, c, result)
      \/ \E ok \in BOOLEAN : Answered(q, c, res, ok)
  BY DEF IssueHttp
<1>3. res \in SUBSET Sessions
  BY <1>1, IssueFacts DEF Request
<1>. QED BY <1>1, <1>2, <1>3, AnsweredStep, UnansweredStep


-----------------------------------------------------------------------------
LEMMA AtMostOneSubset ==
    ASSUME NEW S, NEW T \in AtMostOne(S)
    PROVE  T \subseteq S
BY DEF AtMostOne

\* A request that is accepted, with cookies that responses have set.
LEMMA AcceptStep ==
    ASSUME IInv, NEW q \in Requests, NEW r \in Request, r.cookies \subseteq issued,
           r.time = clock, Accept(q, r), arrivals' \in Nat
    PROVE  IInv'
<1>2. clock \in Nat /\ answers \in SUBSET Answer
  BY DEF IInv, TypeOK
<1>3. PICK spots \in SUBSET CookieBound :
        data' = [data EXCEPT ![q] = EvaluateChallenges(r, clock, spots)]
  BY DEF Accept
<1>. DEFINE d == EvaluateChallenges(r, clock, spots)
<1>4. DataBacked(d, r, answers)
  BY <1>2, EvaluateBacked DEF IInv
<1>5. d \in RequestData
  BY <1>4 DEF DataBacked
<1>. HIDE DEF d
<1>6. /\ req' = [req EXCEPT ![q] = r] /\ data' = [data EXCEPT ![q] = d]
      /\ pc' \in [Requests -> {"idle", "rules", "verify", "done"}]
      /\ UNCHANGED <<clock, secret, issued, disclosed, answers, pos, tried, resp>>
  BY <1>3 DEF Accept, d, IInv, TypeOK
<1>7. TypeOK'
  BY <1>5, <1>6 DEF IInv, TypeOK
<1>8. \A p \in Requests : req'[p].time <= clock' /\ DataBacked(data'[p], req'[p], answers')
  BY <1>2, <1>4, <1>6 DEF IInv, TypeOK
<1>9. \A p \in Requests : p # q => pc'[p] = pc[p]
  BY DEF Accept, IInv, TypeOK
<1>10. pc[q] # "done"
  BY DEF Accept
<1>11. \A p \in Requests : resp'[p].kind = "backend" =>
         pc'[p] = "done" /\ \A c \in resp'[p].by : Ok(data'[p].verify[c])
  BY <1>6, <1>9, <1>10 DEF IInv, TypeOK
<1>. QED BY <1>6, <1>7, <1>8, <1>11 DEF IInv

\* What the clients of RequestFlow send.
LEMMA ArrivalFacts ==
    ASSUME IInv, NEW r \in PageRequests \cup VerifyRequests
    PROVE  /\ r \in Request /\ r.cookies \in AtMostOne(issued) /\ r.cookies \subseteq issued
           /\ r.time = clock /\ r.secret = secret
<1>1. /\ clock \in Nat /\ secret \in Nat /\ issued \subseteq Cookie /\ disclosed \subseteq Key
      /\ Methods \subseteq {"GET", "POST"} /\ Conditioned \subseteq Challenges
      /\ Routed \subseteq Challenges
  BY ClientsAssumption, RegistrationAssumption DEF IInv, TypeOK, Routed
<1>2. CASE r \in PageRequests
  <2>1. /\ r.session \subseteq Sessions /\ r.arg \subseteq Challenges \cup {NoneNamed}
        /\ r.cookies \subseteq issued /\ r.eligible \subseteq Conditioned
    BY <1>2, AtMostOneSubset DEF PageRequests
  <2>. QED BY <1>1, <1>2, <2>1 DEF PageRequests, Request
<1>3. CASE r \in VerifyRequests
  <2>1. /\ r.session \subseteq Sessions /\ r.arg \subseteq Challenges
        /\ r.path \subseteq Routed /\ r.token \subseteq disclosed
        /\ r.cookies \subseteq issued /\ r.eligible \subseteq Conditioned
    BY <1>3, AtMostOneSubset DEF VerifyRequests
  <2>. QED BY <1>1, <1>3, <2>1 DEF VerifyRequests, Request
<1>. QED BY <1>2, <1>3

LEMMA ArriveStep ==
    ASSUME IInv, NEW q \in Requests, NEW r \in PageRequests \cup VerifyRequests, Arrive(q, r)
    PROVE  IInv'
<1>1. arrivals' \in Nat
  BY DEF Arrive, IInv, TypeOK
<1>. QED BY <1>1, ArrivalFacts, AcceptStep DEF Arrive

LEMMA FinishStep ==
    ASSUME IInv, NEW q \in Requests, Finish(q)
    PROVE  IInv'
<1>1. NoRequest \in Request
  <2>1. (CHOOSE n \in Nets : TRUE) \in Nets /\ (CHOOSE a \in Agents : TRUE) \in Agents
    BY ClientsAssumption
  <2>. QED BY <2>1 DEF NoRequest, Request
<1>2. DataBacked(NoData, NoRequest, answers)
  BY DEF DataBacked, NoData, RequestData, Results, VerifyStates, Ok
<1>3. NoResponse \in Response /\ NoResponse.kind # "backend"
  BY DEF NoResponse, Response, Kinds
<1>4. Start \in [rule: Nat \ {0}, idx: Nat] /\ Untried \in [Challenges -> Nat]
  BY DEF Start, Untried
<1>5. TypeOK'
  BY <1>1, <1>2, <1>3, <1>4 DEF Finish, IInv, TypeOK, DataBacked
<1>6. NoRequest.time <= clock
  BY DEF NoRequest, IInv, TypeOK
<1>7. \A p \in Requests : req'[p].time <= clock' /\ DataBacked(data'[p], req'[p], answers')
  BY <1>2, <1>6 DEF Finish, IInv, TypeOK
<1>8. \A p \in Requests : resp'[p].kind = "backend" =>
         pc'[p] = "done" /\ \A c \in resp'[p].by : Ok(data'[p].verify[c])
  BY <1>3 DEF Finish, IInv, TypeOK
<1>. QED BY <1>5, <1>7, <1>8 DEF IInv, Finish

LEMMA VerifyPassedStep ==
    ASSUME IInv, NEW q \in Requests, VerifyPassed(q)
    PROVE  IInv'
<1>1. req[q] \in Request /\ DataBacked(data[q], req[q], answers) /\ pc[q] # "done"
  BY DEF IInv, TypeOK, VerifyPassed
<1>2. PICK c \in req[q].path :
        /\ Record(q, c, TRUE)
        /\ Respond(q, [IssueChallengeToken(data[q], c, req[q], {}, TRUE)
                         EXCEPT !.verify[c] = "OK"], "verified", {c})
  BY DEF VerifyPassed
<1>3. c \in Challenges
  BY <1>1, <1>2 DEF Request
<1>. DEFINE e == IssueChallengeToken(data[q], c, req[q], {}, TRUE)
            d == [e EXCEPT !.verify[c] = "OK"]
<1>4. /\ answers \subseteq answers' /\ answers' \subseteq Answer /\ AnswersSound(answers', clock)
      /\ VerdictBacked(c, req[q], answers')
      /\ \A t : t.key = KeyFor(c, req[q]) /\ t.ok = TRUE => TokenBacked(t, answers')
  BY <1>2, <1>3, RecordSound
<1>5. DataBacked(e, req[q], answers')
  BY <1>1, <1>3, <1>4, BackingMonotone, TokenKeepsBacked
<1>6. Respond(q, d, "verified", {c})
  BY <1>2
<1>. HIDE DEF e
<1>7. e \in RequestData /\ e.verify \in [Challenges -> Results]
  BY <1>5 DEF DataBacked, RequestData
<1>8. /\ d \in RequestData /\ d.map = e.map
      /\ d.verify = [e.verify EXCEPT ![c] = "OK"]
  BY <1>3, <1>7 DEF RequestData, Results
<1>9. \A x \in Challenges : Ok(d.verify[x]) => VerdictBacked(x, req[q], answers')
  BY <1>3, <1>4, <1>5, <1>7, <1>8 DEF DataBacked
<1>10. DataBacked(d, req[q], answers')
  BY <1>5, <1>8, <1>9 DEF DataBacked
<1>11. "verified" \in Kinds /\ "verified" # "backend" /\ {c} \in SUBSET Challenges
  BY <1>3 DEF Kinds
<1>. HIDE DEF d
<1>12. Settles(q, d)
  BY <1>6, <1>11, RespondSettles
<1>13. /\ disclosed' \subseteq Key /\ tried' \in [Requests -> [Challenges -> Nat]]
       /\ UNCHANGED <<clock, secret, arrivals, req>>
  BY DEF VerifyPassed, IInv, TypeOK
<1>. QED BY <1>1, <1>4, <1>10, <1>12, <1>13, SettlesKeepsIInv

\* The steps that decide nothing new about the request.
LEMMA QuietSteps ==
    ASSUME IInv, NEW q \in Requests,
           \/ PassedBefore(q) \/ StartIssuing(q) \/ SkipChallenge(q) \/ NothingMatched(q)
           \/ DefaultPass(q) \/ VerifyRefused(q) \/ VerifyPreloadLink(q)
    PROVE  IInv'
<1>0. {} \in SUBSET Challenges /\ {"refused", "retry", "css", "clean", "backend"} \subseteq Kinds
  BY DEF Kinds
<1>1. CASE PassedBefore(q)
  <2>1. PICK i \in Valid(q) :
          \/ Respond(q, data[q], "clean", {Rule(q).chals[i]})
          \/ Pass(q, data[q], Rule(q), Rule(q).chals[i])
    BY <1>1 DEF PassedBefore
  <2>. DEFINE c == Rule(q).chals[i]
  <2>2. c \in Challenges /\ Ok(data[q].verify[c])
    BY <1>1, <2>1, RuleType DEF PassedBefore, Entering, Valid
  <2>3. Respond(q, data[q], "clean", {c}) \/ Pass(q, data[q], Rule(q), c)
    BY <2>1
  <2>. HIDE DEF c
  <2>4. Settles(q, data[q])
    BY <1>0, <2>2, <2>3, {c} \in SUBSET Challenges, RespondSettles, PassSettles
  <2>. QED BY <1>1, <2>4, QuietStep DEF PassedBefore, Entering, InRule
<1>2. CASE StartIssuing(q)
  BY <1>2, QuietStep DEF StartIssuing, Entering, InRule, Settles
<1>3. CASE SkipChallenge(q)
  BY <1>3, QuietStep DEF SkipChallenge, Issuing, InRule, Settles
<1>4. CASE NothingMatched(q)
  <2>1. Settles(q, data[q])
    BY <1>0, <1>4, ActSettles DEF NothingMatched
  <2>. QED BY <1>4, <2>1, QuietStep DEF NothingMatched, InRule
<1>5. CASE DefaultPass(q)
  <2>1. Settles(q, data[q])
    BY <1>0, <1>5, RespondSettles DEF DefaultPass
  <2>. QED BY <1>5, <2>1, QuietStep DEF DefaultPass
<1>6. CASE VerifyRefused(q)
  <2>1. \E kind \in {"retry", "refused"} : Respond(q, data[q], kind, {})
    BY <1>6 DEF VerifyRefused
  <2>2. Settles(q, data[q])
    BY <1>0, <2>1, RespondSettles
  <2>. QED BY <1>6, <2>2, QuietStep DEF VerifyRefused
<1>7. CASE VerifyPreloadLink(q)
  <2>1. Respond(q, data[q], "css", {}) \/ Reply(q, data[q], "refused", {}, {})
    BY <1>7 DEF VerifyPreloadLink
  <2>2. {} \in SUBSET ResponseCookies(data[q], req[q])
    OBVIOUS
  <2>3. Settles(q, data[q])
    <3>1. CASE Respond(q, data[q], "css", {})
      BY <1>0, <3>1, RespondSettles
    <3>2. CASE Reply(q, data[q], "refused", {}, {})
      BY <1>0, <2>2, <3>2 DEF Settles
    <3>. QED BY <2>1, <3>1, <3>2
  <2>. QED BY <1>7, <2>3, QuietStep DEF VerifyPreloadLink
<1>. QED BY <1>1, <1>2, <1>3, <1>4, <1>5, <1>6, <1>7

\* The steps that evaluate a rule.
LEMMA RuleSteps ==
    ASSUME IInv, NEW q \in Requests, NoBackend(q) \/ RuleMiss(q) \/ RuleError(q) \/ RuleHit(q)
    PROVE  IInv'
<1>0. {} \in SUBSET Challenges /\ {"refused", "error"} \subseteq Kinds
  BY DEF Kinds
<1>1. CASE NoBackend(q)
  <2>1. {} \in SUBSET ResponseCookies(data[q], req[q])
    OBVIOUS
  <2>2. Settles(q, data[q])
    BY <1>0, <1>1, <2>1 DEF NoBackend, Settles
  <2>. QED BY <1>1, <2>2, QuietStep DEF NoBackend
<1>2. CASE RuleMiss(q)
  <2>1. Rule(q).last \in Nat
    BY <1>2, RuleType DEF RuleMiss, Entering
  <2>2. pos' \in [Requests -> [rule: Nat \ {0}, idx: Nat]]
    <3>1. [rule |-> Rule(q).last + 1, idx |-> 0] \in [rule: Nat \ {0}, idx: Nat]
      BY <2>1
    <3>. QED BY <1>2, <3>1 DEF RuleMiss, IInv, TypeOK
  <2>3. UNCHANGED <<clock, secret, arrivals, issued, disclosed, answers, req, pc, data, tried, resp>>
    BY <1>2 DEF RuleMiss
  <2>4. TypeOK'
    BY <2>2, <2>3 DEF IInv, TypeOK
  <2>. QED BY <2>3, <2>4 DEF IInv
<1>3. CASE RuleError(q)
  <2>1. Settles(q, data[q])
    BY <1>0, <1>3, RespondSettles DEF RuleError
  <2>. QED BY <1>3, <2>1, QuietStep DEF RuleError, Entering, InRule
<1>4. CASE RuleHit(q)
  <2>1. Settles(q, data[q])
    BY <1>0, <1>4, ActSettles DEF RuleHit
  <2>. QED BY <1>4, <2>1, QuietStep DEF RuleHit, Entering, InRule
<1>. QED BY <1>1, <1>2, <1>3, <1>4

-----------------------------------------------------------------------------
LEMMA InitIInv == Init => IInv
<1>. SUFFICES ASSUME Init PROVE IInv
  OBVIOUS
<1>1. NoRequest \in Request /\ NoRequest.time = 0
  <2>1. (CHOOSE n \in Nets : TRUE) \in Nets /\ (CHOOSE a \in Agents : TRUE) \in Agents
    BY ClientsAssumption
  <2>. QED BY <2>1 DEF NoRequest, Request
<1>2. DataBacked(NoData, NoRequest, answers)
  BY DEF DataBacked, NoData, RequestData, Results, VerifyStates, Ok
<1>3. NoResponse \in Response /\ NoResponse.kind # "backend"
  BY DEF NoResponse, Response, Kinds
<1>4. Start \in [rule: Nat \ {0}, idx: Nat] /\ Untried \in [Challenges -> Nat]
  BY DEF Start, Untried
<1>5. TypeOK
  BY <1>1, <1>2, <1>3, <1>4 DEF Init, TypeOK, DataBacked
<1>6. AnswersSound(answers, clock)
  BY DEF Init, AnswersSound
<1>. QED BY <1>1, <1>2, <1>3, <1>5, <1>6 DEF Init, IInv

LEMMA NextIInv == IInv /\ [Next]_vars => IInv'
<1>. SUFFICES ASSUME IInv, [Next]_vars PROVE IInv'
  OBVIOUS
<1>1. ASSUME NEW q \in Requests, ArrivePage(q) \/ ArriveVerify(q) PROVE IInv'
  BY <1>1, ArriveStep DEF ArrivePage, ArriveVerify
<1>2. ASSUME NEW q \in Requests, Serve(q) PROVE IInv'
  <2>1. CASE IssueRefresh(q) \/ IssueResourceLoad(q)
    BY <2>1, IssuePageStep DEF IssueRefresh, IssueResourceLoad
  <2>2. CASE IssueDnsbl(q)
    BY <2>2, AnsweredStep DEF IssueDnsbl
  <2>3. CASE IssueCookie(q) \/ IssueHttp(q) \/ IssuePreloadLink(q) \/ VerifyPassed(q)
    BY <2>3, IssueCookieStep, IssueHttpStep, IssuePreloadLinkStep, VerifyPassedStep
  <2>. QED BY <1>2, <2>1, <2>2, <2>3, QuietSteps, RuleSteps DEF Serve, Handle
<1>3. ASSUME NEW q \in Requests, Finish(q) PROVE IInv'
  BY <1>3, FinishStep
<1>4. CASE Tick
  <2>1. clock \in Nat /\ clock' = clock + 1 /\ \A q \in Requests : req[q].time \in Nat
    BY <1>4 DEF Tick, IInv, TypeOK, Request
  <2>2. \A p \in answers : p.at \in Nat
    BY DEF IInv, TypeOK, Answer
  <2>3. AnswersSound(answers, clock')
    BY <2>1, <2>2 DEF IInv, AnswersSound
  <2>4. TypeOK'
    BY <1>4, <2>1 DEF Tick, IInv, TypeOK
  <2>. QED BY <1>4, <2>1, <2>3, <2>4 DEF Tick, IInv
<1>5. CASE Rekey
  <2>1. TypeOK'
    BY <1>5 DEF Rekey, IInv, TypeOK
  <2>. QED BY <1>5, <2>1 DEF Rekey, IInv
<1>6. CASE UNCHANGED vars
  <2>1. TypeOK'
    BY <1>6 DEF vars, IInv, TypeOK
  <2>. QED BY <1>6, <2>1 DEF vars, IInv
<1>. QED BY <1>1, <1>2, <1>3, <1>4, <1>5, <1>6 DEF Next

\* A challenge found valid was passed by the same client less than its Duration
\* before the request arrived.
LEMMA VerdictRecent ==
    ASSUME IInv, NEW q \in Requests, NEW c \in Challenges, Ok(data[q].verify[c])
    PROVE  \E p \in answers :
             /\ SameClient(p.key, c, req[q]) /\ (p.ok \/ c \in CookieBound)
             /\ p.at <= req[q].time /\ req[q].time < p.at + Duration[c]
<1>1. PICK p \in answers :
        p.key = KeyFor(c, req[q]) /\ p.at <= req[q].time /\ (p.ok \/ c \in CookieBound)
  BY DEF IInv, DataBacked, VerdictBacked
<1>2. p.key.chal = c /\ p.key.exp = Expiration(req[q].time, Duration[c])
  BY <1>1 DEF KeyFor
<1>3. p.key.exp = Expiration(p.at, Duration[c])
  BY <1>2 DEF IInv, AnswersSound
<1>4. p.at \in Nat /\ req[q].time \in Nat /\ Duration[c] \in Nat \ {0}
  BY DurationAssumption DEF IInv, TypeOK, Answer, Request
<1>5. req[q].time < p.at + Duration[c]
  BY <1>2, <1>3, <1>4, SameExpiration
<1>6. SameClient(p.key, c, req[q])
  BY <1>1 DEF SameClient, KeyFor
<1>. QED BY <1>1, <1>5, <1>6

LEMMA IInvImpliesAdmissionBacked == IInv => AdmissionBacked
<1>. SUFFICES ASSUME IInv, NEW q \in Requests, resp[q].kind = "backend", NEW c \in resp[q].by
              PROVE  \E p \in answers :
                       /\ SameClient(p.key, c, req[q]) /\ (p.ok \/ c \in CookieBound)
                       /\ p.at <= req[q].time /\ req[q].time < p.at + Duration[c]
  BY DEF AdmissionBacked
<1>1. c \in Challenges /\ Ok(data[q].verify[c])
  BY DEF IInv, TypeOK, Response
<1>. QED BY <1>1, VerdictRecent

\* Every reachable state of the request flow has its type: challenge maps,
\* cookies and verdicts stay well-formed through every handler.
THEOREM TypeCorrect == Spec => []TypeOK
<1>1. IInv => TypeOK
  BY DEF IInv
<1>. QED BY <1>1, InitIInv, NextIInv, PTL DEF Spec

\* Whatever cookies and keys clients replay, in whatever order requests are
\* served, a request a challenge lets through to the backend is backed by a
\* recent pass of that challenge by the same client (EvaluateChallenges,
\* Challenge.Handle and VerifyHandlerFunc together).
THEOREM Admission == Spec => []AdmissionBacked
BY InitIInv, NextIInv, IInvImpliesAdmissionBacked, PTL DEF Spec

=============================================================================
