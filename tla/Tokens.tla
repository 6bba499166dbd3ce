-------------------------------- MODULE Tokens --------------------------------
(***************************************************************************)
(* The data of lib/challenge that travels between go-away and its clients: *)
(* challenge keys, challenge tokens and the state cookie that carries them,*)
(* and the functions of RequestData that judge them.  Everything here is a *)
(* pure operator; RequestFlow is the state machine built on them.          *)
(*                                                                         *)
(* Abstractions.  A key is the record of what its SHA-256 sum is taken of  *)
(* (hashing is injective and keys cannot be guessed).  Signing and         *)
(* encryption of the state cookie are perfect: a cookie that parses is one *)
(* some response carried.  There is one host.  Time is counted in ticks.   *)
(* "at most one" values (an optional query argument, an optional cookie)   *)
(* are sets with at most one member.                                       *)
(***************************************************************************)
EXTENDS Integers, Sequences, FiniteSets

CONSTANTS
    Nets,             \* network prefixes (/24 or /64) clients connect from
    IPv4Nets,         \* the ones that are IPv4
    Agents,           \* values of the request headers a key is bound to
    Sessions,         \* values of the site's own session cookie
    Challenges,       \* names of the registered challenges
    Runtime,          \* Runtime[c]: the runtime that fills challenge c
    Conditioned,      \* challenges that have a precondition
    CookieBound,      \* http challenges with the http-cookie parameter
    Duration,         \* Duration[c]: Registration.Duration
    DefaultDuration   \* validity of the state cookie

Runtimes == {"cookie", "refresh", "resource-load", "http", "dnsbl", "preload-link"}

ASSUME NetsAssumption == IPv4Nets \subseteq Nets
ASSUME RegistrationAssumption ==
    /\ Runtime \in [Challenges -> Runtimes]
    /\ Conditioned \subseteq Challenges
    /\ CookieBound \subseteq {c \in Challenges : Runtime[c] = "http"}
ASSUME DurationAssumption ==
    /\ Duration \in [Challenges -> Nat \ {0}]
    /\ DefaultDuration \in Nat \ {0}

Results == {"None", "Fail", "Skip", "NotOK", "OK"}
VerifyStates == {"None", "Pass", "Brief", "Full"}

\* VerifyResult.Ok
Ok(result) == result = "OK"

-----------------------------------------------------------------------------
(* Expiration: d.Time.Add(duration).Round(duration); Round goes to the     *)
(* nearest multiple, halfway values up.                                    *)
Round(x, d) == IF 2 * (x % d) < d THEN x - (x % d) ELSE x + d - (x % d)

\* Mutant: Add(-duration).
ExpirationBack(t, d) == Round(t - d, d)

Expiration(t, d) == Round(t + d, d)

-----------------------------------------------------------------------------
Key == [chal: Challenges, net: Nets, agent: Agents, exp: Nat, secret: Nat]

\* TokenChallenge; its entry's name in the map is key.chal.  res is what the
\* Result bytes bind besides the key: the session cookie's value, for http.
Token == [key: Key, res: SUBSET Sessions, ok: BOOLEAN, exp: Nat]

\* The state cookie: its name and encryption key are derived from net and the
\* private key, its claims are exp and the challenge map.
Cookie == [net: Nets, secret: Nat, exp: Nat, tokens: SUBSET Token]

\* Mutant: the expiration is left out of the sum.
KeyForUnrotated(c, r) ==
    [chal |-> c, net |-> r.net, agent |-> r.agent, exp |-> 0, secret |-> r.secret]

\* GetChallengeKeyForRequest(state, reg, data.Expiration(reg.Duration), r)
KeyFor(c, r) ==
    [chal |-> c, net |-> r.net, agent |-> r.agent,
     exp |-> Expiration(r.time, Duration[c]), secret |-> r.secret]

KeyIsIPv4(key) == key.net \in IPv4Nets

\* NewKeyVerifier's verify function.  "Eyeballs" stands for (OK,
\* ErrMismatchedTokenHappyEyeballs): an IPv4 key on an IPv6 request.
KeyVerify(key, token) ==
    IF key \in token THEN "OK"
    ELSE IF ~KeyIsIPv4(key) /\ \E k \in token : KeyIsIPv4(k) THEN "Eyeballs"
    ELSE "Fail"

-----------------------------------------------------------------------------
(* RequestData.verifyChallengeState: of the presented state cookies the    *)
(* map of the one that opens with the request's key and has not expired.   *)
(* invalid says that an error other than ErrNoCookie came back.            *)
CookieOpens(k, r, now) == k.net = r.net /\ k.secret = r.secret /\ k.exp >= now

VerifyChallengeState(r, now) ==
    [map     |-> UNION {k.tokens : k \in {x \in r.cookies : CookieOpens(x, r, now)}},
     invalid |-> \E k \in r.cookies : k.net = r.net /\ ~CookieOpens(k, r, now)]

\* The Verify function the http runtime sets for an http-cookie challenge.
SpotCheck(token, r) ==
    IF r.session = {} THEN "nocookie" ELSE IF token.res = r.session THEN "nil" ELSE "verify"

\* Mutant: token.Ok is not looked at.
VerifyChallengeTokenAnyOk(c, token, r, now, spot) ==
    IF token.exp < now \/ token.key # KeyFor(c, r)
      THEN [result |-> "Fail", state |-> "None", err |-> "mismatch"]
      ELSE [result |-> "OK", state |-> "Brief", err |-> "nil"]

\* RequestData.VerifyChallengeToken; spot says whether the random spot check is
\* drawn, which only happens where reg.Verify and VerifyProbability are both set.
VerifyChallengeToken(c, token, r, now, spot) ==
    IF token.exp < now
      THEN [result |-> "Fail", state |-> "None", err |-> "expired"]
    ELSE IF token.key # KeyFor(c, r)
      THEN [result |-> "Fail", state |-> "None", err |-> "mismatch"]
    ELSE IF spot /\ c \in CookieBound
      THEN [result |-> IF SpotCheck(token, r) = "nil" THEN "OK" ELSE "Fail",
            state |-> "Full", err |-> SpotCheck(token, r)]
    ELSE [result |-> IF token.ok THEN "OK" ELSE "NotOK", state |-> "Brief", err |-> "nil"]

TokensOf(map, c) == {t \in map : t.key.chal = c}

\* RequestData.verifyChallenge together with the test of its error in
\* EvaluateChallenges: clear says that one of the two clears c's token.  The
\* precondition is only looked at when there is a token; where it does not hold,
\* the check's error is shadowed and EvaluateChallenges sees none.
VerifyChallenge(c, map, r, now, spot) ==
    LET token == CHOOSE t \in map : t.key.chal = c
        v == VerifyChallengeToken(c, token, r, now, spot)
        ineligible == ~Ok(v.result) /\ c \in Conditioned /\ c \notin r.eligible
        unlessIssued(result) == IF ~Ok(result) /\ c \in r.arg THEN "Skip" ELSE result
    IN  IF TokensOf(map, c) = {}
          THEN [result |-> unlessIssued("Fail"), state |-> "None", clear |-> FALSE]
        ELSE IF ineligible
          THEN [result |-> "Skip", state |-> v.state,
                clear |-> v.err \notin {"nil", "nocookie", "mismatch"}]
        ELSE [result |-> unlessIssued(v.result), state |-> v.state, clear |-> v.err # "nil"]

\* RequestData.EvaluateChallenges; spots are the challenges whose spot check is drawn.
EvaluateChallenges(r, now, spots) ==
    LET st == VerifyChallengeState(r, now)
        v  == [c \in Challenges |-> VerifyChallenge(c, st.map, r, now, c \in spots)]
        bad == {c \in Challenges : v[c].clear}
    IN  [map      |-> {t \in st.map : t.key.chal \notin bad},
         modified |-> st.invalid \/ bad # {},
         verify   |-> [c \in Challenges |-> v[c].result],
         state    |-> [c \in Challenges |-> v[c].state]]

-----------------------------------------------------------------------------
\* Mutant: a fresh map instead of an entry of the one the request came with.
IssueChallengeTokenAlone(d, c, r, res, ok) ==
    [d EXCEPT !.map = {[key |-> KeyFor(c, r), res |-> res, ok |-> ok,
                        exp |-> Expiration(r.time, Duration[c])]},
              !.modified = TRUE]

\* RequestData.IssueChallengeToken
IssueChallengeToken(d, c, r, res, ok) ==
    [d EXCEPT !.map = (@ \ TokensOf(@, c)) \cup
                      {[key |-> KeyFor(c, r), res |-> res, ok |-> ok,
                        exp |-> Expiration(r.time, Duration[c])]},
              !.modified = TRUE]

\* Mutant: only a client without a cookie is given one.
ResponseCookiesOnce(d, r) ==
    IF d.modified /\ r.cookies = {}
      THEN {[net |-> r.net, secret |-> r.secret,
             exp |-> Expiration(r.time, DefaultDuration), tokens |-> d.map]}
      ELSE {}

\* RequestData.ResponseHeaders: the state cookie the response sets, if any.
ResponseCookies(d, r) ==
    IF d.modified
      THEN {[net |-> r.net, secret |-> r.secret,
             exp |-> Expiration(r.time, DefaultDuration), tokens |-> d.map]}
      ELSE {}
=============================================================================
