----------------------------- MODULE BrowserProofs -----------------------------
(***************************************************************************)
(* The honest browser of BrowserFlow.  First that the request flow keeps   *)
(* its promises behind any such browser, with any number of tabs.  Then    *)
(* what the browser itself is promised, for every policy that does not     *)
(* turn it away by itself: unless something comes between, it gets through,*)
(* and for any policy, it passes no challenge twice.                       *)
(***************************************************************************)
EXTENDS BrowserFlow, RuleWalkProofs, FiniteSetTheorems

-----------------------------------------------------------------------------
(* The invariant of the browser and its connection to the request flow.    *)

\* The jar holds cookies that responses have set, one of a name.
JarNamed == \A k \in jar : \A j \in jar : j.net = k.net => j = k

\* The responses that send the tab elsewhere name the challenge it is about.
Naming == {"redirect", "verified", "challenge"}

\* A tab waits while its slot serves a request.
InStep(q) == tab[q].at = "wait" <=> pc[q] # "idle"

\* A response sets one state cookie at most, and one that is recorded as issued.
CookieIssued(q) == resp[q].cookies \in AtMostOne(issued)

Named(q) == resp[q].kind \in Naming => \E c \in Challenges : resp[q].by = {c}

BrowserInv ==
    /\ net \in Nets /\ tab \in [Requests -> Tab] /\ jar \subseteq issued /\ JarNamed
    /\ \A q \in Requests : InStep(q) /\ CookieIssued(q) /\ Named(q)

-----------------------------------------------------------------------------
(* The invariant of a navigation nothing has come between.                 *)

\* A browser keeps its cookies and sends the same headers with every request.
SteadyBrowser == KeepsCookies /\ \A a, b \in Agents : a = b

\* The key of challenge c for what the browser sends now.
KeyNow(c) == [chal |-> c, net |-> net, agent |-> CHOOSE a \in Agents : TRUE,
              exp |-> Expiration(clock, Duration[c]), secret |-> secret]

\* A cookie with a pass of c for what the browser sends now, as it is made now.
Wins(k, c) ==
    /\ k.net = net /\ k.secret = secret /\ k.exp = Expiration(clock, DefaultDuration)
    /\ \E t \in k.tokens : t.ok = TRUE /\ t.key = KeyNow(c)

\* The same for request r, at the time of the request.
Holds(k, c, r) ==
    /\ k.net = r.net /\ k.secret = r.secret /\ k.exp = Expiration(r.time, DefaultDuration)
    /\ \E t \in k.tokens : t.ok = TRUE /\ t.key = KeyFor(c, r)

\* What the tab is about to load is a fresh page, the page of a challenge whose
\* pass is in the jar, or a verify URL with the key of the moment.
Loads(q) ==
    tab[q].at = "load" =>
      \/ tab[q].url = Page({})
      \/ \E c \in Challenges :
           \/ tab[q].url = VerifyUrl(c, KeyNow(c))
           \/ tab[q].url = Page({c}) /\ \E k \in jar : Wins(k, c)

\* The request that is served is one the browser would still send like this.
UpToDate(q) ==
    tab[q].at = "wait" =>
      /\ req[q].net = net /\ req[q].secret = secret
      /\ \A c \in Challenges : KeyFor(c, req[q]) = KeyNow(c)
      /\ Expiration(req[q].time, DefaultDuration) = Expiration(clock, DefaultDuration)

OnVerify(q) ==
    pc[q] = "verify" =>
      \E c \in Challenges :
        req[q].path = {c} /\ req[q].arg = {c} /\ req[q].token = {KeyFor(c, req[q])}

\* A response that sends the tab to the page of a challenge hands out its pass, and
\* none refuses a verify URL.
Handed(q) ==
    pc[q] = "done" =>
      /\ resp[q].kind \notin {"refused", "retry"}
      /\ resp[q].kind \in {"redirect", "verified"} =>
           \E c \in Challenges : \E k \in resp[q].cookies :
             resp[q].by = {c} /\ Holds(k, c, req[q])

Calm(q) == Loads(q) /\ UpToDate(q) /\ OnVerify(q) /\ Handed(q)

CalmInv == \A q \in Requests : tab[q].disturbed \/ Calm(q)

-----------------------------------------------------------------------------
(* What the browser's steps do to its tabs.                                *)

\* A tab that may get disturbed and is otherwise left alone.
SameTab(new, old) ==
    /\ new \in Tab /\ new.at = old.at /\ new.url = old.url /\ new.end = old.end
    /\ old.disturbed => new.disturbed

LEMMA DisturbedTab ==
    ASSUME tab \in [Requests -> Tab], NEW tabs, NEW q \in Requests
    PROVE  /\ SameTab(Disturb(tabs)[q], tab[q])
           /\ q \in tabs /\ Loading(q) => Disturb(tabs)[q].disturbed
           /\ q \notin tabs => Disturb(tabs)[q].disturbed = tab[q].disturbed
<1>. DEFINE b == tab[q].disturbed \/ (q \in tabs /\ Loading(q))
<1>1. tab[q] \in Tab /\ tab[q].disturbed \in BOOLEAN
  BY DEF Tab
<1>2. b \in BOOLEAN
  OBVIOUS
<1>3. Disturb(tabs)[q] = [tab[q] EXCEPT !.disturbed = b]
  BY DEF Disturb
<1>4. /\ Disturb(tabs)[q] \in Tab /\ Disturb(tabs)[q].at = tab[q].at
      /\ Disturb(tabs)[q].url = tab[q].url /\ Disturb(tabs)[q].end = tab[q].end
      /\ Disturb(tabs)[q].disturbed = b
  <2>. HIDE DEF b
  <2>. QED BY <1>1, <1>2, <1>3 DEF Tab
<1>5. (tab[q].disturbed => b) /\ (q \in tabs /\ Loading(q) => b)
      /\ (q \notin tabs => b = tab[q].disturbed)
  BY <1>1
<1>. HIDE DEF b
<1>. QED BY <1>1, <1>2, <1>4, <1>5, Zenon DEF SameTab

LEMMA AllDisturbed ==
    ASSUME tab \in [Requests -> Tab], NEW q \in Requests
    PROVE  SameTab(DisturbAll[q], tab[q]) /\ (Loading(q) => DisturbAll[q].disturbed)
<1>. DEFINE t == Disturb(Requests)[q]
<1>1. SameTab(t, tab[q]) /\ (Loading(q) => t.disturbed)
  BY DisturbedTab
<1>2. DisturbAll[q] = [t EXCEPT !.hops = 0]
  BY DEF DisturbAll
<1>. HIDE DEF t
<1>3. /\ DisturbAll[q] \in Tab /\ DisturbAll[q].at = t.at /\ DisturbAll[q].url = t.url
      /\ DisturbAll[q].end = t.end /\ DisturbAll[q].disturbed = t.disturbed
  BY <1>1, <1>2 DEF SameTab, Tab
<1>. QED BY <1>1, <1>3, Zenon DEF SameTab

LEMMA DisturbDomain ==
    /\ \A tabs : DOMAIN Disturb(tabs) = Requests /\ Disturb(tabs) = [q \in Requests |-> Disturb(tabs)[q]]
    /\ DOMAIN DisturbAll = Requests /\ DisturbAll = [q \in Requests |-> DisturbAll[q]]
BY DEF Disturb, DisturbAll

\* A tick or a change of network.
LEMMA AllTabs ==
    ASSUME tab \in [Requests -> Tab], tab' = DisturbAll
    PROVE  /\ tab' \in [Requests -> Tab]
           /\ \A q \in Requests : SameTab(tab'[q], tab[q]) /\ (Loading(q) => tab'[q].disturbed)
<1>1. \A q \in Requests : SameTab(tab'[q], tab[q]) /\ (Loading(q) => tab'[q].disturbed)
  BY AllDisturbed
<1>2. \A q \in Requests : tab'[q] \in Tab
  BY <1>1 DEF SameTab
<1>. QED BY <1>1, <1>2, DisturbDomain

\* The request a tab sends, and what becomes of the tab.
LEMMA SendFacts ==
    ASSUME IInv, BrowserInv, NEW q \in Requests, Send(q)
    PROVE  \E r \in Request :
             /\ Accept(q, r) /\ r.cookies \in AtMostOne(issued) /\ r.time = clock /\ r.secret = secret
             /\ r.net = net /\ r.cookies = {k \in jar : k.net = net /\ k.exp >= clock}
             /\ r.path = tab[q].url.path /\ r.arg = tab[q].url.arg /\ r.token = tab[q].url.token
             /\ tab' \in [Requests -> Tab] /\ \A p \in Requests \ {q} : tab'[p] = tab[p]
             /\ tab'[q].at = "wait" /\ tab'[q].end = tab[q].end
             /\ tab[q].disturbed \/ r.eligible # Conditioned => tab'[q].disturbed
<1>1. /\ tab \in [Requests -> Tab] /\ tab[q] \in Tab /\ tab[q].url \in Url /\ net \in Nets
      /\ jar \subseteq issued /\ issued \subseteq Cookie /\ clock \in Nat /\ secret \in Nat
      /\ tab[q].disturbed \in BOOLEAN /\ tab[q].hops \in Nat
  BY DEF BrowserInv, Tab, IInv, TypeOK
<1>2. PICK agent \in Agents, eligible \in SUBSET Conditioned :
         /\ Accept(q, [net |-> net, agent |-> agent, session |-> {}, method |-> "GET",
                       path |-> tab[q].url.path, arg |-> tab[q].url.arg,
                       token |-> tab[q].url.token,
                       cookies |-> {k \in jar : k.net = net /\ k.exp >= clock},
                       eligible |-> eligible, time |-> clock, secret |-> secret])
         /\ tab' = [tab EXCEPT ![q].at = "wait", ![q].hops = IF @ > MaxHops THEN @ ELSE @ + 1,
                               ![q].disturbed = @ \/ eligible # Conditioned]
  BY DEF Send
<1>. DEFINE cookies == {k \in jar : k.net = net /\ k.exp >= clock}
            r == [net |-> net, agent |-> agent, session |-> {}, method |-> "GET",
                  path |-> tab[q].url.path, arg |-> tab[q].url.arg, token |-> tab[q].url.token,
                  cookies |-> cookies,
                  eligible |-> eligible, time |-> clock, secret |-> secret]
            b == tab[q].disturbed \/ eligible # Conditioned
            h == IF tab[q].hops > MaxHops THEN tab[q].hops ELSE tab[q].hops + 1
<1>3. cookies \subseteq issued /\ cookies \in AtMostOne(issued)
  <2>1. cookies \subseteq issued
    BY <1>1
  <2>2. CASE cookies = {}
    BY <2>2 DEF AtMostOne
  <2>3. CASE cookies # {}
    <3>1. PICK k \in cookies : TRUE
      BY <2>3
    <3>2. cookies = {k}
      BY <3>1 DEF BrowserInv, JarNamed
    <3>. HIDE DEF cookies
    <3>. QED BY <2>1, <3>1, <3>2 DEF AtMostOne
  <2>. QED BY <2>1, <2>2, <2>3
<1>4. Accept(q, r)
  BY <1>2
<1>5. /\ tab[q].url.path \subseteq Challenges /\ tab[q].url.arg \subseteq Challenges \cup {NoneNamed}
      /\ tab[q].url.token \subseteq Key
  BY <1>1 DEF Url
<1>6. eligible \subseteq Challenges
  BY <1>2, RegistrationAssumption
<1>7. tab' = [tab EXCEPT ![q] = [tab[q] EXCEPT !.at = "wait", !.hops = h, !.disturbed = b]]
  BY <1>1, <1>2
<1>8. b \in BOOLEAN /\ h \in Nat
  BY <1>1, BrowserAssumption
<1>. HIDE DEF cookies
<1>9. /\ r \in Request /\ r.cookies = cookies /\ r.time = clock /\ r.secret = secret /\ r.net = net
      /\ r.path = tab[q].url.path /\ r.arg = tab[q].url.arg /\ r.token = tab[q].url.token
      /\ r.eligible = eligible
  BY <1>1, <1>3, <1>5, <1>6 DEF Request
<1>. HIDE DEF r
<1>10. tab[q].disturbed \/ r.eligible # Conditioned => b
  BY <1>9
<1>. HIDE DEF b, h
<1>11. /\ tab' \in [Requests -> Tab] /\ \A p \in Requests \ {q} : tab'[p] = tab[p]
       /\ tab'[q].at = "wait" /\ tab'[q].end = tab[q].end /\ tab'[q].disturbed = b
  BY <1>1, <1>7, <1>8 DEF Tab
<1>12. tab[q].disturbed \/ r.eligible # Conditioned => tab'[q].disturbed
  BY <1>10, <1>11, Zenon
<1>. QED BY <1>3, <1>4, <1>9, <1>11, <1>12 DEF cookies

-----------------------------------------------------------------------------
(* Where a response sends its tab.                                         *)

LEMMA UrlTypes ==
    /\ \A arg \in SUBSET Challenges : Page(arg) \in Url
    /\ \A c \in Challenges, key \in Key : VerifyUrl(c, key) \in Url
    /\ \A url \in Url : Stripped(url) \in Url
BY DEF Page, VerifyUrl, Stripped, Url

LEMMA UrlReads ==
    /\ \A arg : Page(arg).path = {} /\ Page(arg).arg = arg
    /\ \A c, key : /\ VerifyUrl(c, key).path = {c} /\ VerifyUrl(c, key).arg = {c}
                   /\ VerifyUrl(c, key).token = {key}
BY DEF Page, VerifyUrl

\* The URL a response leads to: a page that names the challenge that was passed, the
\* verify URL of the one that is shown, the clean page or the stripped URL.
LEMMA FollowFacts ==
    ASSUME NEW r \in Request, NEW response \in Response, NEW url \in Follow(r, response),
           response.kind \in Naming => \E c \in Challenges : response.by = {c}
    PROVE  /\ url \in Url
           /\ \/ response.kind \in {"clean", "retry"}
              \/ response.kind \in {"redirect", "verified"}
                   /\ \E c \in Challenges : response.by = {c} /\ url = Page({c})
              \/ response.kind = "challenge"
                   /\ \E c \in Challenges : response.by = {c} /\ url = VerifyUrl(c, KeyFor(c, r))
           /\ response.kind = "clean" => url = Page({})
<1>. DEFINE c == CHOOSE x \in response.by : TRUE
<1>1. response.kind \in Naming => c \in Challenges /\ response.by = {c}
  OBVIOUS
<1>. HIDE DEF c
<1>2. CASE response.kind \in {"redirect", "verified"}
  <2>1. url = Page({c})
    BY <1>2 DEF Follow, c
  <2>. QED BY <1>1, <1>2, <2>1, UrlTypes DEF Naming
<1>3. CASE response.kind = "challenge"
  <2>1. url = VerifyUrl(c, KeyFor(c, r))
    BY <1>3 DEF Follow, c
  <2>. QED BY <1>1, <1>3, <2>1, UrlTypes, KeyForType DEF Naming
<1>4. CASE response.kind = "clean"
  <2>1. url = Page({})
    BY <1>4 DEF Follow
  <2>. QED BY <1>4, <2>1, UrlTypes
<1>5. CASE response.kind = "retry"
  <2>1. url = Stripped([path |-> r.path, arg |-> r.arg, token |-> r.token])
    BY <1>5 DEF Follow
  <2>2. [path |-> r.path, arg |-> r.arg, token |-> r.token] \in Url
    BY DEF Url, Request
  <2>. QED BY <1>5, <2>1, <2>2, UrlTypes
<1>6. CASE response.kind \notin {"redirect", "verified", "challenge", "clean", "retry"}
  BY <1>6 DEF Follow
<1>. QED BY <1>2, <1>3, <1>4, <1>5, <1>6

\* The tabs after a response: its own moves on or ends; the others are disturbed if
\* the response has set the cookie.
LEMMA ReceiveTabs ==
    ASSUME IInv, BrowserInv, NEW q \in Requests, Receive(q)
    PROVE  /\ tab' \in [Requests -> Tab]
           /\ \A p \in Requests \ {q} :
                /\ SameTab(tab'[p], tab[p])
                /\ resp[q].cookies # {} /\ Loading(p) => tab'[p].disturbed
           /\ tab'[q].disturbed = tab[q].disturbed
           /\ \/ /\ tab'[q].at = "ended" /\ tab'[q].end = resp[q].kind
              \/ /\ tab'[q].at = "load" /\ tab'[q].end = tab[q].end
                 /\ tab'[q].url \in Follow(req[q], resp[q])
<1>. DEFINE others == IF resp[q].cookies = {} THEN {} ELSE Requests \ {q}
            D == Disturb(others)
<1>1. tab \in [Requests -> Tab] /\ req[q] \in Request /\ resp[q] \in Response /\ Named(q)
  BY DEF BrowserInv, IInv, TypeOK
<1>2. \A p \in Requests : /\ SameTab(D[p], tab[p])
                          /\ p \in others /\ Loading(p) => D[p].disturbed
                          /\ p \notin others => D[p].disturbed = tab[p].disturbed
  BY <1>1, DisturbedTab, Zenon
<1>3. q \notin others /\ (resp[q].cookies # {} => others = Requests \ {q})
  OBVIOUS
<1>4. D \in [Requests -> Tab]
  <2>1. \A p \in Requests : D[p] \in Tab
    BY <1>2 DEF SameTab
  <2>. QED BY <2>1, DisturbDomain
<1>5. \/ tab' = [D EXCEPT ![q].at = "ended", ![q].end = resp[q].kind]
      \/ \E url \in Follow(req[q], resp[q]) : tab' = [D EXCEPT ![q].at = "load", ![q].url = url]
  BY DEF Receive
<1>. HIDE DEF D, others
<1>6. D[q] \in Tab /\ D[q].end = tab[q].end /\ D[q].disturbed = tab[q].disturbed
  BY <1>2, <1>3 DEF SameTab
<1>7. ASSUME NEW t \in Tab, tab' = [D EXCEPT ![q] = t], t.disturbed = D[q].disturbed
      PROVE  /\ tab' \in [Requests -> Tab] /\ tab'[q] = t
             /\ tab'[q].disturbed = tab[q].disturbed
             /\ \A p \in Requests \ {q} :
                  /\ SameTab(tab'[p], tab[p])
                  /\ resp[q].cookies # {} /\ Loading(p) => tab'[p].disturbed
  <2>1. tab' \in [Requests -> Tab] /\ tab'[q] = t /\ \A p \in Requests \ {q} : tab'[p] = D[p]
    BY <1>4, <1>7
  <2>2. tab'[q].disturbed = tab[q].disturbed
    BY <1>6, <1>7, <2>1
  <2>. QED BY <1>2, <1>3, <2>1, <2>2, Zenon
<1>8. CASE tab' = [D EXCEPT ![q].at = "ended", ![q].end = resp[q].kind]
  <2>. DEFINE t == [D[q] EXCEPT !.at = "ended", !.end = resp[q].kind]
  <2>1. tab' = [D EXCEPT ![q] = t]
    BY <1>4, <1>8
  <2>2. t \in Tab /\ t.at = "ended" /\ t.end = resp[q].kind /\ t.disturbed = D[q].disturbed
    BY <1>1, <1>6 DEF Tab, Response
  <2>. HIDE DEF t
  <2>. QED BY <1>7, <2>1, <2>2
<1>9. CASE \E url \in Follow(req[q], resp[q]) : tab' = [D EXCEPT ![q].at = "load", ![q].url = url]
  <2>1. PICK url \in Follow(req[q], resp[q]) : tab' = [D EXCEPT ![q].at = "load", ![q].url = url]
    BY <1>9
  <2>. DEFINE t == [D[q] EXCEPT !.at = "load", !.url = url]
  <2>2. tab' = [D EXCEPT ![q] = t]
    BY <1>4, <2>1
  <2>3. url \in Url
    BY <1>1, <2>1, FollowFacts DEF Named
  <2>4. /\ t \in Tab /\ t.at = "load" /\ t.url = url /\ t.end = D[q].end
        /\ t.disturbed = D[q].disturbed
    BY <1>6, <2>3 DEF Tab
  <2>. HIDE DEF t
  <2>. QED BY <1>6, <1>7, <2>1, <2>2, <2>4
<1>. QED BY <1>5, <1>8, <1>9

-----------------------------------------------------------------------------
(* What the server's steps are behind a browser.                           *)

\* No other challenges than cookie and refresh ones are issued or verified.
LEMMA HandleCases ==
    ASSUME IInv, NEW q \in Requests, Handle(q)
    PROVE  \/ RuleMiss(q) \/ RuleError(q) \/ RuleHit(q)
           \/ PassedBefore(q) \/ StartIssuing(q) \/ SkipChallenge(q)
           \/ IssueCookie(q) \/ IssueRefresh(q) \/ NothingMatched(q) \/ DefaultPass(q)
           \/ VerifyPassed(q) \/ VerifyRefused(q)
<1>1. ASSUME NEW runtime, Issue(q, runtime) PROVE runtime \in {"cookie", "refresh"}
  <2>1. Current(q) \in Challenges /\ Runtime[Current(q)] = runtime
    BY <1>1, IssueFacts DEF Issue
  <2>. QED BY <2>1, BrowserAssumption
<1>2. ~IssueResourceLoad(q) /\ ~IssueHttp(q) /\ ~IssueDnsbl(q) /\ ~IssuePreloadLink(q)
  <2>1. \A runtime \in {"resource-load", "http", "dnsbl", "preload-link"} : ~Issue(q, runtime)
    BY <1>1
  <2>. QED BY <2>1 DEF IssueResourceLoad, IssuePage, IssueHttp, IssueDnsbl, IssuePreloadLink
<1>3. ~VerifyPreloadLink(q)
  <2>1. req[q].path \subseteq Challenges
    BY DEF IInv, TypeOK, Request
  <2>. QED BY <2>1, BrowserAssumption DEF VerifyPreloadLink
<1>. QED BY <1>2, <1>3 DEF Handle

NamingReply(q) ==
    \E d, kind, by, cookies :
      /\ Reply(q, d, kind, by, cookies)
      /\ kind \in Naming => \E c \in Challenges : by = {c}

LEMMA ActNames ==
    ASSUME NEW q, NEW d, NEW action, NEW by, Act(q, d, action, by)
    PROVE  resp' = resp \/ NamingReply(q)
<1>1. CASE action = "NONE" /\ NextRule(q, d)
  BY <1>1 DEF NextRule
<1>2. ASSUME NEW kind \in {"backend", "error", "deny"}, NEW b, NEW cookies,
             Reply(q, d, kind, b, cookies)
      PROVE  NamingReply(q)
  BY <1>2 DEF NamingReply, Naming
<1>. QED BY <1>1, <1>2 DEF Act, Respond

LEMMA HandleNames ==
    ASSUME IInv, NEW q \in Requests, Handle(q)
    PROVE  resp' = resp \/ NamingReply(q)
<1>1. CASE RuleMiss(q) \/ StartIssuing(q) \/ SkipChallenge(q)
  BY <1>1 DEF RuleMiss, StartIssuing, SkipChallenge, NextChallenge
<1>2. ASSUME NEW kind \in Kinds \ Naming, NEW d, NEW by, Respond(q, d, kind, by)
      PROVE  NamingReply(q)
  BY <1>2 DEF NamingReply, Respond
<1>3. ASSUME NEW kind, NEW d, NEW c \in Challenges, Respond(q, d, kind, {c})
      PROVE  NamingReply(q)
  BY <1>3 DEF NamingReply, Respond
<1>4. {"error", "backend", "clean", "retry", "refused"} \subseteq Kinds \ Naming
  BY DEF Kinds, Naming
<1>5. CASE RuleError(q) \/ DefaultPass(q)
  BY <1>2, <1>4, <1>5 DEF RuleError, DefaultPass
<1>6. CASE VerifyRefused(q)
  <2>1. \E kind \in {"retry", "refused"} : Respond(q, data[q], kind, {})
    BY <1>6 DEF VerifyRefused
  <2>. QED BY <1>2, <1>4, <2>1
<1>7. CASE RuleHit(q) \/ NothingMatched(q)
  BY <1>7, ActNames DEF RuleHit, NothingMatched
<1>8. CASE PassedBefore(q)
  <2>1. PICK i \in Valid(q) : \/ Respond(q, data[q], "clean", {Rule(q).chals[i]})
                              \/ Pass(q, data[q], Rule(q), Rule(q).chals[i])
    BY <1>8 DEF PassedBefore
  <2>2. CASE Respond(q, data[q], "clean", {Rule(q).chals[i]})
    BY <1>2, <1>4, <2>2
  <2>3. CASE Pass(q, data[q], Rule(q), Rule(q).chals[i])
    BY <2>3, ActNames DEF Pass, NextRule
  <2>. QED BY <2>1, <2>2, <2>3
<1>9. CASE IssueCookie(q) \/ IssueRefresh(q)
  <2>1. Current(q) \in Challenges
    BY <1>9, IssueFacts DEF IssueCookie, IssueRefresh, IssuePage
  <2>2. \E d : \/ \E kind : Respond(q, d, kind, {Current(q)})
               \/ Act(q, d, Rule(q).fail, {})
    BY <1>9 DEF IssueCookie, IssueRefresh, IssuePage
  <2>. QED BY <1>3, <2>1, <2>2, ActNames
<1>10. CASE VerifyPassed(q)
  <2>1. req[q].path \subseteq Challenges
    BY DEF IInv, TypeOK, Request
  <2>2. \E c \in req[q].path : \E d : Respond(q, d, "verified", {c})
    BY <1>10 DEF VerifyPassed
  <2>. QED BY <1>3, <2>1, <2>2
<1>. QED BY <1>1, <1>5, <1>6, <1>7, <1>8, <1>9, <1>10, HandleCases

-----------------------------------------------------------------------------
(* The browser's steps keep all three invariants.                          *)

LEMMA InitBrowser == BrowserInit => IInv /\ WalkInv /\ BrowserInv
<1>. SUFFICES ASSUME BrowserInit PROVE IInv /\ WalkInv /\ BrowserInv
  OBVIOUS
<1>1. IInv /\ WalkInv
  BY InitIInv, InitWalk DEF BrowserInit
<1>2. Closed \in Tab /\ Closed.at = "closed"
  BY UrlTypes DEF Closed, Tab, Kinds
<1>3. tab = [q \in Requests |-> Closed] /\ jar = {} /\ net \in Nets
  BY DEF BrowserInit
<1>4. \A q \in Requests : pc[q] = "idle" /\ resp[q] = NoResponse
  BY DEF BrowserInit, Init
<1>. HIDE DEF Closed
<1>5. \A q \in Requests : InStep(q) /\ CookieIssued(q) /\ Named(q)
  BY <1>2, <1>3, <1>4 DEF InStep, CookieIssued, Named, NoResponse, Naming, AtMostOne
<1>. QED BY <1>1, <1>2, <1>3, <1>5 DEF BrowserInv, JarNamed

\* Slots and cookies nothing was done to.
LEMMA ConnectionFrame ==
    ASSUME NEW q \in Requests, InStep(q), CookieIssued(q), Named(q), issued \subseteq issued',
           tab'[q].at = tab[q].at, pc'[q] = "idle" <=> pc[q] = "idle", resp'[q] = resp[q]
    PROVE  InStep(q)' /\ CookieIssued(q)' /\ Named(q)'
BY DEF InStep, CookieIssued, Named, AtMostOne

LEMMA OpenStep ==
    ASSUME IInv, WalkInv, BrowserInv, NEW q \in Requests, Open(q)
    PROVE  IInv' /\ WalkInv' /\ BrowserInv'
<1>1. UNCHANGED vars /\ UNCHANGED <<jar, net>>
  BY DEF Open
<1>2. IInv' /\ WalkInv'
  BY <1>1, NextIInv, NextWalk
<1>. DEFINE t == [Closed EXCEPT !.at = "load"]
<1>3. t \in Tab /\ t.at = "load"
  BY UrlTypes DEF Closed, Tab, Kinds
<1>4. tab' = [tab EXCEPT ![q] = t] /\ tab[q].at = "closed"
  BY DEF Open
<1>. HIDE DEF t
<1>5. tab' \in [Requests -> Tab] /\ tab'[q] = t /\ \A p \in Requests \ {q} : tab'[p] = tab[p]
  BY <1>3, <1>4 DEF BrowserInv
<1>6. \A p \in Requests : tab'[p].at = "wait" <=> tab[p].at = "wait"
  BY <1>3, <1>4, <1>5
<1>7. \A p \in Requests : InStep(p)' /\ CookieIssued(p)' /\ Named(p)'
  BY <1>1, <1>6 DEF vars, BrowserInv, InStep, CookieIssued, Named
<1>. QED BY <1>1, <1>2, <1>5, <1>7 DEF vars, BrowserInv, JarNamed

LEMMA SendStep ==
    ASSUME IInv, WalkInv, BrowserInv, NEW q \in Requests, Send(q)
    PROVE  IInv' /\ WalkInv' /\ BrowserInv'
<1>1. PICK r \in Request :
        /\ Accept(q, r) /\ r.cookies \in AtMostOne(issued) /\ r.time = clock /\ r.secret = secret
        /\ tab' \in [Requests -> Tab] /\ \A p \in Requests \ {q} : tab'[p] = tab[p]
        /\ tab'[q].at = "wait"
  BY SendFacts
<1>2. r.cookies \subseteq issued /\ arrivals' \in Nat /\ UNCHANGED <<jar, net>>
  BY <1>1, AtMostOneSubset DEF Send, IInv, TypeOK
<1>3. IInv' /\ WalkInv'
  BY <1>1, <1>2, AcceptStep, AcceptKeepsWalk
<1>4. /\ pc' = [pc EXCEPT ![q] = IF r.path = {} THEN "rules" ELSE "verify"]
      /\ UNCHANGED <<issued, resp>>
  BY <1>1 DEF Accept
<1>5. pc'[q] # "idle" /\ \A p \in Requests \ {q} : pc'[p] = pc[p]
  BY <1>4 DEF IInv, TypeOK
<1>6. \A p \in Requests : InStep(p)' /\ CookieIssued(p)' /\ Named(p)'
  BY <1>1, <1>4, <1>5 DEF BrowserInv, InStep, CookieIssued, Named
<1>. QED BY <1>1, <1>2, <1>3, <1>4, <1>6 DEF BrowserInv, JarNamed

LEMMA ServerStep ==
    ASSUME IInv, WalkInv, BrowserInv, NEW q \in Requests, Server(q)
    PROVE  IInv' /\ WalkInv' /\ BrowserInv'
<1>1. Handle(q) /\ Serve(q) /\ UNCHANGED <<jar, net, tab>>
  BY DEF Server, Serve
<1>2. IInv' /\ WalkInv'
  BY <1>1, NextIInv, NextWalk DEF Next
<1>3. PICK d \in RequestData : ServeEffect(q, d)
  BY <1>1, ServeHasEffect
<1>4. \A p \in Requests \ {q} : pc'[p] = pc[p] /\ resp'[p] = resp[p]
  BY <1>3, EffectFrame
<1>5. /\ pc[q] # "idle" /\ pc'[q] # "idle"
      /\ \/ resp'[q] = resp[q] /\ issued' = issued
         \/ /\ resp'[q].cookies \subseteq ResponseCookies(d, req[q])
            /\ issued' = issued \cup resp'[q].cookies
  BY <1>3, EffectPlace
<1>6. issued \subseteq issued'
  BY <1>5
<1>7. \A p \in Requests \ {q} : InStep(p)' /\ CookieIssued(p)' /\ Named(p)'
  BY <1>1, <1>4, <1>6, ConnectionFrame DEF BrowserInv
<1>8. CookieIssued(q)'
  <2>1. CASE resp'[q] = resp[q]
    BY <1>6, <2>1 DEF BrowserInv, CookieIssued, AtMostOne
  <2>2. CASE /\ resp'[q].cookies \subseteq ResponseCookies(d, req[q])
             /\ issued' = issued \cup resp'[q].cookies
    <3>1. \E k : ResponseCookies(d, req[q]) \subseteq {k}
      BY DEF ResponseCookies
    <3>2. resp'[q].cookies = {} \/ \E k \in issued' : resp'[q].cookies = {k}
      BY <2>2, <3>1
    <3>. QED BY <3>2 DEF CookieIssued, AtMostOne
  <2>. QED BY <1>5, <2>1, <2>2
<1>9. Named(q)'
  <2>1. CASE resp' = resp
    BY <2>1 DEF BrowserInv, Named
  <2>2. CASE NamingReply(q)
    <3>1. PICK e, kind, by, cookies :
            Reply(q, e, kind, by, cookies) /\ (kind \in Naming => \E c \in Challenges : by = {c})
      BY <2>2 DEF NamingReply
    <3>2. resp'[q] = [kind |-> kind, by |-> by, cookies |-> cookies]
      BY <3>1 DEF Reply, IInv, TypeOK
    <3>. QED BY <3>1, <3>2 DEF Named
  <2>. QED BY <1>1, <2>1, <2>2, HandleNames
<1>10. InStep(q)'
  BY <1>1, <1>5 DEF BrowserInv, InStep
<1>. QED BY <1>1, <1>2, <1>6, <1>7, <1>8, <1>9, <1>10 DEF BrowserInv, JarNamed

\* The jar after a response.
LEMMA JarStored ==
    ASSUME BrowserInv, NEW cookies \in AtMostOne(issued)
    PROVE  /\ Stored(cookies) \subseteq issued
           /\ \A k \in Stored(cookies) : \A j \in Stored(cookies) : j.net = k.net => j = k
<1>1. cookies = {} \/ \E k \in issued : cookies = {k}
  BY DEF AtMostOne
<1>. QED BY <1>1 DEF Stored, BrowserInv, JarNamed

LEMMA ReceiveStep ==
    ASSUME IInv, WalkInv, BrowserInv, NEW q \in Requests, Receive(q)
    PROVE  IInv' /\ WalkInv' /\ BrowserInv'
<1>1. Finish(q) /\ jar' = Stored(resp[q].cookies) /\ UNCHANGED <<net, issued>>
  BY DEF Receive, Finish
<1>2. IInv' /\ WalkInv'
  BY <1>1, NextIInv, NextWalk DEF Next
<1>3. jar' \subseteq issued' /\ JarNamed'
  <2>1. resp[q].cookies \in AtMostOne(issued)
    BY DEF BrowserInv, CookieIssued
  <2>. QED BY <1>1, <2>1, JarStored DEF JarNamed
<1>4. /\ tab' \in [Requests -> Tab] /\ tab'[q].at # "wait"
      /\ \A p \in Requests \ {q} : tab'[p].at = tab[p].at
  BY ReceiveTabs DEF SameTab
<1>5. /\ pc'[q] = "idle" /\ resp'[q] = NoResponse
      /\ \A p \in Requests \ {q} : pc'[p] = pc[p] /\ resp'[p] = resp[p]
  BY <1>1 DEF Finish, IInv, TypeOK
<1>6. InStep(q)' /\ CookieIssued(q)' /\ Named(q)'
  BY <1>4, <1>5 DEF InStep, CookieIssued, Named, NoResponse, Naming, AtMostOne
<1>7. \A p \in Requests \ {q} : InStep(p)' /\ CookieIssued(p)' /\ Named(p)'
  BY <1>1, <1>4, <1>5, ConnectionFrame DEF BrowserInv
<1>. QED BY <1>1, <1>2, <1>3, <1>4, <1>6, <1>7 DEF BrowserInv

\* The clock, or the network.
LEMMA OutsideStep ==
    ASSUME IInv, WalkInv, BrowserInv, BrowserTick \/ Upgrade
    PROVE  IInv' /\ WalkInv' /\ BrowserInv'
<1>1. [Next]_vars /\ UNCHANGED <<issued, pc, resp, jar>> /\ net' \in Nets
      /\ (tab' = DisturbAll \/ tab' = tab)
  BY DEF BrowserTick, Upgrade, Tick, vars, Next, BrowserInv
<1>2. IInv' /\ WalkInv'
  BY <1>1, NextIInv, NextWalk
<1>3. tab' \in [Requests -> Tab] /\ \A q \in Requests : tab'[q].at = tab[q].at
  BY <1>1, AllTabs DEF BrowserInv, SameTab
<1>4. \A q \in Requests : InStep(q)' /\ CookieIssued(q)' /\ Named(q)'
  BY <1>1, <1>3, ConnectionFrame DEF BrowserInv
<1>. QED BY <1>1, <1>2, <1>3, <1>4 DEF BrowserInv, JarNamed

LEMMA NextBrowser ==
    ASSUME IInv, WalkInv, BrowserInv, [BrowserNext]_bvars
    PROVE  IInv' /\ WalkInv' /\ BrowserInv'
<1>1. CASE UNCHANGED bvars
  <2>1. UNCHANGED vars /\ UNCHANGED <<issued, pc, resp, jar, net, tab>>
    BY <1>1 DEF bvars, vars
  <2>2. IInv' /\ WalkInv'
    BY <2>1, NextIInv, NextWalk
  <2>3. \A q \in Requests : InStep(q)' /\ CookieIssued(q)' /\ Named(q)'
    BY <2>1, ConnectionFrame DEF BrowserInv
  <2>. QED BY <2>1, <2>2, <2>3 DEF BrowserInv, JarNamed
<1>2. CASE BrowserNext
  BY <1>2, OpenStep, SendStep, ServerStep, ReceiveStep, OutsideStep DEF BrowserNext
<1>. QED BY <1>1, <1>2

LEMMA AlwaysBrowser == BrowserSpec => [](IInv /\ WalkInv /\ BrowserInv)
<1>1. IInv /\ WalkInv /\ BrowserInv /\ [BrowserNext]_bvars => (IInv /\ WalkInv /\ BrowserInv)'
  BY NextBrowser
<1>. QED BY <1>1, InitBrowser, PTL DEF BrowserSpec

\* Behind browsers that share a cookie jar between tabs, follow redirects and change
\* networks, with or without cookies, the request flow keeps every promise it makes
\* to arbitrary clients: passes are backed by the client's own recent answers, rules
\* guard their children, no challenge is issued twice to a request, passed challenges
\* have a state for the headers, and no response drops a pass the request brought.
THEOREM BrowsersServed ==
    BrowserSpec => [](/\ AdmissionBacked /\ CheckGuardsChildren /\ IssuedOnce
                      /\ HeaderStateKnown /\ PassesKept)
<1>1. IInv /\ WalkInv => /\ AdmissionBacked /\ CheckGuardsChildren /\ IssuedOnce
                         /\ HeaderStateKnown /\ PassesKept
  <2>1. WalkInv => IssuedOnce
    BY DEF WalkInv, Walk, Once, IssuedOnce
  <2>. QED BY <2>1, IInvImpliesAdmissionBacked, WalkGuards, WalkHeader, WalkPasses
<1>. QED BY <1>1, AlwaysBrowser, PTL

LEMMA BrowserImplements ==
    ASSUME IInv, WalkInv, BrowserInv, IInv', AdmissionBacked', [BrowserNext]_bvars
    PROVE  [Promise!Next]_<<clock, Passes, Visits>>
<1>1. ASSUME NEW q \in Requests, Send(q) PROVE Promise!Next
  <2>1. PICK r \in Request : Accept(q, r) /\ r.time = clock /\ r.secret = secret
    BY <1>1, SendFacts
  <2>. QED BY <2>1, AcceptImplements DEF Promise!Next
<1>2. ASSUME NEW q \in Requests, Server(q) PROVE Promise!Next
  BY <1>2, ServeImplements DEF Server, Serve, Promise!Next
<1>3. ASSUME NEW q \in Requests, Receive(q) PROVE Promise!Next
  BY <1>3, FinishImplements DEF Receive, Promise!Next
<1>4. ASSUME NEW q \in Requests, Open(q) PROVE UNCHANGED vars
  BY <1>4 DEF Open, vars
<1>5. CASE BrowserTick \/ Upgrade \/ UNCHANGED bvars \/ \E q \in Requests : Open(q)
  <2>1. [Next]_vars
    BY <1>4, <1>5 DEF BrowserTick, Upgrade, bvars, vars, Next
  <2>. QED BY <2>1, StepImplements
<1>. QED BY <1>1, <1>2, <1>3, <1>5 DEF BrowserNext

\* With the browser in front of it, go-away implements the abstract specification of
\* admission too, although no arrival of RequestFlow takes place: the browser's
\* requests carry the jar's cookie, redirects and verify URLs it was sent, and each
\* is a visit of Admission.  What tabs, the jar and changes of network do besides is
\* not seen there.
THEOREM BrowserImplementsAdmission == BrowserSpec => AdmissionPromise
<1>1. IInv /\ WalkInv /\ BrowserInv /\ IInv' /\ AdmissionBacked' /\ [BrowserNext]_bvars
        => [Promise!Next]_<<clock, Passes, Visits>>
  BY BrowserImplements
<1>2. BrowserInit => Promise!Init
  BY InitImplements DEF BrowserInit
<1>3. BrowserSpec => Promise!Init /\ [][Promise!Next]_<<clock, Passes, Visits>>
  BY <1>1, <1>2, AlwaysBrowser, IInvImpliesAdmissionBacked, PTL DEF BrowserSpec
<1>. QED BY <1>3, PTL DEF AdmissionPromise, Promise!Spec, Passes, Visits

-----------------------------------------------------------------------------
(* What one step of the server answers, whatever the policy.               *)

\* The challenges a verify URL is shown for.
Refreshes == {c \in Challenges : Runtime[c] = "refresh"}

LEMMA VerdictMarks ==
    ASSUME NEW d \in RequestData, NEW c \in Challenges, NEW result \in Results
    PROVE  /\ Verdict(d, c, result).verify[c] = result /\ Verdict(d, c, result).state[c] = "Pass"
           /\ Verdict(d, c, result).modified = d.modified /\ Verdict(d, c, result).map = d.map
BY DEF Verdict, RequestData

\* A token that is issued for a pass is in the map, and the map goes out.
LEMMA TokenIssued ==
    ASSUME NEW d \in RequestData, NEW c \in Challenges, NEW r \in Request
    PROVE  LET e == IssueChallengeToken(d, c, r, {}, TRUE)
           IN  /\ e \in RequestData /\ e.modified = TRUE
               /\ \E t \in e.map : t.ok = TRUE /\ t.key = KeyFor(c, r)
<1>. DEFINE t == [key |-> KeyFor(c, r), res |-> {}, ok |-> TRUE,
                  exp |-> Expiration(r.time, Duration[c])]
            map == (d.map \ TokensOf(d.map, c)) \cup {t}
            e == IssueChallengeToken(d, c, r, {}, TRUE)
<1>1. e \in RequestData
  <2>1. {} \in SUBSET Sessions /\ TRUE \in BOOLEAN
    OBVIOUS
  <2>. QED BY <2>1, IssueTokenType, Zenon
<1>2. t \in map /\ t.ok = TRUE /\ t.key = KeyFor(c, r)
  OBVIOUS
<1>3. e = [d EXCEPT !.map = map, !.modified = TRUE]
  BY DEF IssueChallengeToken
<1>. HIDE DEF t, map, e
<1>4. e.map = map /\ e.modified = TRUE
  BY <1>3 DEF RequestData
<1>. QED BY <1>1, <1>2, <1>4 DEF e

\* Where URLs parse, no IssueChallenge fails.
LEMMA NoFailure ==
    ASSUME IInv, NEW q \in Requests, NEW d \in RequestData, NEW c \in Challenges, NEW action,
           NEW by, UrlsParse(q)
    PROVE  ~Act(q, Verdict(d, c, "Fail"), action, by)
<1>. SUFFICES ASSUME Act(q, Verdict(d, c, "Fail"), action, by) PROVE FALSE
  OBVIOUS
<1>1. data' = [data EXCEPT ![q] = Verdict(d, c, "Fail")]
  BY DEF Act, Respond, Reply, NextRule
<1>2. data'[q] = Verdict(d, c, "Fail")
  BY <1>1 DEF IInv, TypeOK
<1>3. data'[q].verify[c] = "Fail" /\ data'[q].state[c] = "Pass"
  BY <1>2, VerdictMarks DEF Results
<1>. QED BY <1>3 DEF UrlsParse

\* The cookie of a response whose map has a pass in it, and is marked as modified.
LEMMA CookieHolds ==
    ASSUME NEW d, NEW r, NEW c, d.modified = TRUE,
           \E t \in d.map : t.ok = TRUE /\ t.key = KeyFor(c, r)
    PROVE  \E k \in ResponseCookies(d, r) : Holds(k, c, r)
<1>. DEFINE k == [net |-> r.net, secret |-> r.secret,
                  exp |-> Expiration(r.time, DefaultDuration), tokens |-> d.map]
<1>1. ResponseCookies(d, r) = {k}
  BY DEF ResponseCookies
<1>2. Holds(k, c, r)
  BY DEF Holds
<1>. QED BY <1>1, <1>2

\* What the response of a step can be: a plain one; the clean page, if the request
\* named a challenge; the page of a refresh challenge or the redirect of a cookie
\* challenge that was not passed; and on a verify route the pass, or a refusal.
Answers(q) ==
    \/ resp'[q].kind \in {"backend", "error", "deny"}
    \/ resp'[q].kind = "clean" /\ pc[q] = "rules" /\ req[q].arg # {}
    \/ /\ resp'[q].kind = "challenge" /\ pc[q] = "rules"
       /\ \E c \in Refreshes : resp'[q].by = {c} /\ ~Ok(data[q].verify[c])
       /\ \A k \in resp'[q].cookies : k.tokens = data[q].map
    \/ /\ resp'[q].kind = "redirect" /\ pc[q] = "rules"
       /\ \E c \in Challenges : \E k \in resp'[q].cookies :
            resp'[q].by = {c} /\ ~Ok(data[q].verify[c]) /\ Holds(k, c, req[q])
    \/ /\ resp'[q].kind = "verified" /\ pc[q] = "verify"
       /\ \E c \in req[q].path : \E k \in resp'[q].cookies :
            resp'[q].by = {c} /\ Holds(k, c, req[q])
    \/ /\ resp'[q].kind \in {"refused", "retry"} /\ pc[q] = "verify"
       /\ \E c \in req[q].path : VerifyOutcome(q, c) # "OK"

LEMMA ServerAnswers ==
    ASSUME IInv, NEW q \in Requests, Handle(q), UrlsParse(q)
    PROVE  \/ pc'[q] = pc[q] /\ data'[q] = data[q]
           \/ pc'[q] = "done" /\ Answers(q)
<1>0. req[q] \in Request /\ data[q] \in RequestData /\ req[q].path \subseteq Challenges
  BY DEF IInv, TypeOK, Request
<1>1. ASSUME NEW d, NEW kind, NEW by, NEW cookies, Reply(q, d, kind, by, cookies)
      PROVE  /\ pc'[q] = "done" /\ resp'[q].kind = kind /\ resp'[q].by = by
             /\ resp'[q].cookies = cookies
  <2>1. pc'[q] = "done" /\ resp'[q] = [kind |-> kind, by |-> by, cookies |-> cookies]
    BY <1>1 DEF Reply, IInv, TypeOK
  <2>. QED BY <2>1
<1>2. ASSUME NEW d, NEW kind, NEW by, Respond(q, d, kind, by)
      PROVE  /\ pc'[q] = "done" /\ resp'[q].kind = kind /\ resp'[q].by = by
             /\ resp'[q].cookies = ResponseCookies(d, req[q])
  <2>1. Reply(q, d, kind, by, ResponseCookies(d, req[q]))
    BY <1>2 DEF Respond
  <2>. QED BY <1>1, <2>1, Zenon
<1>3. ASSUME NEW action, NEW by, Act(q, data[q], action, by)
      PROVE  (pc'[q] = pc[q] /\ data'[q] = data[q]) \/ (pc'[q] = "done" /\ Answers(q))
  <2>1. CASE NextRule(q, data[q])
    BY <2>1 DEF NextRule, IInv, TypeOK
  <2>2. ASSUME NEW kind \in {"backend", "error", "deny"}, NEW b, NEW cookies,
               Reply(q, data[q], kind, b, cookies)
        PROVE  pc'[q] = "done" /\ Answers(q)
    <3>1. pc'[q] = "done" /\ resp'[q].kind = kind
      BY <1>1, <2>2, Zenon
    <3>. QED BY <3>1 DEF Answers
  <2>. QED BY <1>3, <2>1, <2>2 DEF Act, Respond
<1>4. CASE RuleMiss(q) \/ StartIssuing(q) \/ SkipChallenge(q)
  BY <1>4 DEF RuleMiss, StartIssuing, SkipChallenge, NextChallenge, IInv, TypeOK
<1>5. CASE RuleError(q) \/ DefaultPass(q)
  BY <1>2, <1>5 DEF RuleError, DefaultPass, Answers
<1>6. CASE RuleHit(q) \/ NothingMatched(q)
  BY <1>3, <1>6 DEF RuleHit, NothingMatched
<1>7. CASE PassedBefore(q)
  <2>1. pc[q] = "rules"
    BY <1>7 DEF PassedBefore, Entering, InRule
  <2>2. PICK c : \/ req[q].arg # {} /\ Respond(q, data[q], "clean", {c})
                 \/ Pass(q, data[q], Rule(q), c)
    BY <1>7 DEF PassedBefore
  <2>3. CASE req[q].arg # {} /\ Respond(q, data[q], "clean", {c})
    BY <1>2, <2>1, <2>3 DEF Answers
  <2>4. CASE Pass(q, data[q], Rule(q), c)
    BY <1>3, <2>4 DEF Pass, NextRule, IInv, TypeOK
  <2>. QED BY <2>2, <2>3, <2>4
<1>8. ASSUME NEW runtime, Issue(q, runtime)
      PROVE  /\ pc[q] = "rules" /\ Current(q) \in Challenges
             /\ Runtime[Current(q)] = runtime /\ ~Ok(data[q].verify[Current(q)])
  BY <1>8, IssueFacts DEF Issue, Issuing, InRule, Skipped, Ok
<1>9. CASE IssueCookie(q)
  <2>. DEFINE c == Current(q)
              e == IssueChallengeToken(data[q], c, req[q], {}, TRUE)
              d == Verdict(e, c, "None")
  <2>1. pc[q] = "rules" /\ c \in Challenges /\ ~Ok(data[q].verify[c])
    BY <1>8, <1>9 DEF IssueCookie
  <2>2. e \in RequestData /\ e.modified = TRUE /\ \E t \in e.map : t.ok = TRUE /\ t.key = KeyFor(c, req[q])
    BY <1>0, <2>1, TokenIssued
  <2>3. Respond(q, d, "redirect", {c}) \/ Act(q, Verdict(e, c, "Fail"), Rule(q).fail, {})
    BY <1>9 DEF IssueCookie
  <2>. HIDE DEF e, c
  <2>4. d.modified = TRUE /\ d.map = e.map
    BY <2>1, <2>2, VerdictMarks DEF Results
  <2>. HIDE DEF d
  <2>5. \E k \in ResponseCookies(d, req[q]) : Holds(k, c, req[q])
    BY <2>2, <2>4, CookieHolds
  <2>6. Respond(q, d, "redirect", {c})
    BY <2>1, <2>2, <2>3, NoFailure
  <2>. QED BY <1>2, <2>1, <2>5, <2>6 DEF Answers
<1>10. CASE IssueRefresh(q)
  <2>1. pc[q] = "rules" /\ Current(q) \in Refreshes /\ ~Ok(data[q].verify[Current(q)])
    BY <1>8, <1>10 DEF IssueRefresh, IssuePage, Refreshes
  <2>2. \/ Respond(q, Verdict(data[q], Current(q), "None"), "challenge", {Current(q)})
        \/ Act(q, Verdict(data[q], Current(q), "Fail"), Rule(q).fail, {})
    BY <1>10 DEF IssueRefresh, IssuePage
  <2>3. Current(q) \in Challenges
    BY <2>1 DEF Refreshes
  <2>4. Respond(q, Verdict(data[q], Current(q), "None"), "challenge", {Current(q)})
    BY <1>0, <2>2, <2>3, NoFailure
  <2>5. Verdict(data[q], Current(q), "None").map = data[q].map
    BY <1>0, <2>3, VerdictMarks DEF Results
  <2>6. \A k \in ResponseCookies(Verdict(data[q], Current(q), "None"), req[q]) : k.tokens = data[q].map
    BY <2>5 DEF ResponseCookies
  <2>. QED BY <1>2, <2>1, <2>4, <2>6 DEF Answers
<1>11. CASE VerifyPassed(q)
  <2>1. PICK c \in req[q].path :
          Respond(q, [IssueChallengeToken(data[q], c, req[q], {}, TRUE) EXCEPT !.verify[c] = "OK"],
                  "verified", {c})
    BY <1>11 DEF VerifyPassed
  <2>. DEFINE e == IssueChallengeToken(data[q], c, req[q], {}, TRUE)
              d == [e EXCEPT !.verify[c] = "OK"]
  <2>2. e \in RequestData /\ e.modified = TRUE /\ \E t \in e.map : t.ok = TRUE /\ t.key = KeyFor(c, req[q])
    BY <1>0, TokenIssued
  <2>3. Respond(q, d, "verified", {c}) /\ pc[q] = "verify"
    BY <1>11, <2>1 DEF VerifyPassed
  <2>. HIDE DEF e
  <2>4. d.modified = TRUE /\ d.map = e.map
    BY <2>2 DEF RequestData
  <2>. HIDE DEF d
  <2>5. \E k \in ResponseCookies(d, req[q]) : Holds(k, c, req[q])
    BY <2>2, <2>4, CookieHolds
  <2>. QED BY <1>2, <2>3, <2>5 DEF Answers
<1>12. CASE VerifyRefused(q)
  <2>1. PICK c \in req[q].path, kind \in {"retry", "refused"} :
          VerifyOutcome(q, c) # "OK" /\ Respond(q, data[q], kind, {})
    BY <1>12 DEF VerifyRefused
  <2>2. pc[q] = "verify"
    BY <1>12 DEF VerifyRefused
  <2>. QED BY <1>2, <2>1, <2>2 DEF Answers
<1>. QED BY <1>4, <1>5, <1>6, <1>7, <1>9, <1>10, <1>11, <1>12, HandleCases

-----------------------------------------------------------------------------
(* A calm tab stays calm.                                                  *)

\* A tab that loads nothing.
LEMMA CalmRest ==
    ASSUME NEW q \in Requests, InStep(q), ~Loading(q)
    PROVE  Calm(q)
BY DEF InStep, Loading, Calm, Loads, UpToDate, OnVerify, Handed

\* A tab nothing has happened to, nor to its request.
LEMMA CalmFrame ==
    ASSUME NEW q \in Requests, Calm(q), tab'[q].at = tab[q].at, tab'[q].url = tab[q].url,
           req'[q] = req[q], pc'[q] = pc[q], resp'[q] = resp[q],
           UNCHANGED <<clock, secret, net>>, jar' = jar
    PROVE  Calm(q)'
<1>0. \A c : KeyNow(c)' = KeyNow(c)
  BY DEF KeyNow
<1>1. Loads(q)' /\ UpToDate(q)'
  <2>1. UpToDate(q)'
    BY <1>0 DEF Calm, UpToDate
  <2>2. \A k, c : Wins(k, c)' = Wins(k, c)
    BY <1>0 DEF Wins
  <2>3. Loads(q)'
    BY <1>0, <2>2 DEF Calm, Loads
  <2>. QED BY <2>1, <2>3
<1>2. OnVerify(q)' /\ Handed(q)'
  BY DEF Calm, OnVerify, Handed, Holds
<1>. QED BY <1>1, <1>2 DEF Calm

LEMMA InitCalm == BrowserInit => CalmInv
<1>. SUFFICES ASSUME BrowserInit, NEW q \in Requests PROVE Calm(q)
  BY DEF CalmInv
<1>1. tab[q] = Closed /\ pc[q] = "idle"
  BY DEF BrowserInit, Init
<1>2. Closed.at = "closed"
  BY DEF Closed
<1>. HIDE DEF Closed
<1>3. InStep(q) /\ ~Loading(q)
  BY <1>1, <1>2 DEF InStep, Loading
<1>. QED BY <1>3, CalmRest

LEMMA OpenTabs ==
    ASSUME BrowserInv, NEW q \in Requests, Open(q)
    PROVE  /\ tab'[q].at = "load" /\ tab'[q].url = Page({}) /\ tab'[q].end = "none"
           /\ tab'[q].hops = 0
           /\ \A p \in Requests \ {q} : tab'[p] = tab[p]
           /\ pc'[q] = "idle" /\ UNCHANGED <<req, pc, pos, data, resp, clock, secret, net, jar>>
<1>. DEFINE t == [Closed EXCEPT !.at = "load"]
<1>1. t.at = "load" /\ t.url = Page({}) /\ t.end = "none" /\ t.hops = 0
  BY DEF Closed
<1>2. tab' = [tab EXCEPT ![q] = t] /\ tab[q].at = "closed" /\ UNCHANGED <<vars, jar, net>>
  BY DEF Open
<1>. HIDE DEF t
<1>3. tab'[q] = t /\ \A p \in Requests \ {q} : tab'[p] = tab[p]
  BY <1>2 DEF BrowserInv
<1>4. pc'[q] = "idle" /\ UNCHANGED <<req, pc, pos, data, resp, clock, secret, net, jar>>
  BY <1>2 DEF BrowserInv, InStep, vars
<1>. QED BY <1>1, <1>3, <1>4

LEMMA OpenCalm ==
    ASSUME BrowserInv, CalmInv, NEW q \in Requests, Open(q)
    PROVE  CalmInv'
<1>1. \A p \in Requests \ {q} : tab'[p].disturbed \/ Calm(p)'
  BY OpenTabs, CalmFrame DEF CalmInv
<1>2. Calm(q)'
  BY OpenTabs DEF Calm, Loads, UpToDate, OnVerify, Handed
<1>. QED BY <1>1, <1>2 DEF CalmInv

\* Every request the browser sends now is keyed alike.
LEMMA KeyIsNow ==
    ASSUME SteadyBrowser, NEW r \in Request, r.net = net, r.time = clock, r.secret = secret,
           NEW c \in Challenges
    PROVE  KeyFor(c, r) = KeyNow(c)
<1>1. r.agent = CHOOSE a \in Agents : TRUE
  BY DEF SteadyBrowser, Request
<1>. QED BY <1>1 DEF KeyFor, KeyNow

\* What the acceptance of a tab's request changes.
LEMMA SendServe ==
    ASSUME IInv, WalkInv, BrowserInv, NEW q \in Requests, Send(q), NEW r \in Request, Accept(q, r)
    PROVE  /\ tab[q].at = "load" /\ UNCHANGED <<clock, secret, jar, net, pos, resp>>
           /\ pc[q] = "idle" /\ pc'[q] = (IF r.path = {} THEN "rules" ELSE "verify") /\ req'[q] = r
           /\ pos'[q].idx = 0
           /\ \E spots : data'[q] = EvaluateChallenges(r, clock, spots)
           /\ \A p \in Requests \ {q} : req'[p] = req[p] /\ data'[p] = data[p] /\ pc'[p] = pc[p]
<1>1. PICK spots : data' = [data EXCEPT ![q] = EvaluateChallenges(r, clock, spots)]
  BY DEF Accept
<1>2. /\ pc[q] = "idle" /\ pc'[q] = (IF r.path = {} THEN "rules" ELSE "verify") /\ req'[q] = r
      /\ data'[q] = EvaluateChallenges(r, clock, spots)
      /\ UNCHANGED <<clock, secret, pos, resp>>
      /\ \A p \in Requests \ {q} : req'[p] = req[p] /\ data'[p] = data[p] /\ pc'[p] = pc[p]
  BY <1>1 DEF Accept, IInv, TypeOK
<1>3. tab[q].at = "load" /\ UNCHANGED <<jar, net>>
  BY DEF Send
<1>4. pos'[q].idx = 0
  BY <1>2 DEF WalkInv, Walk, IdleClean, Start
<1>. QED BY <1>2, <1>3, <1>4

LEMMA SendCalm ==
    ASSUME IInv, WalkInv, BrowserInv, CalmInv, SteadyBrowser, NEW q \in Requests, Send(q)
    PROVE  CalmInv'
<1>1. PICK r \in Request :
        /\ Accept(q, r) /\ r.time = clock /\ r.secret = secret /\ r.net = net
        /\ r.path = tab[q].url.path /\ r.arg = tab[q].url.arg /\ r.token = tab[q].url.token
        /\ \A p \in Requests \ {q} : tab'[p] = tab[p]
        /\ tab'[q].at = "wait"
        /\ tab[q].disturbed \/ r.eligible # Conditioned => tab'[q].disturbed
  BY SendFacts
<1>2. /\ tab[q].at = "load" /\ UNCHANGED <<clock, secret, jar, net, resp>>
      /\ pc'[q] = (IF r.path = {} THEN "rules" ELSE "verify") /\ req'[q] = r
      /\ \A p \in Requests \ {q} : req'[p] = req[p] /\ pc'[p] = pc[p]
  BY <1>1, SendServe
<1>3. \A p \in Requests \ {q} : tab'[p].disturbed \/ Calm(p)'
  BY <1>1, <1>2, CalmFrame DEF CalmInv
<1>4. ASSUME ~tab'[q].disturbed PROVE Calm(q)'
  <2>1. \/ tab[q].url = Page({})
        \/ \E c \in Challenges : tab[q].url = VerifyUrl(c, KeyNow(c)) \/ tab[q].url = Page({c})
    BY <1>1, <1>2, <1>4 DEF CalmInv, Calm, Loads
  <2>2. \A c \in Challenges : KeyFor(c, r) = KeyNow(c) /\ KeyNow(c)' = KeyNow(c)
    BY <1>1, <1>2, KeyIsNow DEF KeyNow
  <2>3. Loads(q)' /\ Handed(q)'
    BY <1>1, <1>2 DEF Loads, Handed
  <2>4. UpToDate(q)'
    BY <1>1, <1>2, <2>2 DEF UpToDate
  <2>5. ASSUME r.path # {} PROVE \E c \in Challenges : tab[q].url = VerifyUrl(c, KeyNow(c))
    BY <1>1, <2>1, <2>5, UrlReads
  <2>6. ASSUME NEW c \in Challenges, tab[q].url = VerifyUrl(c, KeyNow(c))
        PROVE  r.path = {c} /\ r.arg = {c} /\ r.token = {KeyFor(c, r)}
    BY <1>1, <2>2, <2>6, UrlReads
  <2>7. OnVerify(q)'
    BY <1>2, <2>5, <2>6 DEF OnVerify
  <2>. QED BY <2>3, <2>4, <2>7 DEF Calm
<1>. QED BY <1>3, <1>4 DEF CalmInv

\* What a step of the server leaves alone.
LEMMA ServerFrame ==
    ASSUME IInv, WalkInv, BrowserInv, NEW q \in Requests, Server(q)
    PROVE  /\ Handle(q) /\ UrlsParse(q) /\ UNCHANGED <<clock, secret, req, jar, net, tab>>
           /\ pc[q] \in {"rules", "verify"} /\ tab[q].at = "wait"
           /\ \A p \in Requests \ {q} : /\ pc'[p] = pc[p] /\ pos'[p] = pos[p]
                                        /\ data'[p] = data[p] /\ resp'[p] = resp[p]
<1>1. Handle(q) /\ UrlsParse(q) /\ Serve(q) /\ UNCHANGED <<jar, net, tab>>
  BY DEF Server, Serve
<1>2. PICK d \in RequestData : ServeEffect(q, d)
  BY <1>1, ServeHasEffect
<1>3. /\ UNCHANGED <<clock, secret, req>> /\ pc[q] \in {"rules", "verify"}
      /\ \A p \in Requests \ {q} : /\ pc'[p] = pc[p] /\ pos'[p] = pos[p]
                                   /\ data'[p] = data[p] /\ resp'[p] = resp[p]
  BY <1>2, EffectFrame DEF ServeEffect
<1>4. tab[q].at = "wait"
  BY <1>3 DEF BrowserInv, InStep
<1>. QED BY <1>1, <1>3, <1>4

LEMMA ServerCalm ==
    ASSUME IInv, WalkInv, BrowserInv, CalmInv, NEW q \in Requests, Server(q)
    PROVE  CalmInv'
<1>1. \A p \in Requests \ {q} : tab'[p].disturbed \/ Calm(p)'
  BY ServerFrame, CalmFrame DEF CalmInv
<1>2. ASSUME Calm(q) PROVE Calm(q)'
  <2>1. /\ UNCHANGED <<clock, secret, req, jar, net, tab>> /\ Handle(q) /\ UrlsParse(q)
        /\ pc[q] \in {"rules", "verify"} /\ tab[q].at = "wait"
    BY ServerFrame
  <2>2. \A c : KeyNow(c)' = KeyNow(c)
    BY <2>1 DEF KeyNow
  <2>3. Loads(q)' /\ UpToDate(q)'
    BY <1>2, <2>1, <2>2 DEF Calm, Loads, UpToDate
  <2>4. CASE pc'[q] = pc[q]
    BY <1>2, <2>1, <2>3, <2>4 DEF Calm, OnVerify, Handed
  <2>5. CASE pc'[q] = "done" /\ Answers(q)
    <3>1. ASSUME pc[q] = "verify"
          PROVE  \A c \in req[q].path : c \in Challenges /\ VerifyOutcome(q, c) = "OK"
      BY <1>2, <3>1, BrowserAssumption DEF Calm, OnVerify, VerifyOutcome, KeyVerify
    <3>2. resp'[q].kind \notin {"refused", "retry"}
      BY <2>5, <3>1 DEF Answers
    <3>3. ASSUME resp'[q].kind \in {"redirect", "verified"}
          PROVE  \E c \in Challenges : \E k \in resp'[q].cookies :
                   resp'[q].by = {c} /\ Holds(k, c, req[q])
      BY <2>5, <3>1, <3>3 DEF Answers
    <3>4. Handed(q)'
      BY <2>1, <3>2, <3>3 DEF Handed, Holds
    <3>. QED BY <2>3, <2>5, <3>4 DEF Calm, OnVerify
  <2>. QED BY <2>1, <2>4, <2>5, ServerAnswers
<1>. QED BY <1>1, <1>2, ServerFrame DEF CalmInv

\* What the receipt of a response leaves of its tab and of the others'.
LEMMA ReceiveFrame ==
    ASSUME IInv, BrowserInv, NEW q \in Requests, Receive(q)
    PROVE  /\ pc[q] = "done" /\ pc'[q] = "idle" /\ tab[q].at = "wait"
           /\ UNCHANGED <<clock, secret, net>> /\ jar' = Stored(resp[q].cookies)
           /\ resp'[q] = NoResponse
           /\ \A p \in Requests \ {q} :
                /\ req'[p] = req[p] /\ pc'[p] = pc[p] /\ pos'[p] = pos[p]
                /\ data'[p] = data[p] /\ resp'[p] = resp[p]
<1>1. /\ pc[q] = "done" /\ pc'[q] = "idle" /\ UNCHANGED <<clock, secret, net>>
      /\ jar' = Stored(resp[q].cookies) /\ resp'[q] = NoResponse
      /\ \A p \in Requests \ {q} :
           /\ req'[p] = req[p] /\ pc'[p] = pc[p] /\ pos'[p] = pos[p]
           /\ data'[p] = data[p] /\ resp'[p] = resp[p]
  BY DEF Receive, Finish, IInv, TypeOK
<1>2. tab[q].at = "wait"
  BY <1>1 DEF BrowserInv, InStep
<1>. QED BY <1>1, <1>2

\* Another tab's response disturbs a tab that is loading, or leaves the jar alone.
LEMMA OtherTab ==
    ASSUME IInv, BrowserInv, SteadyBrowser, NEW q \in Requests, Receive(q), NEW p \in Requests \ {q}
    PROVE  \/ tab'[p].disturbed
           \/ ~Loading(p)
           \/ jar' = jar /\ ~tab[p].disturbed
<1>1. /\ SameTab(tab'[p], tab[p])
      /\ resp[q].cookies # {} /\ Loading(p) => tab'[p].disturbed
  BY ReceiveTabs
<1>2. CASE resp[q].cookies = {}
  <2>1. jar' = jar
    BY <1>2, ReceiveFrame DEF Stored, SteadyBrowser
  <2>. QED BY <1>1, <2>1 DEF SameTab
<1>. QED BY <1>1, <1>2

\* What a request's cookie holds is what the browser wins by it, if the request is
\* one it would still send.
LEMMA HoldsWins ==
    ASSUME NEW q \in Requests, UpToDate(q), tab[q].at = "wait", NEW c \in Challenges, NEW k,
           Holds(k, c, req[q])
    PROVE  Wins(k, c)
BY DEF Holds, Wins, UpToDate

LEMMA ReceiveOwn ==
    ASSUME IInv, BrowserInv, SteadyBrowser, NEW q \in Requests, Receive(q), Calm(q)
    PROVE  Calm(q)'
<1>1. /\ pc[q] = "done" /\ pc'[q] = "idle" /\ UNCHANGED <<clock, secret, net>>
      /\ jar' = Stored(resp[q].cookies) /\ tab[q].at = "wait"
  BY ReceiveFrame
<1>2. /\ \A c \in Challenges : KeyFor(c, req[q]) = KeyNow(c)
      /\ Handed(q) /\ resp[q].kind \notin {"refused", "retry"} /\ UpToDate(q)
  BY <1>1 DEF Calm, UpToDate, Handed
<1>3. \A c : KeyNow(c)' = KeyNow(c)
  BY <1>1 DEF KeyNow
<1>4. OnVerify(q)' /\ Handed(q)'
  BY <1>1 DEF OnVerify, Handed
<1>5. CASE tab'[q].at = "ended"
  BY <1>4, <1>5 DEF Calm, Loads, UpToDate
<1>6. CASE tab'[q].at = "load" /\ tab'[q].url \in Follow(req[q], resp[q])
  <2>0. PICK url \in Follow(req[q], resp[q]) : tab'[q].url = url
    BY <1>6
  <2>1. req[q] \in Request /\ resp[q] \in Response /\ Named(q)
    BY DEF IInv, TypeOK, BrowserInv
  <2>2. /\ \/ resp[q].kind \in {"clean", "retry"}
           \/ resp[q].kind \in {"redirect", "verified"}
                /\ \E c \in Challenges : resp[q].by = {c} /\ url = Page({c})
           \/ resp[q].kind = "challenge"
                /\ \E c \in Challenges : resp[q].by = {c} /\ url = VerifyUrl(c, KeyFor(c, req[q]))
        /\ resp[q].kind = "clean" => url = Page({})
    <3>1. resp[q].kind \in Naming => \E c \in Challenges : resp[q].by = {c}
      BY <2>1 DEF Named
    <3>. QED BY <2>1, <3>1, FollowFacts
  <2>3. Loads(q)'
    <3>1. CASE resp[q].kind = "clean"
      BY <2>0, <2>2, <3>1 DEF Loads
    <3>2. CASE resp[q].kind = "challenge"
      <4>1. PICK c \in Challenges : url = VerifyUrl(c, KeyFor(c, req[q]))
        BY <2>2, <3>2
      <4>2. url = VerifyUrl(c, KeyNow(c)')
        BY <1>2, <1>3, <4>1
      <4>. QED BY <2>0, <4>2 DEF Loads
    <3>3. CASE resp[q].kind \in {"redirect", "verified"}
      <4>1. PICK c \in Challenges : resp[q].by = {c} /\ url = Page({c})
        BY <2>2, <3>3
      <4>2. PICK x \in Challenges, k \in resp[q].cookies :
              resp[q].by = {x} /\ Holds(k, x, req[q])
        BY <1>1, <1>2, <3>3 DEF Handed
      <4>3. x = c
        BY <4>1, <4>2
      <4>4. Wins(k, c)
        BY <1>1, <1>2, <4>2, <4>3, HoldsWins
      <4>5. Wins(k, c)'
        BY <1>1, <1>3, <4>4 DEF Wins
      <4>6. k \in jar'
        BY <1>1, <4>2 DEF Stored, SteadyBrowser
      <4>. QED BY <2>0, <4>1, <4>5, <4>6 DEF Loads
    <3>. QED BY <1>2, <2>2, <3>1, <3>2, <3>3
  <2>. QED BY <1>4, <1>6, <2>3 DEF Calm, UpToDate
<1>. QED BY <1>5, <1>6, ReceiveTabs

LEMMA ReceiveCalm ==
    ASSUME IInv, BrowserInv, BrowserInv', CalmInv, SteadyBrowser, NEW q \in Requests, Receive(q)
    PROVE  CalmInv'
<1>1. tab'[q].disturbed = tab[q].disturbed /\ \A p \in Requests \ {q} : SameTab(tab'[p], tab[p])
  BY ReceiveTabs
<1>2. ASSUME NEW p \in Requests \ {q}
      PROVE  tab'[p].disturbed \/ Calm(p)'
  <2>1. tab'[p].at = tab[p].at /\ tab'[p].url = tab[p].url
    BY <1>1 DEF SameTab
  <2>2. CASE ~Loading(p)
    <3>1. (~Loading(p))' /\ InStep(p)'
      BY <2>1, <2>2 DEF Loading, BrowserInv
    <3>. QED BY <3>1 DEF Calm, Loads, UpToDate, OnVerify, Handed, Loading, InStep
  <2>3. CASE jar' = jar /\ ~tab[p].disturbed
    BY <2>1, <2>3, ReceiveFrame, CalmFrame DEF CalmInv
  <2>. QED BY <2>2, <2>3, OtherTab
<1>3. tab'[q].disturbed \/ Calm(q)'
  BY <1>1, ReceiveOwn DEF CalmInv
<1>. QED BY <1>2, <1>3 DEF CalmInv

\* Ticks between two rotations change nothing a browser's passes depend on.
LEMMA QuietTick ==
    ASSUME BrowserTick, ~Rotates
    PROVE  /\ UNCHANGED <<secret, req, pc, pos, data, resp, jar, net, tab>>
           /\ Expiration(clock, DefaultDuration)' = Expiration(clock, DefaultDuration)
           /\ \A c \in Challenges : KeyNow(c)' = KeyNow(c) /\ \A k : Wins(k, c)' = Wins(k, c)
<1>1. clock' = clock + 1 /\ UNCHANGED <<secret, req, pc, pos, data, resp, jar, net, tab>>
  BY DEF BrowserTick, Tick
<1>2. \A c \in Challenges : Expiration(clock', Duration[c]) = Expiration(clock, Duration[c])
  BY <1>1 DEF Rotates
<1>3. Expiration(clock', DefaultDuration) = Expiration(clock, DefaultDuration)
  BY <1>1 DEF Rotates
<1>4. \A c \in Challenges : KeyNow(c)' = KeyNow(c)
  BY <1>1, <1>2 DEF KeyNow
<1>5. \A c \in Challenges : \A k : Wins(k, c)' = Wins(k, c)
  BY <1>1, <1>3, <1>4 DEF Wins
<1>. QED BY <1>1, <1>3, <1>4, <1>5

LEMMA OutsideCases ==
    ASSUME BrowserInv, BrowserTick \/ Upgrade
    PROVE  \/ BrowserTick /\ ~Rotates /\ tab' = tab
           \/ \A q \in Requests :
                /\ SameTab(tab'[q], tab[q]) /\ tab'[q].hops = 0
                /\ Loading(q) => tab'[q].disturbed
<1>1. CASE tab' = DisturbAll
  <2>1. \A q \in Requests : SameTab(tab'[q], tab[q]) /\ (Loading(q) => tab'[q].disturbed)
    BY <1>1, AllTabs DEF BrowserInv
  <2>2. ASSUME NEW q \in Requests PROVE tab'[q].hops = 0
    <3>. DEFINE t == Disturb(Requests)[q]
    <3>1. t \in Tab
      BY DisturbedTab DEF BrowserInv, SameTab
    <3>2. tab'[q] = [t EXCEPT !.hops = 0]
      BY <1>1 DEF DisturbAll
    <3>. HIDE DEF t
    <3>. QED BY <3>1, <3>2 DEF Tab
  <2>. QED BY <2>1, <2>2
<1>. QED BY <1>1 DEF BrowserTick, Upgrade

LEMMA OutsideCalm ==
    ASSUME BrowserInv, BrowserInv', CalmInv, BrowserTick \/ Upgrade
    PROVE  CalmInv'
<1>1. CASE \A q \in Requests : SameTab(tab'[q], tab[q]) /\ (Loading(q) => tab'[q].disturbed)
  <2>1. ASSUME NEW q \in Requests, ~Loading(q) PROVE Calm(q)'
    <3>1. ~Loading(q)' /\ InStep(q)'
      BY <1>1, <2>1 DEF SameTab, Loading, BrowserInv
    <3>. QED BY <3>1 DEF Calm, Loads, UpToDate, OnVerify, Handed, Loading, InStep
  <2>. QED BY <1>1, <2>1 DEF CalmInv
<1>2. CASE BrowserTick /\ ~Rotates /\ tab' = tab
  <2>1. ASSUME NEW q \in Requests, Calm(q) PROVE Calm(q)'
    <3>1. /\ UNCHANGED <<secret, req, pc, resp, jar, net, tab>>
          /\ Expiration(clock, DefaultDuration)' = Expiration(clock, DefaultDuration)
          /\ \A c \in Challenges : KeyNow(c)' = KeyNow(c) /\ \A k : Wins(k, c)' = Wins(k, c)
      BY <1>2, QuietTick
    <3>2. Loads(q)'
      BY <2>1, <3>1 DEF Calm, Loads
    <3>3. UpToDate(q)'
      BY <2>1, <3>1 DEF Calm, UpToDate
    <3>4. OnVerify(q)' /\ Handed(q)'
      BY <2>1, <3>1 DEF Calm, OnVerify, Handed, Holds
    <3>. QED BY <3>2, <3>3, <3>4 DEF Calm
  <2>. QED BY <1>2, <2>1 DEF CalmInv
<1>. QED BY <1>1, <1>2, OutsideCases

LEMMA NextCalm ==
    ASSUME IInv, WalkInv, BrowserInv, BrowserInv', CalmInv, SteadyBrowser, [BrowserNext]_bvars
    PROVE  CalmInv'
<1>1. CASE UNCHANGED bvars
  <2>1. UNCHANGED <<req, pc, resp, clock, secret, net, jar, tab>>
    BY <1>1 DEF bvars, vars
  <2>2. \A q \in Requests : Calm(q) => Calm(q)'
    BY <2>1, CalmFrame
  <2>. QED BY <2>1, <2>2 DEF CalmInv
<1>2. CASE BrowserNext
  BY <1>2, OpenCalm, SendCalm, ServerCalm, ReceiveCalm, OutsideCalm DEF BrowserNext
<1>. QED BY <1>1, <1>2

LEMMA AlwaysCalm ==
    ASSUME SteadyBrowser
    PROVE  BrowserSpec => [](IInv /\ WalkInv /\ BrowserInv /\ CalmInv)
<1>1. IInv /\ WalkInv /\ BrowserInv /\ BrowserInv' /\ CalmInv /\ [BrowserNext]_bvars => CalmInv'
  BY NextCalm
<1>. QED BY <1>1, InitCalm, AlwaysBrowser, PTL DEF BrowserSpec

-----------------------------------------------------------------------------
(* Who is turned away.                                                     *)

\* No rule turns a request away by itself: only a challenge that is not passed does,
\* and there is one to pass.
Welcoming ==
    \A i \in DOMAIN Rules :
      /\ Rules[i].act \notin {"DENY", "DROP"}
      /\ Rules[i].act = "CHALLENGE" =>
           Rules[i].chals # <<>> /\ (Rules[i].cont \/ Rules[i].pass \notin {"DENY", "DROP"})

\* No challenge is skipped for a reason other than a pass, so a rule's issuing loop
\* does not get past its first challenge.
OnRules(q) ==
    pc[q] = "rules" =>
      /\ \A c \in Challenges : data[q].verify[c] # "Skip" /\ data[q].state[c] # "Pass"
      /\ pos[q].idx # 0 => /\ pos[q].idx = 1 /\ InRule(q)
                           /\ Rule(q).act = "CHALLENGE" /\ Valid(q) = {}

Welcome(q) == OnRules(q) /\ (pc[q] = "done" => resp[q].kind # "deny")

NavInv == TurnedAwayExplained /\ \A q \in Requests : tab[q].disturbed \/ Welcome(q)

\* A request nothing has happened to.
LEMMA WelcomeFrame ==
    ASSUME NEW q \in Requests, Welcome(q),
           pc'[q] = pc[q], pos'[q] = pos[q], data'[q] = data[q], resp'[q] = resp[q]
    PROVE  Welcome(q)'
BY DEF Welcome, OnRules, InRule, Rule, Valid

LEMMA WelcomeIdle ==
    ASSUME NEW q \in Requests, pc[q] = "idle"
    PROVE  Welcome(q)
BY DEF Welcome, OnRules

LEMMA InitNav == BrowserInit => NavInv
<1>. SUFFICES ASSUME BrowserInit PROVE NavInv
  OBVIOUS
<1>1. \A q \in Requests : tab[q] = Closed /\ pc[q] = "idle"
  BY DEF BrowserInit, Init
<1>2. Closed.end = "none"
  BY DEF Closed
<1>. HIDE DEF Closed
<1>3. TurnedAwayExplained
  BY <1>1, <1>2 DEF TurnedAwayExplained
<1>. QED BY <1>1, <1>3, WelcomeIdle DEF NavInv

LEMMA OpenNav ==
    ASSUME BrowserInv, NavInv, NEW q \in Requests, Open(q)
    PROVE  NavInv'
<1>1. \A p \in Requests \ {q} : tab'[p].disturbed \/ Welcome(p)'
  BY OpenTabs, WelcomeFrame DEF NavInv
<1>2. Welcome(q)'
  BY OpenTabs DEF Welcome, OnRules
<1>3. TurnedAwayExplained'
  BY OpenTabs DEF NavInv, TurnedAwayExplained
<1>. QED BY <1>1, <1>2, <1>3 DEF NavInv

\* No challenge is skipped because it was issued without being passed, or because a
\* precondition does not hold.
LEMMA EvaluateNoSkip ==
    ASSUME NEW r \in Request, NEW now \in Nat, NEW spots, NEW c \in Challenges,
           r.eligible = Conditioned,
           c \in r.arg => Ok(EvaluateChallenges(r, now, spots).verify[c])
    PROVE  /\ EvaluateChallenges(r, now, spots).verify[c] # "Skip"
           /\ EvaluateChallenges(r, now, spots).state[c] # "Pass"
<1>. DEFINE map == VerifyChallengeState(r, now).map
            token == CHOOSE t \in map : t.key.chal = c
            v == VerifyChallengeToken(c, token, r, now, c \in spots)
            w == VerifyChallenge(c, map, r, now, c \in spots)
<1>1. v.result # "Skip" /\ v.state # "Pass"
  BY DEF VerifyChallengeToken
<1>2. c \in r.arg => Ok(w.result)
  BY EvaluateReads
<1>. HIDE DEF map
<1>3. w.result # "Skip" /\ w.state # "Pass"
  BY <1>1, <1>2 DEF VerifyChallenge, Ok
<1>. QED BY <1>3, EvaluateReads DEF map

\* A request of the browser brings the passes in the jar.
LEMMA WonBrought ==
    ASSUME IInv, SteadyBrowser, NEW r \in Request, r.time = clock, r.secret = secret, r.net = net,
           r.cookies = {k \in jar : k.net = net /\ k.exp >= clock},
           NEW c \in Challenges, NEW k \in jar, Wins(k, c)
    PROVE  /\ k \in r.cookies /\ CookieOpens(k, r, clock)
           /\ \E t \in k.tokens : OwnPass(t, r) /\ t.key.chal = c
<1>1. clock \in Nat
  BY DEF IInv, TypeOK
<1>2. k.exp >= clock /\ k.net = net /\ k.secret = secret
  BY <1>1, ExpirationAhead, DurationAssumption DEF Wins
<1>3. k \in r.cookies /\ CookieOpens(k, r, clock)
  BY <1>2 DEF CookieOpens
<1>4. PICK t \in k.tokens : t.ok = TRUE /\ t.key = KeyNow(c)
  BY DEF Wins
<1>5. t.key.chal = c /\ t.key = KeyFor(c, r)
  BY <1>4, KeyIsNow DEF KeyNow
<1>6. c \notin CookieBound
  BY RegistrationAssumption, BrowserAssumption
<1>7. OwnPass(t, r)
  BY <1>4, <1>5, <1>6 DEF OwnPass
<1>. QED BY <1>3, <1>5, <1>7

\* The request for a page a pass was won for is found to have passed.
LEMMA WonPasses ==
    ASSUME IInv, WalkInv, SteadyBrowser, NEW r \in Request, NEW spots,
           r.cookies \in AtMostOne(issued), r.time = clock, r.secret = secret, r.net = net,
           r.cookies = {k \in jar : k.net = net /\ k.exp >= clock},
           NEW c \in Challenges, NEW k \in jar, Wins(k, c)
    PROVE  Ok(EvaluateChallenges(r, clock, spots).verify[c])
<1>1. clock \in Nat /\ \A x \in issued : Neat(x.tokens)
  BY DEF IInv, TypeOK, WalkInv
<1>2. PICK t \in k.tokens : OwnPass(t, r) /\ t.key.chal = c
  BY WonBrought
<1>3. k \in r.cookies /\ CookieOpens(k, r, clock)
  BY WonBrought
<1>. QED BY <1>1, <1>2, <1>3, EvaluateCarries

LEMMA SendNav ==
    ASSUME IInv, WalkInv, BrowserInv, CalmInv, NavInv, SteadyBrowser, NEW q \in Requests, Send(q)
    PROVE  NavInv'
<1>1. PICK r \in Request :
        /\ Accept(q, r) /\ r.cookies \in AtMostOne(issued) /\ r.time = clock /\ r.secret = secret
        /\ r.net = net /\ r.cookies = {k \in jar : k.net = net /\ k.exp >= clock}
        /\ r.path = tab[q].url.path /\ r.arg = tab[q].url.arg
        /\ \A p \in Requests \ {q} : tab'[p] = tab[p]
        /\ tab'[q].end = tab[q].end
        /\ tab[q].disturbed \/ r.eligible # Conditioned => tab'[q].disturbed
  BY SendFacts
<1>2. PICK spots : data'[q] = EvaluateChallenges(r, clock, spots)
  BY <1>1, SendServe
<1>3. /\ tab[q].at = "load" /\ UNCHANGED <<pos, resp>> /\ pos'[q].idx = 0
      /\ pc'[q] = (IF r.path = {} THEN "rules" ELSE "verify")
      /\ \A p \in Requests \ {q} : data'[p] = data[p] /\ pc'[p] = pc[p]
  BY <1>1, SendServe
<1>4. \A p \in Requests \ {q} : tab'[p].disturbed \/ Welcome(p)'
  BY <1>1, <1>3, WelcomeFrame DEF NavInv
<1>5. TurnedAwayExplained'
  BY <1>1 DEF NavInv, TurnedAwayExplained
<1>6. ASSUME ~tab'[q].disturbed PROVE Welcome(q)'
  <2>1. /\ r.eligible = Conditioned
        /\ \/ tab[q].url = Page({})
           \/ \E c \in Challenges :
                \/ tab[q].url = VerifyUrl(c, KeyNow(c))
                \/ tab[q].url = Page({c}) /\ \E k \in jar : Wins(k, c)
    BY <1>1, <1>3, <1>6 DEF CalmInv, Calm, Loads
  <2>2. clock \in Nat
    BY DEF IInv, TypeOK
  <2>3. ASSUME NEW c \in Challenges, r.path = {}, c \in r.arg
        PROVE  Ok(EvaluateChallenges(r, clock, spots).verify[c])
    <3>1. tab[q].url.path = {} /\ c \in tab[q].url.arg
      BY <1>1, <2>3
    <3>2. tab[q].url # Page({})
      BY <3>1, UrlReads
    <3>3. ASSUME NEW x \in Challenges PROVE tab[q].url # VerifyUrl(x, KeyNow(x))
      <4>1. VerifyUrl(x, KeyNow(x)).path = {x} /\ {x} # {}
        BY UrlReads
      <4>. QED BY <3>1, <4>1
    <3>4. PICK x \in Challenges : tab[q].url = Page({x}) /\ \E k \in jar : Wins(k, x)
      BY <2>1, <3>2, <3>3
    <3>5. x = c
      BY <3>1, <3>4, UrlReads
    <3>. QED BY <1>1, <3>4, <3>5, WonPasses
  <2>4. ASSUME NEW c \in Challenges, r.path = {}
        PROVE  data'[q].verify[c] # "Skip" /\ data'[q].state[c] # "Pass"
    BY <1>2, <2>1, <2>2, <2>3, <2>4, EvaluateNoSkip
  <2>. QED BY <1>3, <2>4 DEF Welcome, OnRules
<1>. QED BY <1>4, <1>5, <1>6 DEF NavInv

\* An action that turns nobody away passes the request on.
LEMMA ActAdmits ==
    ASSUME NEW q, NEW d, NEW action, NEW by, Act(q, d, action, by), action \notin {"DENY", "DROP"}
    PROVE  NextRule(q, d) \/ \E kind \in {"backend", "error"} : \E b : Respond(q, d, kind, b)
BY DEF Act

LEMMA WelcomingRule ==
    ASSUME Welcoming, NEW q \in Requests, InRule(q)
    PROVE  /\ Rule(q).act \notin {"DENY", "DROP"}
           /\ Rule(q).act = "CHALLENGE" =>
                /\ 1 \in DOMAIN Rule(q).chals
                /\ Rule(q).cont \/ Rule(q).pass \notin {"DENY", "DROP"}
<1>1. Rule(q).chals \in Seq(Challenges)
  BY RuleType
<1>2. ASSUME Rule(q).chals # <<>> PROVE 1 \in DOMAIN Rule(q).chals
  BY <1>1, <1>2
<1>. QED BY <1>2 DEF Welcoming, InRule, Rule

LEMMA WelcomeReply ==
    ASSUME IInv, NEW q \in Requests, NEW d, NEW kind, NEW by, Respond(q, d, kind, by), kind # "deny"
    PROVE  Welcome(q)'
<1>1. pc'[q] = "done" /\ resp'[q].kind = kind
  BY DEF Respond, Reply, IInv, TypeOK
<1>. QED BY <1>1 DEF Welcome, OnRules

LEMMA WelcomeNextRule ==
    ASSUME IInv, NEW q \in Requests, OnRules(q), pc[q] = "rules", NextRule(q, data[q])
    PROVE  Welcome(q)'
<1>1. pc'[q] = "rules" /\ data'[q] = data[q] /\ pos'[q].idx = 0
  BY DEF NextRule, IInv, TypeOK
<1>. QED BY <1>1 DEF Welcome, OnRules

\* Behind a calm tab the issuing loop is at the rule's first challenge, and issues it.
LEMMA FirstIssued ==
    ASSUME IInv, NEW q \in Requests, OnRules(q), Welcoming, pc[q] = "rules", pos[q].idx # 0
    PROVE  ~SkipChallenge(q) /\ ~NothingMatched(q)
<1>1. /\ pos[q].idx = 1 /\ InRule(q) /\ Rule(q).act = "CHALLENGE" /\ Valid(q) = {}
      /\ \A c \in Challenges : data[q].verify[c] # "Skip" /\ data[q].state[c] # "Pass"
  BY DEF OnRules
<1>2. 1 \in DOMAIN Rule(q).chals /\ Rule(q).chals \in Seq(Challenges)
  BY <1>1, WelcomingRule, RuleType
<1>3. Current(q) \in Challenges /\ ~Ok(data[q].verify[Current(q)])
  BY <1>1, <1>2, RuleType DEF Current, Valid
<1>4. ~Skipped(q)
  BY <1>1, <1>3 DEF Skipped, Ok
<1>5. ~(pos[q].idx > Len(Rule(q).chals))
  BY <1>1, <1>2
<1>. QED BY <1>4, <1>5 DEF SkipChallenge, NothingMatched

LEMMA ServerWelcome ==
    ASSUME IInv, Welcoming, NEW q \in Requests, Handle(q), UrlsParse(q), Welcome(q)
    PROVE  Welcome(q)'
<1>0. req[q] \in Request /\ data[q] \in RequestData /\ OnRules(q)
  BY DEF IInv, TypeOK, Welcome
<1>1. ASSUME NEW action, action \notin {"DENY", "DROP"}, NEW by,
             Act(q, data[q], action, by), pc[q] = "rules"
      PROVE  Welcome(q)'
  BY <1>0, <1>1, ActAdmits, WelcomeReply, WelcomeNextRule
<1>2. CASE RuleMiss(q)
  <2>1. pc'[q] = "rules" /\ data'[q] = data[q] /\ pos'[q].idx = 0 /\ pc[q] = "rules"
    BY <1>2 DEF RuleMiss, Entering, InRule, IInv, TypeOK
  <2>. QED BY <1>0, <2>1 DEF Welcome, OnRules
<1>3. CASE RuleError(q) \/ DefaultPass(q)
  BY <1>3, WelcomeReply DEF RuleError, DefaultPass
<1>4. CASE RuleHit(q)
  <2>1. InRule(q) /\ pc[q] = "rules" /\ Act(q, data[q], Rule(q).act, {})
    BY <1>4 DEF RuleHit, Entering, InRule
  <2>. QED BY <1>1, <2>1, WelcomingRule
<1>5. CASE PassedBefore(q)
  <2>1. InRule(q) /\ pc[q] = "rules" /\ Rule(q).act = "CHALLENGE"
    BY <1>5 DEF PassedBefore, Entering, InRule
  <2>2. PICK c : \/ Respond(q, data[q], "clean", {c})
                 \/ Pass(q, data[q], Rule(q), c)
    BY <1>5 DEF PassedBefore
  <2>3. CASE Respond(q, data[q], "clean", {c})
    BY <2>3, WelcomeReply
  <2>4. CASE Pass(q, data[q], Rule(q), c)
    <3>1. CASE Rule(q).cont
      BY <1>0, <2>1, <2>4, <3>1, WelcomeNextRule DEF Pass
    <3>2. CASE ~Rule(q).cont
      BY <1>1, <2>1, <2>4, <3>2, WelcomingRule DEF Pass
    <3>. QED BY <3>1, <3>2
  <2>. QED BY <2>2, <2>3, <2>4
<1>6. CASE StartIssuing(q)
  <2>1. /\ InRule(q) /\ pc[q] = "rules" /\ pos[q].idx = 0 /\ Rule(q).act = "CHALLENGE"
        /\ Valid(q) = {} /\ NextChallenge(q, data[q])
    BY <1>6 DEF StartIssuing, Entering, InRule
  <2>2. /\ pc'[q] = "rules" /\ data'[q] = data[q]
        /\ pos'[q].idx = 1 /\ pos'[q].rule = pos[q].rule
    BY <2>1 DEF NextChallenge, IInv, TypeOK
  <2>3. InRule(q)' /\ Rule(q)' = Rule(q)
    BY <2>1, <2>2 DEF InRule, Rule
  <2>4. Valid(q)' = {}
    BY <2>1, <2>2, <2>3 DEF Valid
  <2>5. OnRules(q)'
    BY <1>0, <2>1, <2>2, <2>3, <2>4 DEF OnRules
  <2>. QED BY <2>2, <2>5 DEF Welcome
<1>7. CASE SkipChallenge(q) \/ NothingMatched(q)
  <2>1. pc[q] = "rules" /\ pos[q].idx # 0
    <3>1. CASE SkipChallenge(q)
      <4>1. InRule(q) /\ pos[q].idx \in DOMAIN Rule(q).chals
        BY <3>1 DEF SkipChallenge, Issuing
      <4>2. Rule(q).chals \in Seq(Challenges)
        BY <4>1, RuleType
      <4>. QED BY <4>1, <4>2 DEF InRule
    <3>2. CASE NothingMatched(q)
      BY <3>2 DEF NothingMatched, InRule
    <3>. QED BY <1>7, <3>1, <3>2
  <2>. QED BY <1>0, <1>7, <2>1, FirstIssued
<1>8. ASSUME NEW d \in RequestData, NEW c \in Challenges, NEW kind \in {"redirect", "challenge"},
             \/ Respond(q, Verdict(d, c, "None"), kind, {c})
             \/ Act(q, Verdict(d, c, "Fail"), Rule(q).fail, {})
      PROVE  Welcome(q)'
  BY <1>8, NoFailure, WelcomeReply
<1>9. CASE IssueCookie(q)
  <2>. DEFINE c == Current(q)
              e == IssueChallengeToken(data[q], c, req[q], {}, TRUE)
  <2>1. c \in Challenges
    BY <1>9, IssueFacts DEF IssueCookie
  <2>2. e \in RequestData
    BY <1>0, <2>1, TokenIssued
  <2>3. \/ Respond(q, Verdict(e, c, "None"), "redirect", {c})
        \/ Act(q, Verdict(e, c, "Fail"), Rule(q).fail, {})
    BY <1>9 DEF IssueCookie
  <2>. HIDE DEF e, c
  <2>. QED BY <1>8, <2>1, <2>2, <2>3
<1>10. CASE IssueRefresh(q)
  <2>1. Current(q) \in Challenges
    BY <1>10, IssueFacts DEF IssueRefresh, IssuePage
  <2>2. \/ Respond(q, Verdict(data[q], Current(q), "None"), "challenge", {Current(q)})
        \/ Act(q, Verdict(data[q], Current(q), "Fail"), Rule(q).fail, {})
    BY <1>10 DEF IssueRefresh, IssuePage
  <2>. QED BY <1>0, <1>8, <2>1, <2>2
<1>11. CASE VerifyPassed(q) \/ VerifyRefused(q)
  <2>1. \E d, by : \E kind \in {"verified", "retry", "refused"} : Respond(q, d, kind, by)
    BY <1>11 DEF VerifyPassed, VerifyRefused
  <2>. QED BY <2>1, WelcomeReply
<1>. QED BY <1>2, <1>3, <1>4, <1>5, <1>6, <1>7, <1>9, <1>10, <1>11, HandleCases

LEMMA ServerNav ==
    ASSUME IInv, WalkInv, BrowserInv, NavInv, Welcoming, NEW q \in Requests, Server(q)
    PROVE  NavInv'
<1>1. \A p \in Requests \ {q} : tab'[p].disturbed \/ Welcome(p)'
  BY ServerFrame, WelcomeFrame DEF NavInv
<1>2. tab'[q].disturbed \/ Welcome(q)'
  BY ServerFrame, ServerWelcome DEF NavInv
<1>3. TurnedAwayExplained'
  BY ServerFrame DEF NavInv, TurnedAwayExplained
<1>. QED BY <1>1, <1>2, <1>3 DEF NavInv

LEMMA ReceiveNav ==
    ASSUME IInv, BrowserInv, CalmInv, NavInv, NEW q \in Requests, Receive(q)
    PROVE  NavInv'
<1>1. tab'[q].disturbed = tab[q].disturbed /\ \A p \in Requests \ {q} : SameTab(tab'[p], tab[p])
  BY ReceiveTabs
<1>2. \A p \in Requests \ {q} : tab'[p].disturbed \/ Welcome(p)'
  BY <1>1, ReceiveFrame, WelcomeFrame DEF NavInv, SameTab
<1>3. Welcome(q)'
  BY ReceiveFrame DEF Welcome, OnRules
<1>4. TurnedAwayExplained'
  <2>1. ASSUME NEW p \in Requests \ {q}, tab'[p].end \in {"deny", "refused"}
        PROVE  tab'[p].disturbed
    BY <1>1, <2>1 DEF SameTab, NavInv, TurnedAwayExplained
  <2>2. ASSUME tab'[q].end \in {"deny", "refused"}, ~tab'[q].disturbed
        PROVE  FALSE
    <3>1. Calm(q) /\ Welcome(q) /\ tab[q].end \notin {"deny", "refused"}
      BY <1>1, <2>2 DEF CalmInv, NavInv, TurnedAwayExplained
    <3>2. resp[q].kind \notin {"deny", "refused"}
      BY <3>1, ReceiveFrame DEF Calm, Handed, Welcome
    <3>. QED BY <2>2, <3>1, <3>2, ReceiveTabs
  <2>. QED BY <2>1, <2>2 DEF TurnedAwayExplained
<1>. QED BY <1>2, <1>3, <1>4 DEF NavInv

LEMMA OutsideNav ==
    ASSUME BrowserInv, NavInv, BrowserTick \/ Upgrade
    PROVE  NavInv'
<1>1. UNCHANGED <<pc, pos, data, resp>>
  BY DEF BrowserTick, Upgrade, Tick, vars
<1>2. \A q \in Requests : /\ tab'[q].end = tab[q].end
                          /\ tab[q].disturbed => tab'[q].disturbed
  BY OutsideCases DEF SameTab
<1>3. \A q \in Requests : tab'[q].disturbed \/ Welcome(q)'
  BY <1>1, <1>2, WelcomeFrame DEF NavInv
<1>4. TurnedAwayExplained'
  BY <1>2 DEF NavInv, TurnedAwayExplained
<1>. QED BY <1>3, <1>4 DEF NavInv

LEMMA NextNav ==
    ASSUME IInv, WalkInv, BrowserInv, CalmInv, NavInv, Welcoming, SteadyBrowser, [BrowserNext]_bvars
    PROVE  NavInv'
<1>1. CASE UNCHANGED bvars
  <2>1. UNCHANGED <<pc, pos, data, resp, tab>>
    BY <1>1 DEF bvars, vars
  <2>2. \A q \in Requests : Welcome(q) => Welcome(q)'
    BY <2>1, WelcomeFrame
  <2>. QED BY <2>1, <2>2 DEF NavInv, TurnedAwayExplained
<1>2. CASE BrowserNext
  BY <1>2, OpenNav, SendNav, ServerNav, ReceiveNav, OutsideNav DEF BrowserNext
<1>. QED BY <1>1, <1>2

\* A browser that keeps cookies, sends the same headers and solves what it is shown
\* gets through every policy of cookie and refresh challenges that does not turn it
\* away by itself, whatever the order of the rules, and for any number of tabs, of
\* challenges and of rotations: it is refused only if another tab's response, a
\* rotation, a change of network or a precondition has come between (Challenge.Handle,
\* EvaluateChallenges, VerifyHandlerFunc and the state cookie together).
THEOREM HonestBrowserThrough ==
    ASSUME Welcoming, SteadyBrowser
    PROVE  BrowserSpec => []TurnedAwayExplained
<1>1. BrowserInit => NavInv
  BY InitNav
<1>2. IInv /\ WalkInv /\ BrowserInv /\ CalmInv /\ NavInv /\ [BrowserNext]_bvars => NavInv'
  BY NextNav
<1>3. NavInv => TurnedAwayExplained
  BY DEF NavInv
<1>4. BrowserSpec => [](IInv /\ WalkInv /\ BrowserInv /\ CalmInv)
  BY AlwaysCalm
<1>. QED BY <1>1, <1>2, <1>3, <1>4, PTL DEF BrowserSpec

-----------------------------------------------------------------------------
(* How long a navigation takes.                                            *)

\* The challenges whose pass is in the jar for what the browser sends now.
Won == {c \in Challenges : \E k \in jar : Wins(k, c)}

\* A cookie in a response is one for the request's client and time.
Minted(q) ==
    \A k \in resp[q].cookies :
      /\ k.net = req[q].net /\ k.secret = req[q].secret
      /\ k.exp = Expiration(req[q].time, DefaultDuration)

\* The request came with every pass in the jar.
Brought(q) ==
    pc[q] # "idle" =>
      \A c \in Won : \E k \in req[q].cookies : \E t \in k.tokens :
        CookieOpens(k, req[q], req[q].time) /\ OwnPass(t, req[q]) /\ t.key.chal = c

\* The request's map is what it brought.
OwnMap(q) ==
    pc[q] = "rules" =>
      \A t \in data[q].map :
        \E k \in req[q].cookies : CookieOpens(k, req[q], req[q].time) /\ t \in k.tokens

\* The requests so far are those of the passes in the jar: all of them for a clean
\* page, one less for the page a pass has just been won for.
PaidLoad(q) ==
    tab[q].at = "load" =>
      \/ tab[q].url = Page({}) /\ tab[q].hops <= Cost(Won)
      \/ \E c \in Challenges : tab[q].url = Page({c}) /\ tab[q].hops + 1 <= Cost(Won)
      \/ \E c \in Refreshes \ Won : tab[q].url.path = {c} /\ tab[q].hops <= Cost(Won) + 1

PaidServe(q) ==
    /\ pc[q] = "rules" => /\ tab[q].hops <= Cost(Won) + 1
                          /\ req[q].arg # {} => tab[q].hops <= Cost(Won)
    /\ pc[q] = "verify" =>
         /\ tab[q].hops <= Cost(Won) + 2
         /\ req[q].path \subseteq Refreshes \ Won

\* A response that hands a pass out, or a verify URL, is about a challenge that was
\* not passed before.
PaidDone(q) ==
    pc[q] = "done" =>
      /\ resp[q].kind = "clean" => tab[q].hops <= Cost(Won)
      /\ resp[q].kind \in {"redirect", "challenge"} => tab[q].hops <= Cost(Won) + 1
      /\ resp[q].kind = "verified" => tab[q].hops <= Cost(Won) + 2
      /\ resp[q].kind = "redirect" => resp[q].by \subseteq Challenges \ Won
      /\ resp[q].kind \in {"challenge", "verified"} => resp[q].by \subseteq Refreshes \ Won
      /\ resp[q].kind = "challenge" =>
           \A c \in resp[q].by : \A k \in resp[q].cookies : ~Holds(k, c, req[q])

Paid(q) == Brought(q) /\ OwnMap(q) /\ PaidLoad(q) /\ PaidServe(q) /\ PaidDone(q)

PaidInv ==
    /\ NavigationDirect
    /\ \A q \in Requests : Minted(q) /\ (tab[q].disturbed \/ ~Loading(q) \/ Paid(q))

\* What a set of challenges costs, and what one more adds.
LEMMA CostGrows ==
    ASSUME IsFiniteSet(Challenges), NEW S \in SUBSET Challenges, NEW T \in SUBSET Challenges,
           S \subseteq T
    PROVE  Cost(S) \in Nat /\ Cost(T) \in Nat /\ Cost(S) <= Cost(T)
<1>. DEFINE R(U) == {c \in U : Runtime[c] = "refresh"}
<1>1. IsFiniteSet(T)
  BY FS_Subset
<1>2. /\ IsFiniteSet(S) /\ Cardinality(S) <= Cardinality(T)
      /\ IsFiniteSet(R(T))
  BY <1>1, FS_Subset
<1>3. IsFiniteSet(R(S)) /\ Cardinality(R(S)) <= Cardinality(R(T))
  <2>1. R(S) \in SUBSET R(T)
    OBVIOUS
  <2>. QED BY <1>2, <2>1, FS_Subset
<1>4. /\ Cardinality(S) \in Nat /\ Cardinality(T) \in Nat
      /\ Cardinality(R(S)) \in Nat /\ Cardinality(R(T)) \in Nat
  BY <1>1, <1>2, <1>3, FS_CardinalityType
<1>5. /\ Cost(S) = 2 * Cardinality(S) + Cardinality(R(S))
      /\ Cost(T) = 2 * Cardinality(T) + Cardinality(R(T))
  BY DEF Cost
<1>. HIDE DEF R
<1>. QED BY <1>2, <1>3, <1>4, <1>5

LEMMA CostAdds ==
    ASSUME IsFiniteSet(Challenges), NEW S \in SUBSET Challenges, NEW c \in Challenges \ S
    PROVE  /\ Cost(S \cup {c}) >= Cost(S) + 2
           /\ c \in Refreshes => Cost(S \cup {c}) >= Cost(S) + 3
<1>. DEFINE R(U) == {x \in U : Runtime[x] = "refresh"}
            T == S \cup {c}
<1>1. IsFiniteSet(S)
  BY FS_Subset
<1>2. Cardinality(T) = Cardinality(S) + 1
  BY <1>1, FS_AddElement
<1>3. IsFiniteSet(R(S))
  BY <1>1, FS_Subset
<1>4. Cardinality(R(S)) \in Nat /\ Cardinality(S) \in Nat
  BY <1>1, <1>3, FS_CardinalityType
<1>5. c \in Refreshes => Cardinality(R(T)) = Cardinality(R(S)) + 1
  <2>1. ASSUME c \in Refreshes PROVE R(T) = R(S) \cup {c} /\ c \notin R(S)
    BY <2>1 DEF Refreshes
  <2>2. Cardinality(R(S) \cup {c}) = IF c \in R(S) THEN Cardinality(R(S)) ELSE Cardinality(R(S)) + 1
    BY <1>3, FS_AddElement
  <2>. QED BY <2>1, <2>2
<1>6. c \notin Refreshes => R(T) = R(S)
  BY DEF Refreshes
<1>7. /\ Cost(S) = 2 * Cardinality(S) + Cardinality(R(S))
      /\ Cost(T) = 2 * Cardinality(T) + Cardinality(R(T))
  BY DEF Cost
<1>. HIDE DEF R, T
<1>8. Cost(T) >= Cost(S) + 2 /\ (c \in Refreshes => Cost(T) >= Cost(S) + 3)
  BY <1>2, <1>4, <1>5, <1>6, <1>7
<1>. QED BY <1>8 DEF T

LEMMA WonType == Won \in SUBSET Challenges
BY DEF Won

LEMMA WonCost ==
    ASSUME IsFiniteSet(Challenges)
    PROVE  Cost(Won) \in Nat /\ Cost(Challenges) \in Nat /\ Cost(Won) <= Cost(Challenges)
BY CostGrows, WonType

\* Nothing is won or lost while the browser and what it holds stay the same.
LEMMA WonFrame ==
    ASSUME UNCHANGED <<clock, secret, net, jar>>
    PROVE  Won' = Won
<1>1. \A c : KeyNow(c)' = KeyNow(c)
  BY DEF KeyNow
<1>2. \A c, k : Wins(k, c)' = Wins(k, c)
  BY <1>1 DEF Wins
<1>. QED BY <1>2 DEF Won

LEMMA PaidFrame ==
    ASSUME NEW q \in Requests, Paid(q), Won' = Won, tab'[q].at = tab[q].at,
           tab'[q].url = tab[q].url, tab'[q].hops = tab[q].hops,
           req'[q] = req[q], pc'[q] = pc[q], data'[q] = data[q], resp'[q] = resp[q]
    PROVE  Paid(q)'
<1>1. Cost(Won)' = Cost(Won)
  BY DEF Cost
<1>2. Brought(q)' /\ OwnMap(q)'
  BY DEF Paid, Brought, OwnMap
<1>3. PaidLoad(q)'
  BY <1>1 DEF Paid, PaidLoad
<1>4. PaidServe(q)'
  BY <1>1 DEF Paid, PaidServe
<1>5. PaidDone(q)'
  BY <1>1 DEF Paid, PaidDone, Holds
<1>. QED BY <1>2, <1>3, <1>4, <1>5 DEF Paid

LEMMA InitPaid == IsFiniteSet(Challenges) /\ BrowserInit => PaidInv
<1>. SUFFICES ASSUME IsFiniteSet(Challenges), BrowserInit PROVE PaidInv
  OBVIOUS
<1>1. \A q \in Requests : tab[q] = Closed /\ resp[q] = NoResponse
  BY DEF BrowserInit, Init
<1>2. Closed.at = "closed" /\ Closed.hops = 0 /\ NoResponse.cookies = {}
  BY DEF Closed, NoResponse
<1>. HIDE DEF Closed, NoResponse
<1>3. NavigationDirect
  BY <1>1, <1>2, WonCost DEF NavigationDirect
<1>. QED BY <1>1, <1>2, <1>3 DEF PaidInv, Minted, Loading

LEMMA OpenPaid ==
    ASSUME IsFiniteSet(Challenges), WalkInv, BrowserInv, PaidInv, NEW q \in Requests, Open(q)
    PROVE  PaidInv'
<1>1. /\ tab'[q].at = "load" /\ tab'[q].url = Page({}) /\ tab'[q].hops = 0
      /\ \A p \in Requests \ {q} : tab'[p] = tab[p]
      /\ pc'[q] = "idle" /\ UNCHANGED <<req, pc, data, resp, clock, secret, net, jar>>
  BY OpenTabs
<1>2. Won' = Won /\ Cost(Won)' = Cost(Won) /\ Cost(Won) \in Nat /\ Cost(Challenges) \in Nat
  BY <1>1, WonFrame, WonCost DEF Cost
<1>3. NavigationDirect'
  BY <1>1, <1>2 DEF PaidInv, NavigationDirect
<1>4. \A p \in Requests : Minted(p)'
  BY <1>1 DEF PaidInv, Minted
<1>5. ASSUME NEW p \in Requests \ {q} PROVE (tab[p].disturbed \/ ~Loading(p) \/ Paid(p))'
  BY <1>1, <1>2, PaidFrame DEF PaidInv, Loading
<1>6. Paid(q)'
  BY <1>1, <1>2 DEF Paid, Brought, OwnMap, PaidLoad, PaidServe, PaidDone
<1>. QED BY <1>3, <1>4, <1>5, <1>6 DEF PaidInv

\* A request is counted once.
LEMMA SendHops ==
    ASSUME BrowserInv, NEW q \in Requests, Send(q)
    PROVE  tab[q].hops \in Nat /\ tab'[q].hops \in Nat /\ tab'[q].hops <= tab[q].hops + 1
<1>1. tab \in [Requests -> Tab] /\ tab[q] \in Tab /\ tab[q].hops \in Nat
  BY DEF BrowserInv, Tab
<1>2. PICK eligible :
        tab' = [tab EXCEPT ![q].at = "wait", ![q].hops = IF @ > MaxHops THEN @ ELSE @ + 1,
                           ![q].disturbed = @ \/ eligible # Conditioned]
  BY DEF Send
<1>. DEFINE b == tab[q].disturbed \/ eligible # Conditioned
            h == IF tab[q].hops > MaxHops THEN tab[q].hops ELSE tab[q].hops + 1
<1>3. tab' = [tab EXCEPT ![q] = [tab[q] EXCEPT !.at = "wait", !.hops = h, !.disturbed = b]]
  BY <1>1, <1>2
<1>4. h \in Nat /\ h <= tab[q].hops + 1
  BY <1>1, BrowserAssumption
<1>. HIDE DEF b, h
<1>5. tab'[q].hops = h
  BY <1>1, <1>3 DEF Tab
<1>. QED BY <1>1, <1>4, <1>5

LEMMA SendPaid ==
    ASSUME IsFiniteSet(Challenges), IInv, WalkInv, BrowserInv, PaidInv, SteadyBrowser,
           NEW q \in Requests, Send(q)
    PROVE  PaidInv'
<1>1. PICK r \in Request :
        /\ Accept(q, r) /\ r.time = clock /\ r.secret = secret
        /\ r.net = net /\ r.cookies = {k \in jar : k.net = net /\ k.exp >= clock}
        /\ r.path = tab[q].url.path /\ r.arg = tab[q].url.arg
        /\ \A p \in Requests \ {q} : tab'[p] = tab[p]
        /\ tab'[q].at = "wait"
        /\ tab[q].disturbed \/ r.eligible # Conditioned => tab'[q].disturbed
  BY SendFacts
<1>2. /\ tab[q].at = "load" /\ UNCHANGED <<clock, secret, jar, net, resp>> /\ pc[q] = "idle"
      /\ pc'[q] = (IF r.path = {} THEN "rules" ELSE "verify") /\ req'[q] = r
      /\ \A p \in Requests \ {q} : req'[p] = req[p] /\ pc'[p] = pc[p] /\ data'[p] = data[p]
  BY <1>1, SendServe
<1>3. /\ Won' = Won /\ Cost(Won)' = Cost(Won)
      /\ Cost(Won) \in Nat /\ Cost(Challenges) \in Nat /\ Cost(Won) <= Cost(Challenges)
  BY <1>2, WonFrame, WonCost DEF Cost
<1>4. tab[q].hops \in Nat /\ tab'[q].hops \in Nat /\ tab'[q].hops <= tab[q].hops + 1
  BY SendHops
<1>5. \A p \in Requests : Minted(p)'
  <2>1. resp'[q].cookies = {}
    BY <1>2 DEF WalkInv, Walk, IdleClean
  <2>. QED BY <1>2, <2>1 DEF PaidInv, Minted
<1>6. ASSUME NEW p \in Requests \ {q} PROVE (tab[p].disturbed \/ ~Loading(p) \/ Paid(p))'
  BY <1>1, <1>2, <1>3, PaidFrame DEF PaidInv, Loading
<1>7. ASSUME ~tab'[q].disturbed PROVE Paid(q)' /\ tab'[q].hops <= Cost(Challenges) + 1
  <2>1. \/ tab[q].url = Page({}) /\ tab[q].hops <= Cost(Won)
        \/ \E c \in Challenges : tab[q].url = Page({c}) /\ tab[q].hops + 1 <= Cost(Won)
        \/ \E c \in Refreshes \ Won : tab[q].url.path = {c} /\ tab[q].hops <= Cost(Won) + 1
    BY <1>1, <1>2, <1>7 DEF PaidInv, Paid, PaidLoad, Loading
  <2>2. Brought(q)' /\ OwnMap(q)'
    <3>1. ASSUME NEW c \in Won
          PROVE  \E k \in r.cookies : \E t \in k.tokens :
                   CookieOpens(k, r, r.time) /\ OwnPass(t, r) /\ t.key.chal = c
      <4>1. PICK k \in jar : Wins(k, c) /\ c \in Challenges
        BY <3>1 DEF Won
      <4>. QED BY <1>1, <4>1, WonBrought
    <3>2. PICK spots : data'[q] = EvaluateChallenges(r, clock, spots)
      BY <1>1, SendServe
    <3>3. data'[q].map \subseteq UNION {k.tokens : k \in {x \in r.cookies : CookieOpens(x, r, clock)}}
      BY <3>2 DEF EvaluateChallenges, VerifyChallengeState
    <3>4. OwnMap(q)'
      BY <1>1, <1>2, <3>3 DEF OwnMap
    <3>. QED BY <1>2, <1>3, <3>1, <3>4 DEF Brought
  <2>3. CASE tab[q].url = Page({}) /\ tab[q].hops <= Cost(Won)
    <3>1. r.path = {} /\ r.arg = {}
      BY <1>1, <2>3, UrlReads
    <3>2. tab'[q].hops <= Cost(Won) + 1
      BY <1>3, <1>4, <2>3
    <3>3. PaidServe(q)'
      BY <1>2, <1>3, <3>1, <3>2 DEF PaidServe
    <3>. QED BY <1>1, <1>2, <1>3, <1>4, <2>2, <3>1, <3>2, <3>3 DEF Paid, PaidLoad, PaidDone
  <2>4. CASE \E c \in Challenges : tab[q].url = Page({c}) /\ tab[q].hops + 1 <= Cost(Won)
    <3>1. r.path = {}
      BY <1>1, <2>4, UrlReads
    <3>2. tab'[q].hops <= Cost(Won)
      BY <1>3, <1>4, <2>4
    <3>3. tab'[q].hops <= Cost(Won) + 1
      BY <1>3, <1>4, <3>2
    <3>4. PaidServe(q)'
      BY <1>2, <1>3, <3>1, <3>2, <3>3 DEF PaidServe
    <3>. QED BY <1>1, <1>2, <1>3, <1>4, <2>2, <3>1, <3>3, <3>4 DEF Paid, PaidLoad, PaidDone
  <2>5. CASE \E c \in Refreshes \ Won : tab[q].url.path = {c} /\ tab[q].hops <= Cost(Won) + 1
    <3>1. PICK c \in Refreshes \ Won : tab[q].url.path = {c} /\ tab[q].hops <= Cost(Won) + 1
      BY <2>5
    <3>2. tab'[q].hops <= Cost(Won) + 2
      BY <1>3, <1>4, <3>1
    <3>3. PaidServe(q)'
      BY <1>1, <1>2, <1>3, <3>1, <3>2 DEF PaidServe
    <3>4. tab'[q].hops <= Cost(Challenges) + 1
      <4>1. c \in Challenges \ Won /\ Won \cup {c} \in SUBSET Challenges
        BY <3>1, WonType DEF Refreshes
      <4>2. Cost(Won \cup {c}) >= Cost(Won) + 3
        BY <3>1, <4>1, WonType, CostAdds
      <4>3. Cost(Won \cup {c}) \in Nat /\ Cost(Won \cup {c}) <= Cost(Challenges)
        BY <4>1, CostGrows
      <4>. QED BY <1>3, <1>4, <3>2, <4>2, <4>3
    <3>. QED BY <1>1, <1>2, <2>2, <3>1, <3>3, <3>4 DEF Paid, PaidLoad, PaidDone
  <2>. QED BY <2>1, <2>3, <2>4, <2>5
<1>8. NavigationDirect'
  BY <1>1, <1>7 DEF PaidInv, NavigationDirect
<1>. QED BY <1>5, <1>6, <1>7, <1>8 DEF PaidInv

\* A pass the request brought is valid.
LEMMA WonOk ==
    ASSUME WalkInv, NEW q \in Requests, Brought(q), pc[q] # "idle", NEW c \in Won
    PROVE  Ok(data[q].verify[c])
BY DEF Brought, WalkInv, Walk, Carried

LEMMA ServerPaid ==
    ASSUME IsFiniteSet(Challenges), IInv, WalkInv, BrowserInv, PaidInv, NEW q \in Requests, Server(q)
    PROVE  PaidInv'
<1>1. /\ Handle(q) /\ UrlsParse(q) /\ UNCHANGED <<clock, secret, req, jar, net, tab>>
      /\ pc[q] \in {"rules", "verify"} /\ tab[q].at = "wait"
      /\ \A p \in Requests \ {q} : pc'[p] = pc[p] /\ data'[p] = data[p] /\ resp'[p] = resp[p]
  BY ServerFrame
<1>2. /\ Won' = Won /\ Cost(Won)' = Cost(Won) /\ Cost(Won) \in Nat
      /\ tab[q].hops \in Nat
  BY <1>1, WonFrame, WonCost DEF Cost, BrowserInv, Tab
<1>3. \A p \in Requests : Minted(p)'
  <2>1. PICK d \in RequestData : ServeEffect(q, d)
    BY <1>1, ServeHasEffect DEF Serve
  <2>2. resp' = resp \/ \E kind, by : \E cookies \in SUBSET ResponseCookies(d, req[q]) :
                          Reply(q, d, kind, by, cookies)
    BY <2>1 DEF ServeEffect, Moves, NextRule, NextChallenge, RuleMiss
  <2>3. CASE resp' = resp
    BY <1>1, <2>3 DEF PaidInv, Minted
  <2>4. ASSUME NEW kind, NEW by, NEW cookies \in SUBSET ResponseCookies(d, req[q]),
               Reply(q, d, kind, by, cookies)
        PROVE  Minted(q)'
    <3>1. resp'[q] = [kind |-> kind, by |-> by, cookies |-> cookies]
      BY <2>4 DEF Reply, IInv, TypeOK
    <3>2. resp'[q].cookies = cookies
      BY <3>1
    <3>3. \A k \in cookies : /\ k.net = req[q].net /\ k.secret = req[q].secret
                             /\ k.exp = Expiration(req[q].time, DefaultDuration)
      BY DEF ResponseCookies
    <3>. QED BY <1>1, <3>2, <3>3 DEF Minted
  <2>5. \A p \in Requests \ {q} : Minted(p)'
    BY <1>1 DEF PaidInv, Minted
  <2>. QED BY <2>2, <2>3, <2>4, <2>5
<1>4. ASSUME NEW p \in Requests \ {q} PROVE (tab[p].disturbed \/ ~Loading(p) \/ Paid(p))'
  BY <1>1, <1>2, PaidFrame DEF PaidInv, Loading
<1>5. ASSUME Paid(q) PROVE Paid(q)'
  <2>1. Brought(q) /\ OwnMap(q) /\ PaidServe(q) /\ \A c \in Won : Ok(data[q].verify[c])
    BY <1>1, <1>5, WonOk DEF Paid
  <2>2. Brought(q)' /\ PaidLoad(q)'
    BY <1>1, <1>2, <2>1 DEF Brought, PaidLoad
  <2>3. CASE pc'[q] = pc[q] /\ data'[q] = data[q]
    BY <1>1, <1>2, <2>1, <2>2, <2>3 DEF Paid, OwnMap, PaidServe, PaidDone
  <2>4. CASE pc'[q] = "done" /\ Answers(q)
    <3>1. PaidServe(q)'
      BY <2>4 DEF PaidServe
    <3>2. resp'[q].kind = "clean" => tab[q].hops <= Cost(Won)
      BY <2>1, <2>4 DEF Answers, PaidServe
    <3>3. resp'[q].kind \in {"redirect", "challenge"} => tab[q].hops <= Cost(Won) + 1
      BY <2>1, <2>4 DEF Answers, PaidServe
    <3>4. resp'[q].kind = "verified" => tab[q].hops <= Cost(Won) + 2
      BY <2>1, <2>4 DEF Answers, PaidServe
    <3>5. resp'[q].kind = "redirect" => resp'[q].by \subseteq Challenges \ Won
      BY <2>1, <2>4 DEF Answers
    <3>6. resp'[q].kind = "challenge" => resp'[q].by \subseteq Refreshes \ Won
      BY <2>1, <2>4 DEF Answers
    <3>7. resp'[q].kind = "verified" => resp'[q].by \subseteq Refreshes \ Won
      BY <2>1, <2>4 DEF Answers, PaidServe
    <3>8. ASSUME resp'[q].kind = "challenge", NEW c \in resp'[q].by, NEW k \in resp'[q].cookies
          PROVE  ~Holds(k, c, req[q])
      <4>1. /\ pc[q] = "rules" /\ c \in Challenges /\ ~Ok(data[q].verify[c])
            /\ k.tokens = data[q].map
        BY <2>4, <3>8 DEF Answers, Refreshes
      <4>2. ASSUME NEW t \in data[q].map, t.ok = TRUE, t.key = KeyFor(c, req[q]) PROVE FALSE
        <5>1. t.key.chal = c
          BY <4>2 DEF KeyFor
        <5>2. OwnPass(t, req[q])
          BY <4>1, <4>2, <5>1, RegistrationAssumption, BrowserAssumption DEF OwnPass
        <5>3. Ok(data[q].verify[c])
          BY <2>1, <4>1, <4>2, <5>1, <5>2 DEF OwnMap, WalkInv, Walk, Carried
        <5>. QED BY <4>1, <5>3
      <4>. QED BY <4>1, <4>2 DEF Holds
    <3>9. PaidDone(q)'
      BY <1>1, <1>2, <3>2, <3>3, <3>4, <3>5, <3>6, <3>7, <3>8 DEF PaidDone, Holds
    <3>. QED BY <2>2, <2>4, <3>1, <3>9 DEF Paid, OwnMap
  <2>. QED BY <1>1, <2>3, <2>4, ServerAnswers
<1>6. NavigationDirect'
  BY <1>1 DEF PaidInv, NavigationDirect
<1>7. (tab[q].disturbed \/ ~Loading(q) \/ Paid(q))'
  BY <1>1, <1>5 DEF PaidInv, Loading
<1>. QED BY <1>3, <1>4, <1>6, <1>7 DEF PaidInv

LEMMA ReceiveHops ==
    ASSUME BrowserInv, NEW q \in Requests, Receive(q), NEW p \in Requests
    PROVE  tab'[p].hops = tab[p].hops
<1>. DEFINE others == IF resp[q].cookies = {} THEN {} ELSE Requests \ {q}
            D == Disturb(others)
<1>1. ASSUME NEW x \in Requests PROVE D[x].hops = tab[x].hops /\ D[x] \in Tab
  <2>. DEFINE b == tab[x].disturbed \/ (x \in others /\ Loading(x))
  <2>1. D[x] = [tab[x] EXCEPT !.disturbed = b]
    BY DEF Disturb
  <2>. HIDE DEF b
  <2>2. tab[x] \in Tab /\ D[x] \in Tab
    BY DisturbedTab DEF BrowserInv, SameTab
  <2>. HIDE DEF D
  <2>. QED BY <2>1, <2>2 DEF Tab
<1>2. \/ tab' = [D EXCEPT ![q].at = "ended", ![q].end = resp[q].kind]
      \/ \E url : tab' = [D EXCEPT ![q].at = "load", ![q].url = url]
  BY DEF Receive
<1>3. DOMAIN D = Requests
  BY DisturbDomain
<1>. HIDE DEF D, others
<1>4. CASE tab' = [D EXCEPT ![q].at = "ended", ![q].end = resp[q].kind]
  <2>1. tab'[p] = IF p = q THEN [D[q] EXCEPT !.at = "ended", !.end = resp[q].kind] ELSE D[p]
    BY <1>3, <1>4
  <2>. QED BY <1>1, <2>1 DEF Tab
<1>5. ASSUME NEW url, tab' = [D EXCEPT ![q].at = "load", ![q].url = url]
      PROVE  tab'[p].hops = tab[p].hops
  <2>1. tab'[p] = IF p = q THEN [D[q] EXCEPT !.at = "load", !.url = url] ELSE D[p]
    BY <1>3, <1>5
  <2>. QED BY <1>1, <2>1 DEF Tab
<1>. QED BY <1>2, <1>4, <1>5

\* The browser's own response takes no pass out of the jar, and one that hands a pass
\* out adds it.
LEMMA ReceiveWins ==
    ASSUME IInv, WalkInv, BrowserInv, SteadyBrowser, NEW q \in Requests, Receive(q),
           Calm(q), Minted(q), Brought(q)
    PROVE  /\ Won \subseteq Won'
           /\ resp[q].kind \in {"redirect", "verified"} => resp[q].by \subseteq Won'
<1>1. /\ pc[q] = "done" /\ UNCHANGED <<clock, secret, net>>
      /\ jar' = Stored(resp[q].cookies) /\ tab[q].at = "wait"
  BY ReceiveFrame
<1>2. /\ req[q].net = net /\ req[q].secret = secret
      /\ \A c \in Challenges : KeyFor(c, req[q]) = KeyNow(c)
      /\ Expiration(req[q].time, DefaultDuration) = Expiration(clock, DefaultDuration)
      /\ UpToDate(q)
  BY <1>1 DEF Calm, UpToDate
<1>3. ASSUME NEW c \in Challenges, NEW k \in jar', Wins(k, c) PROVE c \in Won'
  <2>1. KeyNow(c)' = KeyNow(c)
    BY <1>1 DEF KeyNow
  <2>2. Wins(k, c)'
    BY <1>1, <1>3, <2>1 DEF Wins
  <2>. QED BY <2>2 DEF Won
<1>4. resp[q].cookies \subseteq jar'
  BY <1>1 DEF Stored, SteadyBrowser
<1>5. Won \subseteq Won'
  <2>1. CASE resp[q].cookies = {}
    <3>1. jar' = jar
      BY <1>1, <2>1 DEF Stored, SteadyBrowser
    <3>. QED BY <1>1, <3>1, WonFrame
  <2>2. ASSUME NEW k \in resp[q].cookies, NEW c \in Won PROVE c \in Won'
    <3>1. c \in Challenges
      BY WonType
    <3>2. PICK old \in req[q].cookies : \E t \in old.tokens :
            CookieOpens(old, req[q], req[q].time) /\ OwnPass(t, req[q]) /\ t.key.chal = c
      BY <1>1 DEF Brought
    <3>3. PICK t \in old.tokens :
            CookieOpens(old, req[q], req[q].time) /\ OwnPass(t, req[q]) /\ t.key.chal = c
      BY <3>2
    <3>4. PICK u \in data[q].map : u.ok = TRUE /\ u.key = t.key
      BY <3>3 DEF WalkInv, Walk, Carried
    <3>5. u \in k.tokens
      BY <3>4 DEF WalkInv, Walk, CookieIsMap
    <3>6. u.key = KeyNow(c)
      BY <1>2, <3>1, <3>3, <3>4 DEF OwnPass
    <3>7. Wins(k, c)
      BY <1>2, <3>4, <3>5, <3>6 DEF Wins, Minted
    <3>. QED BY <1>3, <1>4, <3>1, <3>7
  <2>. QED BY <2>1, <2>2
<1>6. ASSUME resp[q].kind \in {"redirect", "verified"} PROVE resp[q].by \subseteq Won'
  <2>1. PICK c \in Challenges, k \in resp[q].cookies : resp[q].by = {c} /\ Holds(k, c, req[q])
    BY <1>1, <1>6 DEF Calm, Handed
  <2>2. Wins(k, c)
    BY <1>1, <1>2, <2>1, HoldsWins
  <2>. QED BY <1>3, <1>4, <2>1, <2>2
<1>. QED BY <1>5, <1>6

\* A pass that is neither in the jar nor in the response is not won.
LEMMA ReceiveShows ==
    ASSUME IInv, BrowserInv, SteadyBrowser, NEW q \in Requests, Receive(q), Calm(q), Minted(q),
           NEW c \in Challenges \ Won, \A k \in resp[q].cookies : ~Holds(k, c, req[q])
    PROVE  c \notin Won'
<1>. SUFFICES ASSUME c \in Won' PROVE FALSE
  OBVIOUS
<1>1. /\ UNCHANGED <<clock, secret, net>> /\ jar' = Stored(resp[q].cookies) /\ tab[q].at = "wait"
  BY ReceiveFrame
<1>2. PICK k \in jar' : Wins(k, c)'
  BY DEF Won
<1>3. KeyNow(c)' = KeyNow(c)
  BY <1>1 DEF KeyNow
<1>4. Wins(k, c)
  BY <1>1, <1>2, <1>3 DEF Wins
<1>5. /\ req[q].net = net /\ req[q].secret = secret /\ KeyFor(c, req[q]) = KeyNow(c)
      /\ Expiration(req[q].time, DefaultDuration) = Expiration(clock, DefaultDuration)
  BY <1>1 DEF Calm, UpToDate
<1>6. Holds(k, c, req[q])
  BY <1>4, <1>5 DEF Holds, Wins
<1>7. k \notin jar
  BY <1>4 DEF Won
<1>. QED BY <1>1, <1>2, <1>6, <1>7 DEF Stored, SteadyBrowser

LEMMA ReceivePaidOwn ==
    ASSUME IsFiniteSet(Challenges), IInv, WalkInv, BrowserInv, SteadyBrowser,
           NEW q \in Requests, Receive(q), Calm(q), Minted(q), Paid(q)
    PROVE  (~Loading(q) \/ Paid(q))'
<1>1. pc[q] = "done" /\ pc'[q] = "idle" /\ tab[q].at = "wait"
  BY ReceiveFrame
<1>2. PaidDone(q) /\ resp[q].kind \notin {"refused", "retry"}
  BY <1>1 DEF Paid, Calm, Handed
<1>3. tab'[q].hops = tab[q].hops /\ tab[q].hops \in Nat
  BY ReceiveHops DEF BrowserInv, Tab
<1>4. PICK W \in SUBSET Challenges : Won' = W
  BY DEF Won
<1>5. /\ Won \subseteq W
      /\ resp[q].kind \in {"redirect", "verified"} => resp[q].by \subseteq W
  BY <1>4, ReceiveWins DEF Paid
<1>6. Cost(Won) \in Nat /\ Cost(W) \in Nat /\ Cost(Won) <= Cost(W) /\ Cost(Won)' = Cost(W)
  BY <1>4, <1>5, WonType, CostGrows DEF Cost
<1>7. CASE tab'[q].at = "ended"
  BY <1>7 DEF Loading
<1>8. CASE tab'[q].at = "load" /\ tab'[q].url \in Follow(req[q], resp[q])
  <2>0. PICK url \in Follow(req[q], resp[q]) : tab'[q].url = url
    BY <1>8
  <2>1. req[q] \in Request /\ resp[q] \in Response /\ Named(q)
    BY DEF IInv, TypeOK, BrowserInv
  <2>2. /\ \/ resp[q].kind \in {"clean", "retry"}
           \/ resp[q].kind \in {"redirect", "verified"}
                /\ \E c \in Challenges : resp[q].by = {c} /\ url = Page({c})
           \/ resp[q].kind = "challenge"
                /\ \E c \in Challenges : resp[q].by = {c} /\ url = VerifyUrl(c, KeyFor(c, req[q]))
        /\ resp[q].kind = "clean" => url = Page({})
    <3>1. resp[q].kind \in Naming => \E c \in Challenges : resp[q].by = {c}
      BY <2>1 DEF Named
    <3>2. PICK r \in Request, response \in Response : r = req[q] /\ response = resp[q]
      BY <2>1
    <3>3. url \in Follow(r, response) /\ (response.kind \in Naming => \E c \in Challenges : response.by = {c})
      BY <3>1, <3>2
    <3>4. /\ \/ response.kind \in {"clean", "retry"}
             \/ response.kind \in {"redirect", "verified"}
                  /\ \E c \in Challenges : response.by = {c} /\ url = Page({c})
             \/ response.kind = "challenge"
                  /\ \E c \in Challenges : response.by = {c} /\ url = VerifyUrl(c, KeyFor(c, r))
          /\ response.kind = "clean" => url = Page({})
      BY <3>3, FollowFacts
    <3>. QED BY <3>2, <3>4
  <2>3. PaidLoad(q)'
    <3>1. CASE resp[q].kind = "clean"
      <4>1. tab[q].hops <= Cost(W)
        BY <1>1, <1>2, <1>3, <1>6, <3>1 DEF PaidDone
      <4>. QED BY <1>3, <1>6, <2>0, <2>2, <3>1, <4>1 DEF PaidLoad
    <3>2. CASE resp[q].kind \in {"redirect", "verified"}
      <4>1. PICK c \in Challenges : resp[q].by = {c} /\ url = Page({c})
        BY <2>2, <3>2
      <4>2. c \in Challenges \ Won /\ Won \cup {c} \subseteq W
        BY <1>1, <1>2, <1>5, <3>2, <4>1 DEF PaidDone
      <4>3. Cost(Won \cup {c}) \in Nat /\ Cost(Won \cup {c}) <= Cost(W)
        BY <4>2, CostGrows
      <4>4. /\ Cost(Won \cup {c}) >= Cost(Won) + 2
            /\ c \in Refreshes => Cost(Won \cup {c}) >= Cost(Won) + 3
        BY <4>2, WonType, CostAdds
      <4>5. CASE resp[q].kind = "redirect"
        <5>1. tab[q].hops <= Cost(Won) + 1
          BY <1>1, <1>2, <4>5 DEF PaidDone
        <5>2. tab[q].hops + 1 <= Cost(W)
          BY <1>3, <1>6, <4>3, <4>4, <5>1
        <5>. QED BY <1>3, <1>6, <2>0, <4>1, <5>2 DEF PaidLoad
      <4>6. CASE resp[q].kind = "verified"
        <5>1. tab[q].hops <= Cost(Won) + 2 /\ c \in Refreshes
          BY <1>1, <1>2, <4>1, <4>6 DEF PaidDone
        <5>2. tab[q].hops + 1 <= Cost(W)
          BY <1>3, <1>6, <4>3, <4>4, <5>1
        <5>. QED BY <1>3, <1>6, <2>0, <4>1, <5>2 DEF PaidLoad
      <4>. QED BY <3>2, <4>5, <4>6
    <3>3. CASE resp[q].kind = "challenge"
      <4>1. PICK c \in Challenges : resp[q].by = {c} /\ url = VerifyUrl(c, KeyFor(c, req[q]))
        BY <2>2, <3>3
      <4>2. c \in Refreshes \ Won /\ tab[q].hops <= Cost(Won) + 1
        BY <1>1, <1>2, <3>3, <4>1 DEF PaidDone
      <4>3. url.path = {c}
        BY <4>1, UrlReads
      <4>4. c \notin Won'
        BY <1>1, <1>2, <3>3, <4>1, <4>2, ReceiveShows DEF PaidDone
      <4>5. tab[q].hops <= Cost(W) + 1
        BY <1>3, <1>6, <4>2
      <4>. QED BY <1>3, <1>6, <2>0, <4>2, <4>3, <4>4, <4>5 DEF PaidLoad
    <3>. QED BY <1>2, <2>2, <3>1, <3>2, <3>3
  <2>. QED BY <1>1, <2>3 DEF Paid, Brought, OwnMap, PaidServe, PaidDone
<1>. QED BY <1>7, <1>8, ReceiveTabs


LEMMA ReceivePaid ==
    ASSUME IsFiniteSet(Challenges), IInv, WalkInv, BrowserInv, CalmInv, PaidInv, SteadyBrowser,
           NEW q \in Requests, Receive(q)
    PROVE  PaidInv'
<1>1. /\ tab'[q].disturbed = tab[q].disturbed
      /\ \A p \in Requests \ {q} : SameTab(tab'[p], tab[p])
      /\ \A p \in Requests : tab'[p].hops = tab[p].hops
  BY ReceiveTabs, ReceiveHops
<1>2. /\ tab[q].at = "wait" /\ UNCHANGED <<clock, secret, net>> /\ resp'[q] = NoResponse
      /\ \A p \in Requests \ {q} : /\ req'[p] = req[p] /\ pc'[p] = pc[p]
                                   /\ data'[p] = data[p] /\ resp'[p] = resp[p]
  BY ReceiveFrame
<1>3. NavigationDirect'
  BY <1>1 DEF SameTab, PaidInv, NavigationDirect
<1>4. \A p \in Requests : Minted(p)'
  <2>1. resp'[q].cookies = {}
    BY <1>2 DEF NoResponse
  <2>. QED BY <1>2, <2>1 DEF PaidInv, Minted
<1>5. ASSUME NEW p \in Requests \ {q} PROVE (tab[p].disturbed \/ ~Loading(p) \/ Paid(p))'
  <2>1. tab'[p].at = tab[p].at /\ tab'[p].url = tab[p].url
    BY <1>1 DEF SameTab
  <2>2. CASE ~Loading(p)
    BY <2>1, <2>2 DEF Loading
  <2>3. CASE jar' = jar /\ ~tab[p].disturbed
    <3>1. Won' = Won
      BY <1>2, <2>3, WonFrame
    <3>2. ~Loading(p) \/ Paid(p)
      BY <2>3 DEF PaidInv
    <3>. QED BY <1>1, <1>2, <2>1, <2>2, <3>1, <3>2, PaidFrame
  <2>. QED BY <2>2, <2>3, OtherTab
<1>6. (tab[q].disturbed \/ ~Loading(q) \/ Paid(q))'
  <2>1. CASE ~tab[q].disturbed
    <3>1. Calm(q) /\ Minted(q) /\ Paid(q)
      BY <1>2, <2>1 DEF CalmInv, PaidInv, Loading
    <3>. QED BY <3>1, ReceivePaidOwn
  <2>. QED BY <1>1, <2>1
<1>. QED BY <1>3, <1>4, <1>5, <1>6 DEF PaidInv

LEMMA OutsidePaid ==
    ASSUME IsFiniteSet(Challenges), BrowserInv, PaidInv, BrowserTick \/ Upgrade
    PROVE  PaidInv'
<1>1. UNCHANGED <<req, pc, data, resp>>
  BY DEF BrowserTick, Upgrade, Tick, vars
<1>2. \A q \in Requests : Minted(q)'
  BY <1>1 DEF PaidInv, Minted
<1>3. CASE \A q \in Requests : /\ SameTab(tab'[q], tab[q]) /\ tab'[q].hops = 0
                               /\ Loading(q) => tab'[q].disturbed
  <2>1. NavigationDirect'
    BY <1>3, WonCost DEF NavigationDirect
  <2>2. \A q \in Requests : (tab[q].disturbed \/ ~Loading(q))'
    BY <1>3 DEF SameTab, Loading
  <2>. QED BY <1>2, <2>1, <2>2 DEF PaidInv
<1>4. CASE BrowserTick /\ ~Rotates /\ tab' = tab
  <2>1. Won' = Won
    BY <1>4, QuietTick DEF Won
  <2>2. \A q \in Requests : (tab[q].disturbed \/ ~Loading(q) \/ Paid(q))'
    BY <1>1, <1>4, <2>1, PaidFrame DEF PaidInv, Loading
  <2>3. NavigationDirect'
    BY <1>4 DEF PaidInv, NavigationDirect
  <2>. QED BY <1>2, <2>2, <2>3 DEF PaidInv
<1>. QED BY <1>3, <1>4, OutsideCases

LEMMA NextPaid ==
    ASSUME IsFiniteSet(Challenges), IInv, WalkInv, BrowserInv, CalmInv, PaidInv, SteadyBrowser,
           [BrowserNext]_bvars
    PROVE  PaidInv'
<1>1. CASE UNCHANGED bvars
  <2>1. UNCHANGED <<req, pc, data, resp, clock, secret, net, jar, tab>>
    BY <1>1 DEF bvars, vars
  <2>2. Won' = Won
    BY <2>1, WonFrame
  <2>3. \A q \in Requests : (tab[q].disturbed \/ ~Loading(q) \/ Paid(q))'
    BY <2>1, <2>2, PaidFrame DEF PaidInv, Loading
  <2>4. NavigationDirect' /\ \A q \in Requests : Minted(q)'
    BY <2>1 DEF PaidInv, NavigationDirect, Minted
  <2>. QED BY <2>3, <2>4 DEF PaidInv
<1>2. CASE BrowserNext
  BY <1>2, OpenPaid, SendPaid, ServerPaid, ReceivePaid, OutsidePaid DEF BrowserNext
<1>. QED BY <1>1, <1>2

\* Whatever the rules of a policy of cookie and refresh challenges are, a browser that
\* keeps its cookies and headers needs no more requests for a page than it takes to
\* pass each challenge once, unless another tab's response, a rotation, a change of
\* network or a precondition comes between: go-away never shows it a challenge it has
\* already passed (Challenge.Handle, EvaluateChallenges, IssueChallengeToken and
\* ResponseHeaders together).
THEOREM StraightThrough ==
    ASSUME IsFiniteSet(Challenges), SteadyBrowser
    PROVE  BrowserSpec => []NavigationDirect
<1>1. BrowserInit => PaidInv
  BY InitPaid
<1>2. IInv /\ WalkInv /\ BrowserInv /\ CalmInv /\ PaidInv /\ [BrowserNext]_bvars => PaidInv'
  BY NextPaid
<1>3. PaidInv => NavigationDirect
  BY DEF PaidInv
<1>4. BrowserSpec => [](IInv /\ WalkInv /\ BrowserInv /\ CalmInv)
  BY AlwaysCalm
<1>. QED BY <1>1, <1>2, <1>3, <1>4, PTL DEF BrowserSpec

=============================================================================
