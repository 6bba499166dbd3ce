------------------------------ MODULE BrowserFlow ------------------------------
(***************************************************************************)
(* Browsers in front of the request flow.  RequestFlow's clients may send  *)
(* anything at any time; here is one honest browser with tabs that follow  *)
(* redirects, solve the challenges they are shown and share a cookie jar,  *)
(* or one that keeps no cookies.  Meanwhile the clock runs and the         *)
(* connection may move from IPv4 to IPv6 (Happy Eyeballs).  A tab is a     *)
(* slot of Requests.  The site has a backend, its URLs parse.              *)
(***************************************************************************)
EXTENDS RequestFlow

CONSTANTS
    KeepsCookies,   \* does the browser send back the cookies it is given?
    MaxHops         \* requests one navigation may take; the count stops at one more

ASSUME BrowserAssumption ==
    /\ KeepsCookies \in BOOLEAN /\ MaxHops \in Nat
    /\ \A c \in Challenges : Runtime[c] \in {"cookie", "refresh"}

VARIABLES
    jar,    \* the state cookies of the browser, one per network as their names differ
    net,    \* the network the browser connects from
    tab     \* tab[q]: what the tab does, the URL it loads, and the end of the navigation

bvars == <<vars, jar, net, tab>>

\* URLs: a page, the same page while a challenge is under way, a verify URL, and
\* what the Happy Eyeballs retry makes of it by deleting go-away's arguments (a
\* __goaway_referer stays, which the verify route does not look at).
Url == [path: SUBSET Challenges, arg: SUBSET (Challenges \cup {NoneNamed}), token: SUBSET Key]
Page(arg) == [path |-> {}, arg |-> arg, token |-> {}]
VerifyUrl(c, key) == [path |-> {c}, arg |-> {c}, token |-> {key}]
Stripped(url) == [url EXCEPT !.arg = {}, !.token = {}]

\* at: "closed", "load" (about to send), "wait" or "ended" with a response of kind
\* end.  hops: requests of the navigation, since the last key rotation or change of
\* network if there was one.  disturbed: since the navigation began, another tab's
\* response has set the cookie, a key or the state cookie's expiration has rotated,
\* the network has changed, or a request of it did not meet a precondition.
Tab == [at: {"closed", "load", "wait", "ended"}, url: Url, end: Kinds,
        hops: Nat, disturbed: BOOLEAN]
Closed == [at |-> "closed", url |-> Page({}), end |-> "none",
           hops |-> 0, disturbed |-> FALSE]

BrowserInit ==
    /\ Init
    /\ jar = {} /\ net \in Nets
    /\ tab = [q \in Requests |-> Closed]

-----------------------------------------------------------------------------
\* The user opens a page in a new tab.
Open(q) ==
    /\ tab[q].at = "closed"
    /\ tab' = [tab EXCEPT ![q] = [Closed EXCEPT !.at = "load"]]
    /\ UNCHANGED <<vars, jar, net>>

\* The browser requests the tab's URL, with the cookie named for its network.
Send(q) ==
    /\ tab[q].at = "load"
    /\ \E agent \in Agents, eligible \in SUBSET Conditioned :
         /\ Accept(q, [net |-> net, agent |-> agent, session |-> {}, method |-> "GET",
                       path |-> tab[q].url.path, arg |-> tab[q].url.arg,
                       token |-> tab[q].url.token,
                       cookies |-> {k \in jar : k.net = net /\ k.exp >= clock},
                       eligible |-> eligible, time |-> clock, secret |-> secret])
         /\ tab' = [tab EXCEPT ![q].at = "wait", ![q].hops = IF @ > MaxHops THEN @ ELSE @ + 1,
                               ![q].disturbed = @ \/ eligible # Conditioned]
    /\ UNCHANGED <<arrivals, jar, net>>

\* RedirectUrl and VerifyUrl do not fail.
UrlsParse(q) == \A c \in Challenges : data'[q].state[c] = "Pass" => data'[q].verify[c] # "Fail"

\* go-away handles the tab's request.
Server(q) == Handle(q) /\ UrlsParse(q) /\ UNCHANGED <<jar, net, tab>>

\* Where each kind of response sends the tab, if anywhere: the cookie challenge's
\* redirect, the refresh challenge's page, the redirects of VerifyHandlerFunc and
\* of a rule whose challenge is passed, and the retry.
Follow(r, response) ==
    LET c == CHOOSE x \in response.by : TRUE
    IN  CASE response.kind \in {"redirect", "verified"} -> {Page({c})}
          [] response.kind = "challenge" -> {VerifyUrl(c, KeyFor(c, r))}
          [] response.kind = "clean" -> {Page({})}
          [] response.kind = "retry" -> {Stripped([path |-> r.path, arg |-> r.arg, token |-> r.token])}
          [] OTHER -> {}

\* Set-Cookie replaces the cookie of the same name as a whole.
Stored(cookies) ==
    IF KeepsCookies THEN {k \in jar : \A new \in cookies : k.net # new.net} \cup cookies ELSE {}

Loading(q) == tab[q].at \in {"load", "wait"}
Disturb(tabs) == [q \in Requests |-> [tab[q] EXCEPT !.disturbed = @ \/ (q \in tabs /\ Loading(q))]]
DisturbAll == [q \in Requests |-> [Disturb(Requests)[q] EXCEPT !.hops = 0]]

\* The response arrives: its cookie is stored and its redirect followed.
Receive(q) ==
    /\ Finish(q)
    /\ jar' = Stored(resp[q].cookies)
    /\ LET others == IF resp[q].cookies = {} THEN {} ELSE Requests \ {q}
           next == Follow(req[q], resp[q])
       IN  IF next = {}
             THEN tab' = [Disturb(others) EXCEPT ![q].at = "ended", ![q].end = resp[q].kind]
             ELSE \E url \in next :
                    tab' = [Disturb(others) EXCEPT ![q].at = "load", ![q].url = url]
    /\ UNCHANGED net

\* What is made from now on runs out at another time than what was made so far: the
\* key of a challenge, or the state cookie.
Rotates == \E d \in {Duration[c] : c \in Challenges} \cup {DefaultDuration} :
             Expiration(clock, d) # Expiration(clock + 1, d)

\* The clock runs; keys may rotate.
BrowserTick ==
    /\ Tick
    /\ tab' = IF Rotates THEN DisturbAll ELSE tab
    /\ UNCHANGED <<jar, net>>

\* Happy Eyeballs: the next connection goes over IPv6.
Upgrade ==
    /\ net \in IPv4Nets /\ net' \in Nets \ IPv4Nets
    /\ tab' = DisturbAll
    /\ UNCHANGED <<vars, jar>>

BrowserNext ==
    \/ \E q \in Requests : Open(q) \/ Send(q) \/ Server(q) \/ Receive(q)
    \/ BrowserTick \/ Upgrade

\* go-away answers, and browsers load what they are sent to by themselves.
BrowserSpec ==
    /\ BrowserInit /\ [][BrowserNext]_bvars
    /\ \A q \in Requests : WF_bvars(Send(q) \/ Server(q) \/ Receive(q))

-----------------------------------------------------------------------------
\* verifyChallenge: "we issued the challenge, must skip to prevent loops".  Every
\* navigation comes to an end: no sequence of redirects and challenge pages goes
\* on for ever, whatever tabs, reloads and key rotations do to the cookies.
NavigationEnds == \A q \in Requests : Loading(q) ~> tab[q].at = "ended"

\* A browser that keeps cookies is through in MaxHops requests, counted from the
\* last key rotation or change of network, however the requests and responses of
\* its tabs interleave: tabs that replace each other's cookies do not keep each
\* other going round.
NavigationShort == \A q \in Requests : tab[q].hops <= MaxHops

\* A browser that keeps cookies and solves what it is shown is turned away only if
\* something came between: another tab's response that replaced its cookie with
\* one that lacks the pass it has just won (each response sets the whole cookie),
\* a key rotation, a change of network, or a precondition that does not hold.
TurnedAwayExplained ==
    \A q \in Requests : tab[q].end \in {"deny", "refused"} => tab[q].disturbed

\* What the challenges of S cost a browser that passes each of them once, in requests:
\* the one that is redirected to the page or to the verify URL, the one that is sent
\* back to the clean page and, for a refresh challenge, the verify URL.
Cost(S) == 2 * Cardinality(S) + Cardinality({c \in S : Runtime[c] = "refresh"})

\* A browser that keeps cookies is through as soon as it has passed each challenge
\* once, unless something comes between: no challenge is shown to it again, because
\* no response that adds a pass to the cookie takes another one out (IssueCookie and
\* VerifyHandlerFunc, ResponseHeaders), and none of the redirects to a clean page is
\* taken twice for one pass (Challenge.Handle).
NavigationDirect ==
    \A q \in Requests : ~tab[q].disturbed => tab[q].hops <= Cost(Challenges) + 1

\* README: "In case a client connects over IPv4 first then IPv6 due to Fast
\* Fallback / Happy Eyeballs, the challenge will automatically be retried."
EyeballsRetried ==
    \A q \in Requests : resp[q].kind = "retry" ~>
      resp[q].kind \in {"challenge", "redirect", "verified", "clean", "backend"}
=============================================================================
