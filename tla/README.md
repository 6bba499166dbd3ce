# A TLA+ model of go-away

go-away is a reverse proxy that stands in front of web sites and lets a request
through to the site's backend only if a policy says so, typically after the
client has passed one of several *challenges*. The modules here model its
control: how requests are judged, how challenges are issued and verified, and
what happens when requests, background goroutines, reloads and crashes
interleave. TLC checks the modules on small instances; TLAPS proves the central
invariants for every value of the constants.

Contents: [the system](#the-system), [modules](#modules-and-the-code-they-model),
[runs](#runs), [findings](#findings), [fairness](#fairness), [proofs](#proofs),
[what is not modelled](#what-is-not-modelled), [plan](#plan).

## The system

| part | state | operations | interacts with |
|---|---|---|---|
| request data and tokens (`lib/challenge/data.go`, `key.go`, `types.go`) | per request: the challenge map of the state cookie, a verdict and a verify state per challenge | `EvaluateChallenges`, `VerifyChallengeToken`, `IssueChallengeToken`, `ClearChallengeToken`, `ResponseHeaders` | clients (cookies), every action and verify route |
| rules and actions (`lib/rule.go`, `lib/http.go`, `lib/action/`) | position in the tree of rules | `handleRequest`, `RuleState.Evaluate`, the handlers | request data, challenges, backends |
| challenge action (`lib/action/challenge.go`) | position in the list of challenges | `Challenge.Handle` | request data, runtimes |
| challenge runtimes (`lib/challenge/*/`) | caches and awaiters of their own | `IssueChallenge`, `Verify`, route handlers | clients, backends, DNS |
| verify routes (`lib/challenge/helper.go`) | none | `VerifyHandlerFunc`, `GetVerifyInformation` | request data |
| awaiter (`lib/challenge/awaiter.go`, `preload-link`) | a lock-free map from keys to callbacks | `Await`, `Solve` | two requests of one client |
| decaying caches (`utils/decaymap.go`, users in `dnsbl.go`, `http.go`) | map with expiries, a ticker goroutine | `Get`, `Set`, `Decay`, `Close` | concurrent requests |
| WebAssembly challenges (`lib/challenge/wasm`) | one runtime per challenge | `Instantiate`, `Verify`, make-challenge | concurrent requests, reload |
| serving states (`cmd/go-away/main.go`, `lib/state.go`, `lib/settings/bind.go`) | the current handler, the private key seed, background objects | load, swap, close, SIGHUP | everything |
| network lists (`lib/state.go`, `lib/policy/network.go`, `utils/cache.go`, `utils/radb.go`) | one list per state (`sync.OnceValue`), files of the cache directory | load, `Get`, `Set`, `FetchPrefixes` | remote sources, disk, other states |
| GeoIP conditions (`lib/conditions.go`) | an unsynchronised map | lookup | concurrent requests |
| policy files (`lib/policy/policy.go`) | a main file and snippets on disk | `NewPolicy` | the operator, the loader |
| server, backends and pages (`lib/settings/bind.go`, `utils/http.go`, `lib/template.go`, `utils/tagfetcher.go`) | the handler in an atomic pointer, the error handler the states share | `SelectHTTPHandler`, passthrough, `ErrorPage`, `FetchTags` | requests, reloads, backends |
| browsers (outside the repository) | a cookie jar, tabs, an address | follow redirects, solve challenges | requests |
| fingerprints, sockets, metrics | configuration | - | - |

What is hard here, and what the properties are for (`hazards` in PROJECT.json
gives the line of each):

- **A client owns its own state.** Passes live in a cookie. Clients keep,
  replay, mix and move cookies and verify URLs, and three different clocks (key
  rotation, token expiry, cookie expiry) end a pass. *Right means*: nobody is
  let through without a pass of his own that is recent enough; one challenge's
  answer never costs another one's pass.
- **Rules look at each other's verdicts.** A challenge answered in one rule is
  seen by the next, and children run after any handler that says so. *Right
  means*: nothing is asked twice of a backend, and a rule guards its children.
- **Two goroutines meet by key.** preload-link waits for a second request of the
  client, which may come early, late, twice or over another network. *Right
  means*: results never mix, and every request is answered.
- **Shared values are read and used in two steps**: the decaying map's double
  lock, the disk cache's `Stat` and `ReadFile`, the error variable all
  WebAssembly verifications share, the name all module instances share.
- **States replace each other** while requests run on the old one, loads fail
  half way, signals come at any time, and the process dies between `os.Create`
  and `Write`. A policy is read file by file while it is edited. Backends are
  shared by all states, and call back into the first one when they fail.
- **Redirects must end.** Challenges are won by redirects that browsers follow;
  what stops a loop is one query argument and a cookie which the tabs of a
  browser replace for each other. *Right means*: a browser gets through, or is
  turned away for a reason, in a bounded number of requests.

## Modules and the code they model

| module | models | extends |
|---|---|---|
| `Tokens` | keys, tokens, cookies and the functions that judge them | |
| `Admission` | what the request flow promises, without cookies, keys and rules | |
| `RequestFlow` | serving of concurrent requests by arbitrary clients; implements `Admission` | `Tokens` |
| `MCRequestFlow` | instances of it | `RequestFlow` |
| `RequestFlowProofs` | `TypeCorrect`, `Admission` | `RequestFlow` |
| `RuleWalkProofs` | the walk through the rules, and that the request flow implements `Admission` | `RequestFlowProofs` |
| `BrowserFlow`, `MCBrowserFlow` | an honest browser with tabs in front of the request flow | `RequestFlow` |
| `BrowserProofs` | what the request flow keeps behind browsers, and what it promises them | `BrowserFlow`, `RuleWalkProofs` |
| `Awaiter` | `Await` and `Solve`, one action per map operation | |
| `PreloadLink`, `MCPreloadLink` | the two handlers of preload-link composed with the awaiter | `Awaiter` |
| `AwaiterProofs` | proofs about the awaiter, then about preload-link on top of it | `PreloadLink` |
| `DecayMap` | the map, its users' read-through, its sweep | |
| `GeoIPCache` | the country conditions and their unsynchronised cache | |
| `Lookups`, `MCLookups` | requests that use both, in one process | `DecayMap`, `GeoIPCache` |
| `DecayMapProofs` | proofs about the decaying map, then about both caches together | `Lookups` |
| `WasmVerify`, `MCWasmVerify`, `WasmVerifyProofs` | concurrent calls into one WebAssembly runner | |
| `PolicyFiles` | the files of a policy, their edits, reading and merge | |
| `Reload` | the loader goroutine, signals, states and their background objects | `PolicyFiles` |
| `Serving`, `MCServing`, `ServingProofs` | a request through the server, its backend and its pages, over reloads; the proofs about the loader are in `ServingProofs` too | `Reload` |
| `NetworkCache`, `MCNetworkCache`, `NetworkCacheProofs` | network lists and the disk cache | |

**Tokens and RequestFlow.** One slot `q` of `Requests` is one request in
flight. `ArrivePage` and `ArriveVerify` are `State.ServeHTTP` up to the mux:
they create the request data and evaluate every challenge of the cookie, with
the random spot check as a choice. `pc[q] = "rules"` is `handleRequest`,
`pc[q] = "verify"` a verify route. The tree of rules is given in preorder, each
rule with the position of its last descendant: a handler that returns *next*
goes on to the following position (its first child, if it has one), a condition
that does not hold goes to the position after the last descendant. Rule
conditions look at parts of the request that are not modelled, so they may
hold, not hold, or fail. The issuing loop of `Challenge.Handle` is one action
per iteration, because an iteration can wait for a backend, a DNS server or the
client. `Respond` includes `ResponseHeaders`, which writes the cookie. A client
is anyone: a request carries any network, any header values, any cookie a
response ever set, any challenge argument, any other `__goaway` argument, and, to a verify route, any key a
page ever showed. The private key can change (`Rekey`), as it does on a reload
without a configured seed. Hashes are injective, signatures and encryption are
perfect, and what is random cannot be guessed.

The histories `answers` and `tried` exist for the properties only.

**Admission** is the abstract specification: visitors win passes, for themselves
and at the time of their visit; a pass is never taken back and wears off after
`Duration`; who is admitted because of challenges holds a fresh pass of each.
RequestFlow maps `answers` to the passes (answers of a session-bound http
challenge count whatever they were, see finding 1), the slots to visits, and the
network, headers and private key of a request to its visitor. `AdmissionPromise`
is the implementation, and what it adds to `AdmissionBacked` is about steps:
between arrival and answer a visit keeps its visitor and its time, an answer is
recorded for the client being served and nobody else, and only while it is.

**BrowserFlow** replaces the arbitrary clients by one browser. `Send` is the
arrival of the tab's URL with the jar's cookie of the current network (cookie
names contain the network, so there is one per network), `Receive` stores the
response's cookie as a whole and follows its redirect, page or retry. `disturbed`
and `hops` are histories: the first says that something came between since the
navigation began (another tab's response that set a cookie, a change of network, a
failing precondition, or a tick at which a challenge's key or the cookie's expiry
goes over to its next value, `Rotates`), the second counts requests. `Upgrade` moves the
browser from IPv4 to IPv6 at any time. The site has a backend and its URLs parse, so that the challenges' own
errors do not end a navigation.

**Awaiter and PreloadLink.** `Set`, `Load`, `Del` are the three steps of
`Await`, `GetAndDel`, `Store`, `Cancel` those of `Solve`; the context ends by
`Deadline` or `Cancel`. PreloadLink sends the hint before it waits
(`EarlyHints`, then `Await`), and its verify route solves the key of its own
request and, if the token did not match, the token's. A load may bring any token,
hinted to this client or another, made up, or none.

**DecayMap.** `GetRead`, `GetCheck` and `GetDelete` are the two critical
sections of `Get` and the reading of the clock between them; `Fetch` and `Set`
are the caller's. The clock only moves forward.

**GeoIPCache and Lookups.** The cache is a plain Go map. What a race on it can
do is taken from how Go maps work: two goroutines inside the map's code, one of
them writing, may end the process (`Fault`); but an assignment is two steps, the
map's code that finds or makes the place (`Assign`), and the store of the value
there (`Fill`), between which others may read the empty entry, or make the map
grow so that the store goes astray. `made` and `Make` are the nil test and the
`make`, which two goroutines may both do. Both overloads of `country()` take the
same steps. In Lookups a request evaluates conditions and looks values up in the
decaying map, and a fault ends all goroutines.

**WasmVerify.** Every call instantiates the module under one name, which wazero
(external; modelled from its use) refuses while it is taken. `err` is the
variable that the closure of `FillRegistration` captures. It is written and read
without synchronisation; only whether it is nil matters, and every value read is
the nilness some write left.

**Reload.** `pc` is the position of the loader goroutine. `live[i]` are the
tickers and objects state `i` started. `NewState` preloads the network lists its
conditions name (`Preload`), from the disk cache or from a source that may never
answer (`pc = "fetch"`, `SourceAnswers`). A failed first load ends the process, as
does a SIGHUP before `signal.Notify`. The seed is a slice whose array every
load shares with `main`. The policy consists of files with versions
(PolicyFiles): `ReadPolicy` reads the next one, and as the decoder is given all
the snippets for their anchors, a broken snippet makes every file unreadable. A
definition is a name, and `origin` is the file it is taken from.

**Serving** has one request at a time go through the server: `Accept` is the
server's handler (the state in the atomic pointer, passthrough, or 502) and the
choice of the backend, `Decide` stands for all the rules may answer, their
errors included, `Page` for challenge pages, `Error` for error pages and the panic
that follows a rule's error, `Proxy` for the reverse proxy. A template may fail
or be missing at any page. `owner` is the state
whose closure is the `ErrorHandler` of the backends: `NewState` sets it only if
there is none. One request is enough, as requests share nothing but what the
loader changes.

**NetworkCache.** A load of state `s` walks the entries of one network. All
file operations of `dirCache` are steps of their own; `Crash` ends the process at
any of them and leaves the files. A list is either whole or not. Its version
stands for what the source publishes together with the rule the policy extracts
it by; the name of the file depends on neither, and a source, or a state built
before an edit, may still deliver an old one.

## Runs

Every passing run explores its whole state space. `about` in PROJECT.json says
in a sentence what each one shows.

| run | instance | checks |
|---|---|---|
| `blocking` | 2 concurrent requests, 3 in all, IPv4 and IPv6 network, one rule over refresh and cookie, durations of 2 ticks, 2 ticks | `TypeOK`, `AdmissionBacked`, `PassesKept`, the refinement `AdmissionPromise` |
| `silent` | 2 requests one after the other, four rules (one nested) over http with a session cookie, dnsbl, preload-link and resource-load, dnsbl with a condition, one change of the private key | `AdmissionBacked`, `CheckGuardsChildren`, `IssuedOnce`, `HeaderStateKnown`, the refinement `AdmissionPromise` |
| `browser` | 2 tabs, one jar, an IPv4 and an IPv6 network, two rules (refresh, then cookie) that both have to be passed, a key rotation; 18 requests of a navigation | `NavigationShort`, `NavigationDirect`, `TurnedAwayExplained` |
| `preload_link` | 2 waiting requests, 2 loads of the link, an IPv4 and an IPv6 key, a made-up token with the IPv4 flag | `NoDanglingCallback`, `OneSolveEach`, `ResultGenuine`, `PassNeedsOwnLoad`, `EveryHintAnswered` |
| `lookups` | 2 goroutines, GeoIP addresses with and without a country, a decaying map with ttl 1 | `TypeOK`, `NoNeedlessFetch`, `DropsOnlyExpired`, `EverySwept`, `WrongOnlyByRace`, `PositiveBounded` |
| `network_cache` | 2 states, a cached and a direct entry, 2 versions, 3 ticks, age limit 1 | `CacheRecent`, `DamageBounded` |
| `wasm` | 3 verifications, 1 challenge being made, one Close | `AcceptedByModule`, `RefusalExplained` |
| `serving` | 3 loads, a main file and a snippet, one edit, signals at any time, failures of reading, building and closing, a network list whose source may never answer, one request whose rules may fail over a backend that goes up and down, hosts with a backend of their own, a wildcard's and none | `TypeOK`, `ServingOpen`, `PolicyAsOnDisk`, `LeakExplained`, `AbortExplained`, `HandlerWhole`, `ReloadHappens` |
| `negative_token`, `redirect_loop`, `eyeballs`, `reload_seed` | the smallest instance that shows it | one finding each |

What the properties say:

- `AdmissionBacked`: who is let through because of a challenge passed it
  himself, from the same network, with the same headers, under the same private
  key, less than `Duration` before the request. It takes a whole history to
  break: a token won earlier, a cookie replayed later, a rotation of the key in
  between. It is the key's rotation that gives the bound: a token's own expiry
  is rounded up by as much as half a duration, and without the rotation (the
  mutant `KeyForUnrotated`) a pass lives for longer than `Duration`.
- `PassesKept`: a response that replaces the cookie keeps all valid passes.
- `NavigationShort`, `TurnedAwayExplained`: however the requests of two tabs
  interleave, a browser is through in a bounded number of requests after the last
  key rotation or change of network. It is turned away only if another tab's
  response replaced its cookie, a key ran out, the network changed or a
  precondition failed. All of these happen: each response sets the whole cookie,
  and a tab that lost its pass in this way to another one, with the argument of
  the challenge in its URL, is denied.
- `NavigationDirect`: with nothing in between, a browser passes each challenge at
  most once. A cookie challenge costs it two requests, refresh three, and the page
  one more. The bound of the instance, 6, is reached.
- `CheckGuardsChildren`: a child of a CHECK or CHALLENGE rule that turns
  failures away is reached only by clients that passed one of its challenges.
- `IssuedOnce`: no challenge is issued twice to one request.
- `HeaderStateKnown`: `VerifyState.String` panics on the zero state; no
  challenge is in it when the headers for the backend are written.
- `NoDanglingCallback`, `OneSolveEach`, `ResultGenuine`: the awaiter's map holds
  callbacks of waits only, each is run at most once, and a wait returns the
  result of a solve of its own key, or nothing after its deadline.
- `PassNeedsOwnLoad`: a request passes preload-link because its own client (same
  network, headers and key period) loaded the verify URL with the token of the link
  it was sent, whatever others send. There is one exception that the code makes:
  the route handler drops `verifier`'s error, so that over IPv6 any token with the
  IPv4 flag counts, the client's own IPv4 link, another client's, or one that is
  made up (`Invented`).
- `NoNeedlessFetch`, `DropsOnlyExpired`, `EverySwept`: a stored value is served
  until its ttl is over, only expired entries are dropped, and all of them are.
- `WrongOnlyByRace`, `PositiveBounded`: a country is wrong only if two goroutines
  met in the middle of an assignment (the double `make` alone is harmless), and
  the size limit is exceeded by at most the goroutines that tested it together.
- `CacheRecent`, `DamageBounded`: a list from the disk cache was in the file when
  the file was last stamped, at most the age limit ago; and where the cache gives an
  entry no list, its file was damaged no longer ago than that. The damage is real: a
  file emptied by a crash or a list cut short by RADb is served as it is until it is
  a day old. Neither says how old the *list* is: the cache does not know what was
  published, or edited, since, and a state built before an edit may stamp the old
  list once more.
- `AcceptedByModule`, `RefusalExplained`: the race on `err` lets nobody through,
  and a good solution is refused only if another call overlapped.
- `ServingOpen`, `ReloadHappens`: the server never serves a closed or half-built
  state, and a policy that was saved before a SIGHUP gets loaded, unless the loader
  waits for ever for a source of network lists: the HTTP client has no timeout.
- `PolicyAsOnDisk`: with no edit while it reads, a load takes every definition
  from the main file or else from the first snippet that has it.
- `LeakExplained`: at rest, objects of a replaced state run only if its `Close`
  failed or the reload right after it failed (`main` then forgets it).
- `HandlerWhole`, `AbortExplained`: the shared error handler is set before the
  first state is complete, but nobody is served by a state before it is; and a
  request gets no answer, or a cut one, only if a rule failed (`handleRequest` writes the
  error page and panics), its template did, or its backend failed while it was passed
  through or while a page fetched the backend's tags: both are requests without
  request data, which `ErrorPage` dereferences. The histories `causes` and `tags`
  say which of these happened to this request.

**Bounds.** `MaxTime`, `MaxSecret`, `MaxArrivals`, `MaxLoads`, `MaxEdits`,
`MaxVersion`, `MaxHops` bound counters in guards. The clock of `blocking` runs to
the end of a duration, so keys rotate and tokens and cookies expire inside it.
Three requests are what the longest interesting history takes (a page, its
verify URL, a replay), two of them at once. `MaxHops` is the bound
`NavigationShort` states; the count stops one above it, so nothing is cut off.
Two waiters and two solvers are all the roles of the awaiter; every step concerns
at most two calls and one key, and the proofs remove the bound. Three
verifications and a maker let two calls overlap a third one's assignment and
test. Two goroutines are what a race takes. Three loads are a first one, a failed
one and a good one; one edit, at any time, is enough to break a file, to mend
none, and to tear a load, and the proofs hold for any number of loads and edits.
Two loads of a network share a file, and the third tick is the first at which a
file written by a dead process is old. Requests, verifications and loads are
interchangeable, and the runs that check invariants only use that symmetry.

**Deadlock** is not checked: every instance is finite by its bounds and stops
when they are used up.

**Mutants.** Operators that a comment introduces with `Mutant` are plausible
mistakes in the definition that follows them; each property fails for one of
them (`mutants` in PROJECT.json).

## Findings

The runs expected to fail state what a comment, a help text or a document of the
repository says and show a behaviour of the code that differs:

1. `negative_token`: the spot check of an http-cookie token forgets that the
   token recorded a refusal (`data.go:235`; `types.go:60`).
2. `redirect_loop`: a browser without cookies goes round for ever between cookie
   and refresh if a rule lists both (`data.go:286`).
3. `eyeballs`: the Happy Eyeballs retry leads to the bare verify route and an
   error page, not to another challenge (`helper.go:144`; `README.md:210`).
4. `reload_seed`: from the first reload on, the private key derives from zeroes
   (`state.go:107`; `main.go:94`).

Further behaviours that differ from what the repository says or one would expect.
They are in the model as the code has them; where a passing property is named, it
says exactly how far they go, and where none is, no true property could promise
what the comment does:

- a challenge is issued against its condition to every request that brings no token
  of it (`data.go:258`), though `register.go:125` says it "must return true for this
  challenge to be allowed to be executed". As a token that ran out is cleared, that
  includes clients whose pass the condition would have ended;
- when a fetch of a network list fails, the old list is returned with the error and
  the caller drops both (`state.go:195`), though `state.go:178` says "use cached
  meanwhile" (`FetchFails`);
- the template of a file is stored under the file's base name (`state.go:124`) and
  looked up under `challenge-`*name*`.gohtml` (`template.go:107`), so pages panic,
  though `main.go:87` says "name or path of the challenge template" (`Page`);
- after a failed reload `main` has forgotten the state that goes on serving, and the
  next reload replaces it without closing it (`main.go:318`), though `dnsbl.go:115`
  says "allow freeing the ticker/decay map" (`LeakExplained`);
- a good proof of work is refused when two calls overlap (`runner.go:116`;
  `types.go:56`; `RefusalExplained`);
- a backend that fails while its tags are fetched costs the client the page
  (`tagfetcher.go:14`; `AbortExplained`);
- negative GeoIP answers are cached past the size limit (`conditions.go:114`;
  `PositiveBounded`), and the cache is written without a lock;
- a rule that fails shows its error page and then ends in a panic (`http.go:286`;
  `AbortExplained`);
- over IPv6 any token with the IPv4 flag passes preload-link (`preload-link.go:116`;
  `PassNeedsOwnLoad`);
- the `backend-host` option has no effect (`http.go:233`, `data.go:196`);
- preloading of a network for the deprecated `inNetwork(name, ip)` looks at the
  second argument, which is the address (`conditions.go:311`).

## Fairness

- `Awaiter`, `PreloadLink`: weak fairness of each waiting goroutine, whose
  context has a deadline (`context.WithTimeout` in preload-link), and of each
  route handler and solve that has begun. Go runs goroutines that can run.
  Nothing is assumed about clients: they may never load the link.
- `DecayMap`: weak fairness of the sweep, which is enabled while it has something
  to do and the map is not closed. `time.Ticker` fires until it is stopped.
- `Lookups`: the same of the sweep; the process may die.
- `Reload`, `Serving`: weak fairness of the loader goroutine's own steps. That a
  source of network lists answers (`SourceAnswers`) is not one of them: while
  `NewState` preloads a list (`RegisterCondition`), the loader may wait for ever, as
  the HTTP client has no timeout, and `ReloadHappens` has the premise that it does
  not. Nothing is assumed about signals, edits, requests and backends.
- `BrowserFlow`: weak fairness of each tab's next step: go-away answers, and
  browsers load what they are redirected to without their user. It is used for
  the two findings only, which fail although everybody takes his steps.

The other modules state safety only.

## Proofs

All proofs are for any finite or infinite sets of requests, clients, keys, calls
and any bounds, from the named ASSUMEs of the modules (types of the constants,
durations above zero, verdicts that are not the zero verdict; only the count of
country entries needs finitely many visitors and addresses, and a size limit
above zero: the code's is 10000; and a bound on requests needs finitely many
challenges). TLC evaluates them on the instances, and each
inductive invariant was checked by TLC on the instance of its run before it was
proved.

- **`Admission`** (`RequestFlowProofs`): `Spec => []AdmissionBacked`. The
  property speaks of responses, but what makes it true is spread over cookies,
  tokens and verdicts, so the inductive invariant `IInv` says that *backing* is
  kept everywhere: every token of every cookie ever issued and of every map in
  flight has an answer in the history that has its key and an expiry which
  follows from the answer's time; every verdict OK of a request in flight has an
  answer of the same client within the duration; every response to the backend
  names only challenges whose verdict is OK. Lemmas first: rounding
  (`Round`, `Expiration`) with its two bounds, what `EvaluateChallenges` makes of
  a backed cookie, monotonicity in the history; then `Settles`, the three ways in
  which any step ends, and one lemma per action. The bound on time comes from
  two facts together: the key's expiration is the same for the answer and the
  request, and both times round to it.
- **`TypeCorrect`** is a part of the same invariant.
- **`GuardedChildren`, `OneIssue`, `HeadersSafe`, `NoPassLost`**
  (`RuleWalkProofs`): none of the four is inductive, and all rest on one more invariant, `WalkInv`, which says of every request in flight
  what its way so far has left behind: a challenge that was issued is marked so
  (`Once`); while rules run, a passed challenge has a state (`StateKnown`); every strict rule the request is below of has been passed
  (`Ancestors`, where the nesting of the preorder positions is used); its map has
  one entry for a challenge, which expires with its key (`Neat`), and still holds
  each pass it brought (`Carried`). The argument goes through one abstraction of
  the code's steps: `ServeEffect` lists the ways in which any step of
  `State.ServeHTTP` changes a request (`Changes`) and where it goes next
  (`Moves`); one lemma per action shows that it is one of them, and the parts of
  the invariant are then proved once, from `ServeEffect`.
- **`ImplementsAdmission`** (`RuleWalkProofs`): `Spec => AdmissionPromise`. Initial
  states map to initial states; each `ServeEffect`, arrival and end of a request
  maps to a step of `Admission` or to none. That the abstract guard of an
  admission holds is `AdmissionBacked`, taken in the state after the step.
- **`BrowsersServed`, `BrowserImplementsAdmission`** (`BrowserProofs`): behind browsers the
  request flow keeps its five invariants and implements `Admission`. `BrowserSpec`
  has no arrivals of RequestFlow, so this is no instance of the theorems above:
  `BrowserInv` says that the jar holds issued cookies, one of a name, that a tab
  waits exactly while its slot is served, and that a response which sends the tab on
  names one challenge; then a tab's request is one the lemmas about `Accept` cover,
  and all other steps are the request flow's or invisible to it.
- **`HonestBrowserThrough`** (`BrowserProofs`): `TurnedAwayExplained` for every policy of
  cookie and refresh challenges in which no rule denies by itself and no CHALLENGE
  rule is empty or denies who passed (`Welcoming`), and every browser that keeps its
  cookies and sends the same headers each time (`SteadyBrowser`). Both hold in the
  instances `BothRules` and `EitherRules` with one agent. Without the first the
  statement is false: a DENY rule denies. The invariant `CalmInv` follows an
  undisturbed tab round: the page it loads after winning a challenge finds the pass
  in the jar, the verify URL it loads has the key of the moment, and the request
  being served is one it would still send (`Loads`, `UpToDate`, `Handed`). `NavInv`
  adds that no challenge of its request is marked as skipped, so that the
  issuing loop never gets past its first challenge and so never to the rule's
  failure. The proof attempt changed the model: a first version counted only a
  change of the challenges' keys as a disturbance, but the state cookie's expiry has a
  duration of its own, and a cookie that runs out between response and request
  costs the pass just as a rotated key does (`Rotates`).
- **`StraightThrough`** (`BrowserProofs`): `NavigationDirect` for every `SteadyBrowser` and any
  policy of finitely many cookie and refresh challenges. `hops` alone is not
  inductive; `PaidInv` pays for the requests with the passes in the jar (`Won`):
  a tab about to load a clean page has made at most `Cost(Won)` requests, one that
  is sent back with a new pass one less, and one on its way to a verify URL one
  more, for a challenge that is not in `Won`. The passes never get fewer, as each
  undisturbed request brings all of them (`Brought`), and a response's cookie keeps
  what was brought (`Carried` of `WalkInv`); each challenge that is issued is a new
  one, because a passed one would have been found valid. `Cost` is monotone and
  grows by two or three with a challenge (`CostGrows`, `CostAdds`).
- **`NoDangling`, `Genuine`, `SolvedOnce`** (`AwaiterProofs`): the invariant adds that at most
  one solver holds a given waiter, that a waiter's callback is in the map only
  while nobody has taken it, and that `stored` is what the solver that holds the
  waiter was called with once it has passed its store.
- **`PassByOwnLoad`, `LinkAwaits`** (`AwaiterProofs`): a step of preload-link is a
  step of the awaiter or leaves it alone (`LinkStep`, which needs `LinkInv` for
  the arguments of the calls), so the awaiter's invariant carries over. `LinkInv`
  adds that a request waits for the one key it was hinted, and that a handler
  solves its own key with what its token deserves and the token's key only with a
  failure; then the Solve behind an OK is that of the waiter's own key. The tokens
  range over every key, made up or hinted.
- **`NoNeedless`, `OnlyExpired`** (`DecayMapProofs`): the invariant ties each
  entry of the map to the expiry the latest `Set` promised, and bounds what a
  caller between its two locks may still delete.
- **`Accepted`, `Refusals`** (`WasmVerifyProofs`): the function's own `ok` is set
  only by the module's answer; with no overlap the name is free, `err` is the
  call's own, and both follow step by step.
- **`AlwaysServing`, `ReloadTyped`** (`ServingProofs`): the invariant says where
  `handler`, `old` and `serving` can point at each position of the loader: `old`
  is never the state that serves when it is closed.
- **`LeaksExplained`** (`ServingProofs`): the invariant `Chain` adds how the last
  two loads are related: either the one before was swapped in and `main` still
  points to it, or it failed and `main` has forgotten the one before that, whose
  successor was then never built.
- **`HandlersWhole`, `AbortsExplained`, `ServerStaysOpen`** (`ServingProofs`): a
  step of the server is a step of the loader or leaves it alone
  (`ServingStep`), so the loader's invariants carry over; the first needs
  `FirstOwns`, that the error handler is state 1's and that nobody is served
  before state 1 is built. For the second, an abort has left its cause in `causes`,
  and a backend is one only of a request that was passed through or wants tags.
- **`DecayMapTyped`** is a part of DecayMap's invariant, and **`LookupsKeep`** is the
  rest of it for the composition `Lookups`, in which a crash is to the map what
  `Close` is.
- **`WrongOnlyRacing`** (`DecayMapProofs`): the invariant `GeoInv` adds that without a
  race at most one visitor is inside an assignment, and that a store which is not
  adrift has its place in the map.
- **`PositivesBounded`** (`DecayMapProofs`): the bound is not inductive, as a visitor
  that has passed the test adds its entry whatever the size is by then.
  `RoomLeft` counts the visitors that are *admitted* but have not assigned yet
  along with the entries: a visitor is counted when it passes the test, where the
  size is below the limit, and its assignment only moves it from one count to the
  other. `make` empties the map, and whoever makes it is not admitted.
- **`PolicyMerged`** (`ServingProofs`): the property speaks of the end of a load; the
  invariant `Reading` says the same of the files read so far (`Merged`), unless a
  file was edited since the load began. `ServerStaysOpen` carries it over to the
  server with requests.
- **`CacheIsRecent`, `DamageIsBounded`** (`NetworkCacheProofs`): the invariant
  `CInv` ties a cache file's time to the last stamp with what it holds, or to the
  last damage if that is nothing (`FileSound`), says that the file can only have
  become newer since a load's `Stat` (`Statted`), and keeps both properties for each
  entry a load is past (`Rows`).

Only model-checked: the liveness properties (`EveryHintAnswered`, `EverySwept`,
`ReloadHappens`), as liveness under fairness is out of the prover's reach; and
BrowserFlow's `NavigationShort`, whose bound for tabs that do replace each other's
cookies is a fact about the policy and the number of tabs of the instance, not of
every value of the constants.

## What is not modelled

- A CHALLENGE or CHECK as the pass or fail action of another (`challenge.go:47`
  allows it): the model's pass and fail actions are the others.
- CEL expressions, their compilation and what the comparison of country names
  does: a library's, or a pure comparison.
- The rewriting of requests (`cleanupRequest`, the proxy's Director), which query
  arguments and cookies are passed on, `EnsureNoOpenRedirect`: string work on a
  single request. Reverse proxying is `net/http/httputil`'s.
- Where the client's address comes from (`GetRequestAddress`): the model's
  clients choose their network, as they do with a header nobody checks.
- The context options of CONTEXT rules, except that pages may want tags.
- YAML decoding, flags, TLS and ACME, listeners: libraries and configuration.
- Markup of pages, templates, strings, and which tags are kept: presentation.
- TLS fingerprints, cookie and hex encodings, Unix sockets, PROXY protocol,
  metrics: byte-level work or system calls without control of their own.
- The proof-of-work module and the command that tests modules; `Compile` and the
  memory of the module interface, which are wazero's.

## Plan

Done, in this order: Tokens and RequestFlow (the heart of the program) with the
proof of admission; Awaiter and PreloadLink; DecayMap; WasmVerify; Reload;
NetworkCache; the tree of rules; Admission and the refinement; BrowserFlow;
GeoIPCache and Lookups; PolicyFiles and Serving with their proofs; versions of
the policy in NetworkCache.

Then the proofs: the walk through the rules and the refinement of Admission, the
caches requests share, preload-link, the merge of the policy, the disk cache, and
the honest browser.

Next:

1. The block list's verdicts in DecayMap: what a late *Unknown* may replace.
2. What `cleanupRequest` may pass on to a backend.
