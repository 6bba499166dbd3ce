-------------------------------- MODULE Serving --------------------------------
(***************************************************************************)
(* A request on its way through the server while states are loaded and     *)
(* replaced (Reload): the handler Bind.Server picks for it, the backend of *)
(* its host (SelectHTTPHandler), the pages with the backend's tags         *)
(* (addCachedTags) and the reverse proxy's error handler, which every      *)
(* State shares with the first one.  What rules decide is RequestFlow's    *)
(* part; here they choose between a page, the backend and other answers,   *)
(* or fail.                                                                *)
(***************************************************************************)
EXTENDS Reload, Sequences

CONSTANTS
    Hosts,         \* hosts requests name, as sequences of labels
    Backends,      \* the keys of the backends map, as sequences of labels
    Passthrough    \* Bind.Passthrough

ASSUME HostsAssumption ==
    /\ \A h \in Hosts \cup Backends : h \in Seq(STRING) /\ h # <<>>
    /\ Passthrough \in BOOLEAN

VARIABLES
    at,        \* "idle", "rules", "page" (ChallengePage), "error" (ErrorPage), "proxy" or
               \* "aborted" (the handler panicked)
    pin,       \* the state the request was given to, 0 if it was passed through
    tags,      \* does the RequestData ask for the backend's tags?
    causes,    \* history: what failed for this request: a "rule", a "template", the "backend"
    owner,     \* the state whose ErrorPage the backends' ErrorHandler calls, 0 for none
    up         \* can the request's backend be reached?

request == <<at, pin, tags, causes>>
servingVars == <<vars, request, owner, up>>

ServingInit ==
    /\ Init
    /\ at = "idle" /\ pin = 0 /\ tags = FALSE /\ causes = {}
    /\ owner = 0 /\ up = TRUE

-----------------------------------------------------------------------------
Wildcard(h) == <<"*">> \o Tail(h)
Fallback == <<"*">>

\* SelectHTTPHandler: the backend of the host, at most one.
SelectHTTPHandler(h) ==
    {b \in Backends : \/ b = h
                      \/ h \notin Backends /\ b = Wildcard(h)
                      \/ {h, Wildcard(h)} \cap Backends = {} /\ b = Fallback}

\* The request is answered, or goes on.
Answer ==
    /\ at' = "idle" /\ pin' = 0 /\ tags' = FALSE /\ causes' = {}
    /\ UNCHANGED <<vars, owner, up>>
Goto(place) == at' = place /\ UNCHANGED <<vars, pin, tags, causes, owner, up>>
Fails(cause, place) ==
    at' = place /\ causes' = causes \cup {cause} /\ UNCHANGED <<vars, pin, tags, owner, up>>

\* The server's handler: no state yet (502, or straight to the backend), or
\* handleRequest of the serving state; a host without a backend is answered.
Accept(h) ==
    /\ at = "idle" /\ pc # "dead"
    /\ SelectHTTPHandler(h) # {} /\ (serving = 0 => Passthrough)
    /\ at' = IF serving = 0 THEN "proxy" ELSE "rules"
    /\ pin' = serving
    /\ tags' \in IF serving = 0 THEN {FALSE} ELSE BOOLEAN
    /\ UNCHANGED <<vars, causes, owner, up>>

\* The rules: a challenge page, an error page (DENY), the backend (whatever
\* backend-host says), an answer of another kind, or an error of a condition or an
\* action, for which there is an error page too.
Decide ==
    /\ at = "rules" /\ pc # "dead"
    /\ \/ Goto("page") \/ Goto("error") \/ Goto("proxy") \/ Answer
       \/ Fails("rule", "error")

\* FetchTags asks the backend in a request of its own, which has no RequestData: if
\* the backend fails, ErrorPage dereferences nil there.
FetchTagsPanics == tags /\ ~up

\* Mutant: tags are fetched for every page.
PageAlwaysTagged ==
    /\ at = "page" /\ pc # "dead"
    /\ IF up THEN Answer ELSE Fails("backend", "aborted")

\* ChallengePage, with tags from the cache or from the backend.  A template that
\* cannot be executed gives an error page; Execute panics if the map has none of that
\* name, as with a template given by its path, which NewState keeps under another.
Page ==
    /\ at = "page" /\ pc # "dead"
    /\ \/ Answer
       \/ FetchTagsPanics /\ Fails("backend", "aborted")
       \/ Fails("template", "error") \/ Fails("template", "aborted")

\* ErrorPage, with tags as well: it panics if its template cannot be executed.  After
\* the error page of a rule handleRequest panics with the rule's error.
Error ==
    /\ at = "error" /\ pc # "dead"
    /\ \/ IF "rule" \in causes THEN Goto("aborted") ELSE Answer
       \/ FetchTagsPanics /\ Fails("backend", "aborted")
       \/ Fails("template", "aborted")

\* The reverse proxy; without an ErrorHandler it answers 502 by itself.
Proxy ==
    /\ at = "proxy" /\ pc # "dead"
    /\ IF up \/ owner = 0 THEN Answer
       ELSE Fails("backend", IF pin = 0 THEN "aborted" ELSE "error")

\* The server's recover: the connection is closed.
Abort == at = "aborted" /\ pc # "dead" /\ Answer

\* The backend goes down or comes back.
Toggle ==
    /\ up' = ~up
    /\ UNCHANGED <<vars, request, owner>>

\* NewState gives the backends that have none an error handler, its own.
Step ==
    /\ Next
    /\ owner' = IF MakeKey /\ owner = 0 THEN loads ELSE owner
    /\ UNCHANGED <<request, up>>

ServingNext ==
    \/ Step \/ Toggle
    \/ (\E h \in Hosts : Accept(h)) \/ Decide \/ Page \/ Error \/ Proxy \/ Abort

\* The loader goroutine runs whenever it can (see Reload's Spec).
ServingSpec == ServingInit /\ [][ServingNext]_servingVars /\ WF_servingVars(Loader /\ Step)

-----------------------------------------------------------------------------
\* A request is left without its answer only if a rule failed (handleRequest shows
\* the error page and panics), a template did, or its backend did and the request was
\* either passed through while the first state was being built or wanted the
\* backend's tags.  With a state of its own, no tags, and rules and templates that
\* work, it is answered also when its backend is down, over any reload (FetchTags,
\* ErrorPage, handleRequest).
AbortExplained ==
    at = "aborted" => \/ "rule" \in causes \/ "template" \in causes
                      \/ "backend" \in causes /\ (pin = 0 \/ tags)

\* While a request is served by a state, the error handler it may run into is
\* that of a state that was built to the end: its templates, settings and tag
\* cache are there (ErrorHandler in NewState is set before they are).
HandlerWhole == pin # 0 => pin \in built /\ owner \in built
=============================================================================
