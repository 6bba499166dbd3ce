----------------------------- MODULE MCRequestFlow -----------------------------
(***************************************************************************)
(* Instances of RequestFlow for TLC.                                       *)
(***************************************************************************)
EXTENDS RequestFlow, TLC

Symmetry == Permutations(Requests)

\* A rule at position i without children, that lets through who passes.
MCRule(i, chals, fail) ==
    [cond |-> FALSE, last |-> i, act |-> "CHALLENGE", cont |-> FALSE, chals |-> chals,
     pass |-> "PASS", fail |-> fail]
MCPlain(i, action) == [MCRule(i, <<>>, "NONE") EXCEPT !.act = action, !.cond = TRUE]

\* Two blocking challenges, one that hands its token out and one to be solved.
BlockingRuntime == [c \in Challenges |-> IF c = "cookie" THEN "cookie" ELSE "refresh"]
BlockingRules == <<MCRule(1, <<"refresh", "cookie">>, "DENY")>>

Durations == [c \in Challenges |-> 2]

\* Silent challenges looked at by a first rule, asked for by a second one that
\* guards a child, and offered again by a last one with a page.
SilentRuntime == ("http" :> "http") @@ ("dnsbl" :> "dnsbl") @@ ("preload" :> "preload-link")
                 @@ ("resource" :> "resource-load")
SilentRules == <<[MCRule(1, <<"http", "dnsbl">>, "NONE") EXCEPT !.cont = TRUE],
                 [MCRule(3, <<"dnsbl", "preload">>, "DROP") EXCEPT !.cont = TRUE, !.cond = TRUE],
                 MCPlain(3, "PROXY"),
                 [MCRule(4, <<"dnsbl", "resource">>, "DENY") EXCEPT !.cond = TRUE]>>

\* One http challenge.
HttpRuntime == [c \in Challenges |-> "http"]
HttpRules == <<MCRule(1, <<"http">>, "DENY")>>
=============================================================================
