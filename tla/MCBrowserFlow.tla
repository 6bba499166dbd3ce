----------------------------- MODULE MCBrowserFlow -----------------------------
(***************************************************************************)
(* Instances of BrowserFlow for TLC.                                       *)
(***************************************************************************)
EXTENDS BrowserFlow, TLC

MCRuntime == [c \in Challenges |-> c]
MCDuration == [c \in Challenges |-> 2]

MCChallenge(i, chals, cont) ==
    [cond |-> FALSE, last |-> i, act |-> "CHALLENGE", cont |-> cont, chals |-> chals,
     pass |-> "PASS", fail |-> "DENY"]

\* Both challenges have to be passed.
BothRules == <<MCChallenge(1, <<"refresh">>, TRUE), MCChallenge(2, <<"cookie">>, FALSE)>>
\* Either of them does.
EitherRules == <<MCChallenge(1, <<"refresh", "cookie">>, FALSE)>>
=============================================================================
