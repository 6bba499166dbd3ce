------------------------------ MODULE WasmVerify ------------------------------
(***************************************************************************)
(* lib/challenge/wasm: the verify function of a WebAssembly challenge and  *)
(* the make-challenge handler both run the challenge's module through      *)
(* Runner.Instantiate, concurrently, in one wazero runtime.  Every         *)
(* instance has the same name, and the verify function assigns its error   *)
(* to a variable of FillRegistration that all requests share: a data race. *)
(* Whether that variable is nil is one word of memory, so a read sees the  *)
(* nilness of one of the writes.                                           *)
(***************************************************************************)
EXTENDS FiniteSets

CONSTANTS
    Verifiers,   \* requests of the verify URL
    Makers       \* requests of the make-challenge URL

ASSUME CallsAssumption == Verifiers \cap Makers = {}

VARIABLES
    name,       \* who has a module instance named "runtime", if anyone
    closed,     \* Runner.Close has run: the state of this runner was replaced
    err,        \* the shared error variable: is it nil, or not?
    pc,         \* pc[v]: "start", "call", "assign", "test" or "end"
    answer,     \* answer[v]: what the module says of v's solution, once v has started
    local,      \* local[v]: the error Instantiate returns
    ok,         \* ok[v]: the verify function's own ok
    verdict,    \* verdict[v]: the VerifyResult; "None" before
    overlap     \* history: another call ran while v's did

vars == <<name, closed, err, pc, answer, local, ok, verdict, overlap>>

Calls == Verifiers \cup Makers
Running == {x \in Calls : pc[x] \notin {"start", "end"}}

Init ==
    /\ name = {} /\ closed = FALSE /\ err = "nil"
    /\ pc = [x \in Calls |-> "start"]
    /\ answer = [x \in Calls |-> "None"]
    /\ local = [x \in Calls |-> "nil"]
    /\ ok = [x \in Calls |-> FALSE]
    /\ verdict = [x \in Calls |-> "None"]
    /\ overlap = [x \in Calls |-> FALSE]

-----------------------------------------------------------------------------
\* runtime.InstantiateModule: an error if the name is taken or the runtime closed.
Instantiate(x, out) ==
    /\ pc[x] = "start"
    /\ answer' = [answer EXCEPT ![x] = out]
    /\ IF name = {} /\ ~closed
         THEN /\ name' = {x} /\ UNCHANGED local
              /\ pc' = [pc EXCEPT ![x] = "call"]
         ELSE /\ local' = [local EXCEPT ![x] = "error"] /\ UNCHANGED name
              /\ pc' = [pc EXCEPT ![x] = IF x \in Makers THEN "end" ELSE "assign"]
    /\ overlap' = [y \in Calls |-> overlap[y] \/ (y \in Running \/ (y = x /\ Running # {}))]
    /\ UNCHANGED <<closed, err, ok, verdict>>

\* Mutant: the instance is not closed.
CallUnclosed(x) ==
    /\ pc[x] = "call"
    /\ LET failed == closed \/ answer[x] = "Error"
       IN  /\ local' = [local EXCEPT ![x] = IF failed THEN "error" ELSE "nil"]
           /\ ok' = [ok EXCEPT ![x] = ~failed /\ answer[x] = "OK"]
    /\ pc' = [pc EXCEPT ![x] = IF x \in Makers THEN "end" ELSE "assign"]
    /\ UNCHANGED <<name, closed, err, answer, verdict, overlap>>

\* f(ctx, mod), and the deferred mod.Close.  A call into a closed runtime fails.
Call(x) ==
    /\ pc[x] = "call"
    /\ LET failed == closed \/ answer[x] = "Error"
       IN  /\ local' = [local EXCEPT ![x] = IF failed THEN "error" ELSE "nil"]
           /\ ok' = [ok EXCEPT ![x] = ~failed /\ answer[x] = "OK"]
    /\ name' = {}
    /\ pc' = [pc EXCEPT ![x] = IF x \in Makers THEN "end" ELSE "assign"]
    /\ UNCHANGED <<closed, err, answer, verdict, overlap>>

\* err = ob.Instantiate(...)
Assign(v) ==
    /\ pc[v] = "assign"
    /\ err' = local[v]
    /\ pc' = [pc EXCEPT ![v] = "test"]
    /\ UNCHANGED <<name, closed, answer, local, ok, verdict, overlap>>

\* Mutant: success is judged by the error alone.
TestError(v) ==
    /\ pc[v] = "test"
    /\ verdict' = [verdict EXCEPT ![v] = IF err = "nil" THEN "OK" ELSE "Fail"]
    /\ pc' = [pc EXCEPT ![v] = "end"]
    /\ UNCHANGED <<name, closed, err, answer, local, ok, overlap>>

\* if err != nil ... if ok ...: the shared variable, the function's own ok.
Test(v) ==
    /\ pc[v] = "test"
    /\ verdict' = [verdict EXCEPT ![v] = IF err = "nil" /\ ok[v] THEN "OK" ELSE "Fail"]
    /\ pc' = [pc EXCEPT ![v] = "end"]
    /\ UNCHANGED <<name, closed, err, answer, local, ok, overlap>>

\* State.Close of a reload, while requests may still run.
Close ==
    /\ ~closed /\ closed' = TRUE
    /\ UNCHANGED <<name, err, pc, answer, local, ok, verdict, overlap>>

Next ==
    \/ \E x \in Calls : (\E out \in {"OK", "Fail", "Error"} : Instantiate(x, out)) \/ Call(x)
    \/ \E v \in Verifiers : Assign(v) \/ Test(v)
    \/ Close

Spec == Init /\ [][Next]_vars

-----------------------------------------------------------------------------
\* Type invariant of the runner and the calls.
TypeOK ==
    /\ name \subseteq Calls /\ closed \in BOOLEAN /\ err \in {"nil", "error"}
    /\ pc \in [Calls -> {"start", "call", "assign", "test", "end"}]
    /\ answer \in [Calls -> {"None", "OK", "Fail", "Error"}]
    /\ local \in [Calls -> {"nil", "error"}]
    /\ ok \in [Calls -> BOOLEAN]
    /\ verdict \in [Calls -> {"None", "OK", "Fail"}]
    /\ overlap \in [Calls -> BOOLEAN]

\* The race on the shared error never lets a client through: a verification is
\* only OK if the module itself accepted this request's own solution.
AcceptedByModule == \A v \in Verifiers : verdict[v] = "OK" => answer[v] = "OK"

\* A good solution is only refused if another call ran at the same time or the
\* state was replaced: sequences of calls never wear the runner out.
RefusalExplained ==
    \A v \in Verifiers : verdict[v] = "Fail" /\ answer[v] = "OK" => overlap[v] \/ closed
=============================================================================
