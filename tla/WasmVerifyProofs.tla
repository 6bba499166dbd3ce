--------------------------- MODULE WasmVerifyProofs ---------------------------
(***************************************************************************)
(* What the race on the shared error can and cannot do, for any number of  *)
(* concurrent verifications.                                               *)
(***************************************************************************)
EXTENDS WasmVerify, TLAPS

\* The name belongs to the call that is in the module.
NameHeld == \A x \in name : pc[x] = "call"

\* Two calls that run at the same time both know it.
OverlapSeen == \A x, y \in Running : x # y => overlap[x]

\* A call's own error has a cause, and its ok is the module's.
OwnOutcome ==
    \A v \in Verifiers :
      /\ pc[v] \in {"assign", "test", "end"} /\ local[v] = "error" /\ answer[v] = "OK" =>
           overlap[v] \/ closed
      /\ pc[v] \in {"assign", "test"} /\ local[v] = "nil" /\ answer[v] = "OK" => ok[v]
      /\ ok[v] => answer[v] = "OK"

\* An error that is not one's own comes from a call that overlaps.
ForeignError ==
    \A v \in Verifiers : pc[v] = "test" /\ err = "error" => local[v] = "error" \/ overlap[v]

\* Nothing is decided before the module was called.
Undecided ==
    \A x \in Calls :
      /\ pc[x] # "end" => verdict[x] = "None"
      /\ pc[x] \in {"start", "call"} => ok[x] = FALSE /\ local[x] = "nil"

IInv == /\ TypeOK /\ AcceptedByModule /\ RefusalExplained
        /\ NameHeld /\ OverlapSeen /\ OwnOutcome /\ ForeignError /\ Undecided

LEMMA InitIInv == Init => IInv
<1>. SUFFICES ASSUME Init PROVE IInv
  OBVIOUS
<1>. USE DEF Init
<1>1. closed \in BOOLEAN /\ ok \in [Calls -> BOOLEAN] /\ overlap \in [Calls -> BOOLEAN]
  BY Zenon
<1>2. TypeOK
  BY <1>1 DEF TypeOK
<1>3. Verifiers \subseteq Calls
  BY DEF Calls
<1>4. AcceptedByModule /\ RefusalExplained /\ NameHeld /\ OwnOutcome /\ ForeignError /\ Undecided
  BY <1>3 DEF Undecided, AcceptedByModule, RefusalExplained, NameHeld, OwnOutcome, ForeignError
<1>5. OverlapSeen
  BY DEF OverlapSeen, Running
<1>. QED BY <1>2, <1>4, <1>5 DEF IInv

LEMMA InstantiateStep ==
    ASSUME IInv, NEW x \in Calls, NEW out \in {"OK", "Fail", "Error"}, Instantiate(x, out)
    PROVE  IInv'
<1>. USE DEF IInv, Instantiate
<1>1. Verifiers \subseteq Calls
  BY DEF Calls
<1>2. TypeOK'
  BY DEF TypeOK
<1>3. \A y \in Calls : overlap'[y] = (overlap[y] \/ (y \in Running \/ (y = x /\ Running # {})))
  OBVIOUS
<1>4. \A y \in Calls : y # x => pc'[y] = pc[y] /\ answer'[y] = answer[y] /\ local'[y] = local[y]
  BY DEF TypeOK
<1>5. name # {} => Running # {}
  BY DEF TypeOK, NameHeld, Running
<1>6. AcceptedByModule' /\ Undecided'
  BY <1>1, <1>4 DEF TypeOK, AcceptedByModule, Undecided
<1>7. RefusalExplained'
  BY <1>1, <1>3, <1>4 DEF TypeOK, RefusalExplained, Undecided
<1>8. NameHeld'
  BY <1>4 DEF TypeOK, NameHeld
<1>9. OverlapSeen'
  BY <1>3, <1>4 DEF TypeOK, OverlapSeen, Running
<1>10. OwnOutcome'
  <2>1. ASSUME NEW v \in Verifiers, v # x
        PROVE  /\ pc'[v] = pc[v] /\ local'[v] = local[v] /\ answer'[v] = answer[v]
               /\ overlap[v] => overlap'[v]
    BY <1>1, <1>3, <1>4, <2>1
  <2>2. ok' = ok /\ closed' = closed
    OBVIOUS
  <2>3. pc'[x] \in {"call", "assign", "end"} /\ ok[x] = FALSE /\ answer'[x] = out
    BY DEF TypeOK, Undecided
  <2>4. CASE name = {} /\ ~closed
    <3>1. pc'[x] = "call"
      BY <2>4 DEF TypeOK
    <3>. QED BY <2>1, <2>2, <2>3, <3>1 DEF OwnOutcome
  <2>5. CASE ~(name = {} /\ ~closed)
    <3>1. local'[x] = "error"
      BY <2>5 DEF TypeOK
    <3>2. overlap'[x] \/ closed'
      <4>1. name # {} => overlap'[x]
        BY <1>3, <1>5, Zenon
      <4>2. closed => closed'
        BY <2>2
      <4>3. name # {} \/ closed
        BY <2>5
      <4>. HIDE DEF Instantiate, IInv
      <4>. QED BY <4>1, <4>2, <4>3
    <3>. QED BY <2>1, <2>2, <2>3, <3>1, <3>2 DEF OwnOutcome
  <2>. QED BY <2>4, <2>5
<1>11. ForeignError'
  BY <1>1, <1>3, <1>4 DEF TypeOK, ForeignError
<1>. QED BY <1>2, <1>6, <1>7, <1>8, <1>9, <1>10, <1>11

LEMMA CallStep ==
    ASSUME IInv, NEW x \in Calls, Call(x)
    PROVE  IInv'
<1>. USE DEF IInv, Call
<1>1. Verifiers \subseteq Calls
  BY DEF Calls
<1>2. TypeOK'
  BY DEF TypeOK
<1>3. AcceptedByModule' /\ RefusalExplained' /\ NameHeld' /\ OverlapSeen'
  BY <1>1 DEF TypeOK, AcceptedByModule, RefusalExplained, NameHeld, OverlapSeen, Running
<1>4. OwnOutcome'
  BY <1>1 DEF TypeOK, OwnOutcome
<1>5. ForeignError' /\ Undecided'
  BY <1>1 DEF TypeOK, ForeignError, Undecided
<1>. QED BY <1>2, <1>3, <1>4, <1>5

LEMMA AssignStep ==
    ASSUME IInv, NEW v \in Verifiers, Assign(v)
    PROVE  IInv'
<1>. USE DEF IInv, Assign
<1>1. Verifiers \subseteq Calls
  BY DEF Calls
<1>2. TypeOK'
  BY <1>1 DEF TypeOK
<1>3. AcceptedByModule' /\ RefusalExplained' /\ NameHeld' /\ OverlapSeen' /\ OwnOutcome'
  BY <1>1 DEF TypeOK, AcceptedByModule, RefusalExplained, NameHeld, OverlapSeen, Running, OwnOutcome
<1>4. ForeignError' /\ Undecided'
  BY <1>1 DEF TypeOK, ForeignError, OverlapSeen, Running, Undecided
<1>. QED BY <1>2, <1>3, <1>4

LEMMA TestStep ==
    ASSUME IInv, NEW v \in Verifiers, Test(v)
    PROVE  IInv'
<1>. USE DEF IInv, Test
<1>1. Verifiers \subseteq Calls
  BY DEF Calls
<1>2. TypeOK'
  BY <1>1 DEF TypeOK
<1>3. AcceptedByModule'
  BY <1>1 DEF TypeOK, AcceptedByModule, OwnOutcome
<1>4. RefusalExplained'
  BY <1>1 DEF TypeOK, RefusalExplained, OwnOutcome, ForeignError
<1>5. NameHeld' /\ OverlapSeen' /\ OwnOutcome' /\ ForeignError' /\ Undecided'
  BY <1>1 DEF TypeOK, NameHeld, OverlapSeen, Running, OwnOutcome, ForeignError, Undecided
<1>. QED BY <1>2, <1>3, <1>4, <1>5

LEMMA CloseStep == ASSUME IInv, Close PROVE IInv'
BY DEF IInv, Close, TypeOK, AcceptedByModule, RefusalExplained, NameHeld, OverlapSeen, Running,
       OwnOutcome, ForeignError, Undecided

LEMMA NextIInv == IInv /\ [Next]_vars => IInv'
<1>. SUFFICES ASSUME IInv, [Next]_vars PROVE IInv'
  OBVIOUS
<1>1. CASE UNCHANGED vars
  BY <1>1 DEF vars, IInv, TypeOK, AcceptedByModule, RefusalExplained, NameHeld, OverlapSeen,
              Running, OwnOutcome, ForeignError, Undecided
<1>. QED BY <1>1, InstantiateStep, CallStep, AssignStep, TestStep, CloseStep DEF Next

\* A verification is only OK if the module accepted this request's own solution.
THEOREM Accepted == Spec => []AcceptedByModule
<1>1. IInv => AcceptedByModule
  BY DEF IInv
<1>. QED BY <1>1, InitIInv, NextIInv, PTL DEF Spec

\* A good solution is only refused because of an overlapping call or a reload.
THEOREM Refusals == Spec => []RefusalExplained
<1>1. IInv => RefusalExplained
  BY DEF IInv
<1>. QED BY <1>1, InitIInv, NextIInv, PTL DEF Spec
=============================================================================
