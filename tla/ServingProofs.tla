----------------------------- MODULE ServingProofs -----------------------------
(***************************************************************************)
(* The loader and the server.  First the loader of Reload by itself: the   *)
(* server never serves a state that is closed or half built, for any       *)
(* number of reloads, failures and signals.  Then requests over reloads:   *)
(* a request of the server is a request over the loader, whose invariants  *)
(* carry over, and what is proved of the shared error handler and of       *)
(* requests without an answer.                                             *)
(***************************************************************************)
EXTENDS Serving, TLAPS

\* A state that can be served.
Whole(i) == i \in built /\ i \notin closed /\ live[i] = Objects

\* What is being built has not been seen by anybody.
Fresh == pc \in {"read", "key", "build", "fetch"} =>
           /\ loads \in Ids /\ loads \notin built /\ loads \notin closed
           /\ loads # serving /\ loads # handler /\ old = handler

\* Where main's two variables point to, by the loader's position.
Pointers ==
    /\ loads \in Ids
    /\ \A i \in Ids : i > loads => i \notin built /\ i \notin closed
    /\ serving <= loads /\ handler <= loads /\ old <= loads
    /\ pc \in {"read", "key", "build", "fetch", "wait"} => handler \in {0, serving}
    /\ pc = "swap" => handler = loads /\ Whole(handler) /\ old \in {0, serving} /\ old # handler
    /\ pc = "close" => handler = serving /\ old # serving
    /\ pc = "notify" => handler = serving

IInv == TypeOK /\ ServingOpen /\ Fresh /\ Pointers

\* The type invariant's part about the policy's files, and the rest of it.
FilesTyped ==
    /\ edits \in Nat /\ disk \in [Files -> Nat]
    /\ defs \in [Files -> SUBSET Names] /\ bad \subseteq Files
    /\ next \in 0 .. Absent /\ read \in [Files -> Nat]
    /\ origin \in [Names -> 0 .. Absent] /\ torn \in BOOLEAN

LEMMA FinishedTyped == ASSUME FilesTyped, Finished PROVE FilesTyped'
<1>. USE FilesAssumption DEF FilesTyped, Finished, files, Files, Absent
<1>1. torn' \in BOOLEAN
  BY Zenon
<1>2. next' \in 0 .. Absent /\ read' \in [Files -> Nat] /\ origin' \in [Names -> 0 .. Absent]
  OBVIOUS
<1>3. UNCHANGED <<edits, disk, defs, bad>>
  OBVIOUS
<1>. QED BY <1>1, <1>2, <1>3

LEMMA InitIInv == Init => IInv
<1>. SUFFICES ASSUME Init PROVE IInv
  OBVIOUS
<1>. USE LoadsAssumption, SwitchAssumption DEF Init, Ids
<1>1. pending \in BOOLEAN /\ torn \in BOOLEAN
  BY Zenon DEF FilesInit
<1>2. FilesTyped
  BY <1>1, FilesAssumption DEF FilesInit, FilesTyped, Files, Absent
<1>3. TypeOK
  BY <1>1, <1>2 DEF TypeOK, FilesTyped
<1>4. ServingOpen /\ Fresh /\ Pointers
  BY DEF ServingOpen, Fresh, Pointers
<1>. QED BY <1>3, <1>4 DEF IInv

\* A step that leaves the loader's own variables alone keeps the invariant.
LEMMA OthersStep == ASSUME IInv, Edit \/ Hup PROVE IInv'
<1>. USE DEF IInv, states, loader, signals
<1>1. CASE Edit
  <2>1. PICK f \in Files, breaks \in BOOLEAN : EditFile(f, breaks)
    BY <1>1 DEF Edit
  <2>2. torn' \in BOOLEAN
    BY <2>1, Zenon DEF EditFile
  <2>3. edits' \in Nat /\ disk' \in [Files -> Nat] /\ bad' \subseteq Files
    BY <2>1 DEF EditFile, TypeOK
  <2>4. defs' \in [Files -> SUBSET Names]
    <3>1. PICK names \in SUBSET Names : defs' = [defs EXCEPT ![f] = names]
      BY <2>1 DEF EditFile
    <3>. QED BY <3>1 DEF TypeOK
  <2>5. TypeOK'
    BY <1>1, <2>1, <2>2, <2>3, <2>4 DEF Edit, EditFile, TypeOK
  <2>6. ServingOpen' /\ Fresh' /\ Pointers'
    BY <1>1 DEF Edit, ServingOpen, Fresh, Pointers, Whole
  <2>. QED BY <2>5, <2>6
<1>2. CASE Hup
  <2>1. TypeOK'
    <3>1. pending' \in BOOLEAN /\ wanted' \in [Files -> Nat]
      BY <1>2 DEF Hup, TypeOK
    <3>. QED BY <1>2, <3>1 DEF Hup, TypeOK, files, load
  <2>2. ServingOpen' /\ Fresh' /\ Pointers'
    BY <1>2 DEF Hup, ServingOpen, Fresh, Pointers, Whole
  <2>. QED BY <2>1, <2>2
<1>. QED BY <1>1, <1>2

\* What a load that fails leaves of the type invariant.
LEMMA LoadFailsTyped ==
  ASSUME TypeOK, LoadFails
  PROVE  /\ FilesTyped' /\ pc' \in {"wait", "dead"} /\ handler' = 0
         /\ settled' \in [Files -> Nat]
         /\ UNCHANGED <<loads, old, serving, pending, wanted>>
<1>. USE DEF LoadFails, signals
<1>1. FilesTyped
  BY DEF TypeOK, FilesTyped
<1>2. FilesTyped'
  BY <1>1, FinishedTyped
<1>. QED BY <1>2 DEF TypeOK

LEMMA ReadPolicyStep == ASSUME IInv, ReadPolicy PROVE IInv'
<1>. USE DEF IInv, ReadPolicy, states, loader, signals
<1>1. CASE LoadFails
  <2>1. TypeOK'
    BY <1>1, LoadFailsTyped DEF TypeOK, FilesTyped
  <2>2. /\ pc' \in {"wait", "dead"} /\ handler' = 0
        /\ UNCHANGED <<loads, old, serving, live, built, closed>>
    BY <1>1, LoadFailsTyped
  <2>3. ServingOpen' /\ Fresh'
    BY <2>2 DEF ServingOpen, Fresh
  <2>4. Pointers'
    BY <2>2 DEF TypeOK, Pointers, Whole, Ids
  <2>. QED BY <2>1, <2>3, <2>4
<1>2. CASE ReadFile /\ pc' = (IF next = Snippets THEN "key" ELSE "read")
           /\ UNCHANGED <<loader, signals, settled>>
  <2>1. next' \in 0 .. Absent /\ read' \in [Files -> Nat]
    BY <1>2, FilesAssumption DEF ReadFile, TypeOK, Files, Absent
  <2>2. origin' \in [Names -> 0 .. Absent]
    <3>1. next \in 0 .. Absent
      BY DEF TypeOK
    <3>. QED BY <1>2, <3>1 DEF ReadFile, Merge, TypeOK
  <2>3. TypeOK'
    BY <1>2, <2>1, <2>2 DEF ReadFile, TypeOK, files
  <2>4. ServingOpen' /\ Fresh' /\ Pointers'
    BY <1>2 DEF TypeOK, ServingOpen, Fresh, Pointers, Whole, Ids
  <2>. QED BY <2>3, <2>4
<1>. QED BY <1>1, <1>2

LEMMA MakeKeyStep == ASSUME IInv, MakeKey PROVE IInv'
<1>. USE DEF IInv, MakeKey, files, load, loader, signals
<1>1. TypeOK'
  BY DEF TypeOK
<1>2. ServingOpen' /\ Fresh' /\ Pointers'
  BY DEF ServingOpen, Fresh, Pointers, Whole
<1>. QED BY <1>1, <1>2

LEMMA PreloadStep == ASSUME IInv, Preload PROVE IInv'
<1>. USE DEF IInv, Preload, files, load, loader, signals
<1>1. PICK started \in SUBSET Objects : live' = [live EXCEPT ![loads] = started]
  OBVIOUS
<1>2. PICK n \in Networks : lists' = lists \cup {n}
  OBVIOUS
<1>3. loads \in Ids /\ loads # serving /\ \A i \in Ids : i # loads => live'[i] = live[i]
  BY <1>1 DEF TypeOK, Fresh
<1>4. TypeOK'
  BY <1>1, <1>2 DEF TypeOK
<1>5. ServingOpen'
  BY <1>3 DEF TypeOK, ServingOpen
<1>6. Fresh' /\ Pointers'
  BY <1>3 DEF TypeOK, Fresh, Pointers, Whole
<1>. QED BY <1>4, <1>5, <1>6

LEMMA SourceAnswersStep == ASSUME IInv, SourceAnswers PROVE IInv'
<1>. USE DEF IInv, SourceAnswers, files, load, loader, states, signals
<1>1. TypeOK'
  BY DEF TypeOK
<1>2. ServingOpen' /\ Fresh' /\ Pointers'
  BY DEF TypeOK, ServingOpen, Fresh, Pointers, Whole
<1>. QED BY <1>1, <1>2

LEMMA BuildStep == ASSUME IInv, Build PROVE IInv'
<1>. USE DEF IInv, Build
<1>1. loads \in Ids /\ loads # serving /\ \A i \in Ids : i # loads => live'[i] = live[i]
  BY DEF TypeOK, Fresh
<1>2. CASE /\ live' = [live EXCEPT ![loads] = Objects] /\ built' = built \cup {loads}
           /\ handler' = loads /\ pc' = "swap"
           /\ UNCHANGED <<files, load, loads, old, serving, signals, settled>>
  <2>1. TypeOK'
    BY <1>1, <1>2 DEF TypeOK, files, load, signals
  <2>2. ServingOpen'
    BY <1>1, <1>2 DEF TypeOK, ServingOpen
  <2>3. Fresh' /\ Pointers'
    BY <1>1, <1>2 DEF TypeOK, Fresh, Pointers, Whole, Ids
  <2>. QED BY <2>1, <2>2, <2>3
<1>3. CASE /\ \E started \in SUBSET Objects : live' = [live EXCEPT ![loads] = started]
           /\ UNCHANGED built /\ LoadFails
  <2>. USE <1>3, LoadFailsTyped
  <2>1. TypeOK'
    BY <1>1 DEF TypeOK, FilesTyped
  <2>2. ServingOpen'
    BY <1>1 DEF TypeOK, ServingOpen
  <2>3. Fresh' /\ Pointers'
    BY <1>1 DEF TypeOK, Fresh, Pointers, Whole, Ids
  <2>. QED BY <2>1, <2>2, <2>3
<1>. QED BY <1>2, <1>3

LEMMA SwapStep == ASSUME IInv, Swap PROVE IInv'
<1>. USE DEF IInv, Swap, states, signals
<1>1. handler \in Ids
  BY DEF TypeOK, Pointers
<1>2. TypeOK'
  <2>1. FilesTyped
    BY DEF TypeOK, FilesTyped
  <2>2. FilesTyped'
    BY <2>1, FinishedTyped
  <2>. QED BY <1>1, <2>2 DEF TypeOK, FilesTyped
<1>3. ServingOpen'
  BY DEF Pointers, Whole, ServingOpen
<1>4. Fresh' /\ Pointers'
  BY <1>1 DEF TypeOK, Fresh, Pointers, Whole, Ids
<1>. QED BY <1>2, <1>3, <1>4

LEMMA NotifyStep == ASSUME IInv, Notify PROVE IInv'
<1>. USE DEF IInv, Notify, files, load, loader, states, signals
<1>1. TypeOK'
  BY DEF TypeOK
<1>2. ServingOpen' /\ Fresh' /\ Pointers'
  BY DEF TypeOK, ServingOpen, Fresh, Pointers, Whole, Ids
<1>. QED BY <1>1, <1>2

LEMMA TakeSignalStep == ASSUME IInv, TakeSignal PROVE IInv'
<1>. USE LoadsAssumption DEF IInv, TakeSignal, states
<1>1. loads' \in Ids
  BY DEF TypeOK, Pointers, Ids
<1>2. TypeOK'
  <2>1. pending' \in BOOLEAN
    BY Zenon
  <2>2. loads' \in Nat /\ pc' = "read" /\ old' = handler
    BY DEF TypeOK
  <2>. QED BY <2>1, <2>2 DEF TypeOK, files, load
<1>3. ServingOpen'
  BY DEF ServingOpen
<1>4. Fresh' /\ Pointers'
  BY <1>1 DEF TypeOK, Fresh, Pointers, Whole, Ids
<1>. QED BY <1>2, <1>3, <1>4

LEMMA CloseOldStep == ASSUME IInv, CloseOld PROVE IInv'
<1>. USE DEF IInv, CloseOld, files, load, loader, signals
<1>1. CASE old = 0
  <2>1. TypeOK'
    BY <1>1 DEF TypeOK
  <2>2. ServingOpen' /\ Fresh' /\ Pointers'
    BY <1>1 DEF TypeOK, ServingOpen, Fresh, Pointers, Whole, Ids
  <2>. QED BY <2>1, <2>2
<1>2. CASE old # 0
  <2>1. old \in Ids /\ old # serving
    BY <1>2 DEF TypeOK, Pointers
  <2>2. PICK left \in SUBSET live[old] : live' = [live EXCEPT ![old] = left]
    <3>1. PICK left \in IF "close" \in Failures THEN SUBSET live[old] ELSE {{}} :
             live' = [live EXCEPT ![old] = left]
      BY <1>2
    <3>2. left \in SUBSET live[old]
      OBVIOUS
    <3>. QED BY <3>1, <3>2
  <2>3. closed' = closed \cup {old}
    BY <1>2
  <2>4. TypeOK'
    BY <2>1, <2>2, <2>3 DEF TypeOK
  <2>5. ServingOpen'
    BY <2>1, <2>2, <2>3 DEF TypeOK, ServingOpen
  <2>6. Fresh' /\ Pointers'
    BY <2>1, <2>3 DEF TypeOK, Fresh, Pointers, Whole, Ids
  <2>. QED BY <2>4, <2>5, <2>6
<1>. QED BY <1>1, <1>2

LEMMA NextIInv == IInv /\ [Next]_vars => IInv'
<1>. SUFFICES ASSUME IInv, [Next]_vars PROVE IInv'
  OBVIOUS
<1>1. CASE UNCHANGED vars
  <2>1. TypeOK'
    BY <1>1 DEF vars, files, load, loader, states, signals, IInv, TypeOK
  <2>2. ServingOpen' /\ Fresh' /\ Pointers'
    BY <1>1 DEF vars, loader, states, IInv, ServingOpen, Fresh, Pointers, Whole
  <2>. QED BY <2>1, <2>2 DEF IInv
<1>. QED BY <1>1, OthersStep, ReadPolicyStep, MakeKeyStep, PreloadStep, SourceAnswersStep, BuildStep,
            SwapStep, NotifyStep, TakeSignalStep, CloseOldStep DEF Next, Loader

-----------------------------------------------------------------------------
\* Why a state that was replaced may still have objects that run.
Explained(i) ==
    live[i] # {} => (i \in closed /\ "close" \in Failures) \/ i + 1 \notin built

\* The last load but one, by the loader's position: either it was swapped in and
\* main still points to it, or it failed and main has forgotten the state before.
Chain ==
    /\ pc \notin {"swap", "dead"} => \A i \in built : i <= serving
    /\ pc \in {"read", "key", "build", "fetch"} =>
         \/ handler = loads - 1 /\ serving = loads - 1
         \/ handler = 0 /\ serving < loads - 1
    /\ pc = "swap" =>
         /\ handler = loads /\ \A i \in built : i <= serving \/ i = loads
         /\ \/ old = loads - 1 /\ serving = loads - 1
            \/ old = 0 /\ serving < loads - 1
    /\ pc = "close" => handler = loads /\ serving = loads
    /\ pc = "notify" => handler = loads /\ serving = loads
    /\ pc = "wait" => \/ handler = loads /\ serving = loads
                      \/ handler = 0 /\ serving < loads
    /\ pc # "dead" => \A i \in built \ {serving} :
         \/ pc = "swap" /\ i = loads
         \/ pc = "close" /\ i = old
         \/ Explained(i)

LEMMA InitChain == Init => Chain
BY DEF Init, Chain

LEMMA NextChain == ASSUME IInv, Chain, [Next]_vars PROVE Chain'
<1>. USE DEF IInv
<1>0. /\ loads \in Int /\ serving \in Int /\ handler \in Int /\ old \in Int
      /\ built \subseteq Int /\ built \subseteq Ids /\ live \in [Ids -> SUBSET Objects]
  BY DEF TypeOK, Ids
<1>1. CASE UNCHANGED vars \/ Edit \/ Hup
  <2>1. UNCHANGED <<loads, handler, old, serving, live, built, closed>> /\ pc' \in {pc, "dead"}
    BY <1>1 DEF vars, states, loader, Edit, Hup
  <2>. QED BY <1>0, <2>1 DEF Chain, Explained
<1>2. ASSUME LoadFails, pc \in {"read", "key", "build"}, UNCHANGED <<built, closed>>,
             \A i \in built : live'[i] = live[i]
      PROVE  Chain'
  <2>1. pc' \in {"wait", "dead"} /\ handler' = 0 /\ UNCHANGED <<loads, old, serving>>
    BY <1>2, LoadFailsTyped
  <2>2. pc' = "wait" => serving # 0
    BY <1>2 DEF LoadFails, Notified
  <2>3. serving < loads
    BY <1>0, <1>2 DEF Chain
  <2>. QED BY <1>0, <1>2, <2>1, <2>2, <2>3 DEF Chain, Explained
<1>3. CASE ReadPolicy
  <2>1. CASE LoadFails
    BY <1>2, <1>3, <2>1 DEF ReadPolicy, states
  <2>2. CASE UNCHANGED loader /\ pc' \in {"key", "read"}
    BY <1>0, <1>3, <2>2 DEF ReadPolicy, states, loader, Chain, Explained
  <2>. QED BY <1>3, <2>1, <2>2 DEF ReadPolicy
<1>4. CASE MakeKey \/ SourceAnswers
  BY <1>0, <1>4 DEF MakeKey, SourceAnswers, states, loader, Chain, Explained
<1>10. CASE Preload
  <2>1. /\ loads \notin built /\ pc = "build" /\ pc' \in {"build", "fetch"}
        /\ UNCHANGED <<loads, handler, old, serving, built, closed>>
    BY <1>10 DEF Preload, Fresh, loader
  <2>2. \A i \in built : live'[i] = live[i]
    BY <1>0, <1>10, <2>1 DEF Preload
  <2>. QED BY <1>0, <2>1, <2>2 DEF Chain, Explained
<1>5. CASE Build
  <2>1. loads \in Ids /\ loads \notin built /\ \A i \in built : live'[i] = live[i]
    BY <1>0, <1>5 DEF Build, Fresh
  <2>2. CASE LoadFails /\ UNCHANGED built
    BY <1>2, <1>5, <2>1, <2>2 DEF Build
  <2>3. CASE /\ built' = built \cup {loads} /\ handler' = loads /\ pc' = "swap"
             /\ UNCHANGED <<loads, old, serving>>
    <3>1. old = handler /\ closed' = closed /\ pc = "build"
      BY <1>5 DEF Build, Fresh
    <3>2. \A i \in built \ {serving} : i + 1 # loads
      BY <1>0, <3>1 DEF Chain
    <3>3. \A i \in built' \ {serving'} : i = loads \/ Explained(i)'
      BY <1>0, <2>1, <2>3, <3>1, <3>2 DEF Chain, Explained
    <3>4. \A i \in built' : i <= serving \/ i = loads
      BY <2>3, <3>1 DEF Chain
    <3>5. (old = loads - 1 /\ serving = loads - 1) \/ (old = 0 /\ serving < loads - 1)
      BY <3>1 DEF Chain
    <3>. QED BY <2>3, <3>3, <3>4, <3>5 DEF Chain
  <2>. QED BY <1>5, <2>2, <2>3 DEF Build
<1>6. CASE Swap
  <2>1. serving + 1 # loads => serving + 1 \notin built
    BY <1>0, <1>6 DEF Swap, Chain
  <2>2. /\ pc = "swap" /\ pc' \in {"notify", "close"} /\ serving' = loads
        /\ UNCHANGED <<loads, handler, old, live, built, closed>>
    BY <1>6 DEF Swap, states, Chain
  <2>3. \A i \in built : i <= loads
    BY <1>0, <2>2 DEF Chain
  <2>4. ASSUME NEW i \in built, i # loads PROVE (pc' = "close" /\ i = old) \/ Explained(i)'
    <3>1. CASE i = serving
      <4>1. i # 0
        BY <1>0, <2>4 DEF Ids
      <4>2. pc' = "close"
        BY <1>6, <3>1, <4>1 DEF Swap
      <4>. QED BY <1>0, <2>1, <2>2, <3>1, <4>2 DEF Chain, Explained
    <3>2. CASE i # serving
      BY <2>2, <2>4, <3>2 DEF Chain, Explained
    <3>. QED BY <3>1, <3>2
  <2>5. handler = loads
    BY <2>2 DEF Chain
  <2>. QED BY <2>2, <2>3, <2>4, <2>5 DEF Chain
<1>7. CASE Notify
  BY <1>0, <1>7 DEF Notify, states, loader, Chain, Explained
<1>8. CASE TakeSignal
  BY <1>0, <1>8 DEF TakeSignal, states, Chain, Explained
<1>9. CASE CloseOld
  <2>1. pc = "close" /\ pc' = "wait" /\ UNCHANGED <<loads, handler, old, serving, built>>
    BY <1>9 DEF CloseOld, loader
  <2>2. CASE old = 0
    BY <1>0, <1>9, <2>1, <2>2 DEF CloseOld, Chain, Explained, Ids
  <2>3. CASE old # 0
    <3>1. old \in Ids
      BY <2>3 DEF TypeOK
    <3>2. PICK left : /\ left \in IF "close" \in Failures THEN SUBSET live[old] ELSE {{}}
                      /\ live' = [live EXCEPT ![old] = left]
      BY <1>9, <2>3 DEF CloseOld
    <3>3. closed' = closed \cup {old}
      BY <1>9, <2>3 DEF CloseOld
    <3>4. live'[old] # {} => "close" \in Failures
      BY <1>0, <3>1, <3>2
    <3>5. \A i \in built : i # old => live'[i] = live[i]
      BY <1>0, <3>1, <3>2
    <3>6. \A i \in built' \ {serving'} : Explained(i)'
      BY <2>1, <3>3, <3>4, <3>5 DEF Chain, Explained
    <3>7. handler = loads /\ serving = loads /\ \A i \in built : i <= serving
      BY <2>1 DEF Chain
    <3>. QED BY <2>1, <3>6, <3>7 DEF Chain
  <2>. QED BY <2>2, <2>3
<1>. QED BY <1>1, <1>3, <1>4, <1>5, <1>6, <1>7, <1>8, <1>9, <1>10 DEF Next, Loader

-----------------------------------------------------------------------------
\* The definitions a load has merged so far, if nobody has edited a file since it
\* began: each from the first of the files read that has it.
Merged ==
    \A n \in Names :
      /\ origin[n] # Absent => n \in defs[origin[n]] /\ origin[n] < next
      /\ \A f \in Files : f < next /\ n \in defs[f] => origin[n] <= f

Reading ==
    /\ ~torn => Merged
    /\ pc = "read" => next \in Files
    /\ pc = "key" => next = Absent
    /\ pc \in {"notify", "wait", "close"} => next = 0

LEMMA FinishedReading == ASSUME TypeOK, Finished PROVE next' = 0 /\ Merged'
<1>1. next' = 0 /\ \A n \in Names : origin'[n] = Absent
  BY DEF Finished
<1>2. \A f \in Files : ~(f < 0)
  BY FilesAssumption DEF Files
<1>. QED BY <1>1, <1>2 DEF Merged

\* One more file is merged: what is there already stays.
LEMMA ReadFileMerged == ASSUME TypeOK, Merged, ReadFile PROVE Merged'
<1>1. /\ next \in Files /\ next' = next + 1 /\ defs' = defs
      /\ \A n \in Names : origin'[n] = IF origin[n] = Absent /\ n \in defs[next] THEN next ELSE origin[n]
  BY DEF ReadFile, Merge, files
<1>2. /\ Absent \in Nat /\ \A f \in Files : f \in Nat /\ f < Absent
      /\ \A n \in Names : origin[n] \in Nat
  BY FilesAssumption DEF Files, Absent, TypeOK
<1>3. ASSUME NEW n \in Names
      PROVE  /\ origin'[n] # Absent => n \in defs[origin'[n]] /\ origin'[n] < next + 1
             /\ \A f \in Files : f < next + 1 /\ n \in defs[f] => origin'[n] <= f
  <2>1. CASE origin[n] = Absent /\ n \in defs[next]
    <3>1. \A f \in Files : f < next => n \notin defs[f]
      BY <1>2, <2>1 DEF Merged
    <3>. QED BY <1>1, <1>2, <2>1, <3>1
  <2>2. CASE ~(origin[n] = Absent /\ n \in defs[next])
    <3>1. origin'[n] = origin[n]
      BY <1>1, <2>2
    <3>2. ASSUME NEW f \in Files, f < next + 1, n \in defs[f] PROVE origin[n] <= f
      <4>1. CASE f = next
        BY <1>1, <1>2, <2>2, <3>2, <4>1 DEF Merged
      <4>2. CASE f # next
        BY <1>1, <1>2, <3>2, <4>2 DEF Merged
      <4>. QED BY <4>1, <4>2
    <3>. QED BY <1>1, <1>2, <3>1, <3>2 DEF Merged
  <2>. QED BY <2>1, <2>2
<1>. QED BY <1>1, <1>3 DEF Merged

LEMMA InitReading == Init => Reading
<1>. SUFFICES ASSUME Init PROVE Reading
  OBVIOUS
<1>1. next = 0 /\ pc = "read" /\ \A n \in Names : origin[n] = Absent
  BY DEF Init, FilesInit
<1>2. 0 \in Files /\ \A f \in Files : ~(f < 0)
  BY FilesAssumption DEF Files
<1>. QED BY <1>1, <1>2 DEF Reading, Merged

LEMMA NextReading == ASSUME IInv, Reading, [Next]_vars PROVE Reading'
<1>0. TypeOK /\ 0 \in Files
  BY FilesAssumption DEF IInv, Files
<1>1. CASE Edit
  <2>1. PICK f \in Files, breaks \in BOOLEAN : EditFile(f, breaks)
    BY <1>1 DEF Edit
  <2>2. UNCHANGED <<next, origin, pc>> /\ (~torn' => ~torn /\ next = 0)
    <3>1. ~torn' => ~torn /\ ~(next > 0)
      BY <2>1, Zenon DEF EditFile
    <3>2. next \in Nat
      BY <1>0, FilesAssumption DEF TypeOK, Absent
    <3>3. UNCHANGED <<next, origin, pc>>
      BY <1>1, <2>1 DEF Edit, EditFile
    <3>. QED BY <3>1, <3>2, <3>3
  <2>3. next = 0 /\ Merged => Merged'
    <3>1. \A n \in Names : origin[n] \in Nat
      BY <1>0, FilesAssumption DEF TypeOK, Absent
    <3>2. \A g \in Files : ~(g < 0)
      BY FilesAssumption DEF Files
    <3>. QED BY <2>2, <3>1, <3>2 DEF Merged
  <2>. QED BY <2>2, <2>3 DEF Reading
<1>2. CASE \/ UNCHANGED vars \/ Hup \/ MakeKey \/ Preload \/ SourceAnswers
           \/ Notify \/ TakeSignal \/ CloseOld
  <2>1. UNCHANGED <<next, origin, torn, defs>>
    BY <1>2 DEF vars, Hup, MakeKey, Preload, SourceAnswers, Notify, TakeSignal, CloseOld, files, load
  <2>2. Merged => Merged'
    BY <2>1 DEF Merged
  <2>3. /\ pc' = "read" => next \in Files
        /\ pc' = "key" => next = Absent
        /\ pc' \in {"notify", "wait", "close"} => next = 0
    BY <1>0, <1>2 DEF vars, Hup, MakeKey, Preload, SourceAnswers, Notify, TakeSignal, CloseOld, Reading
  <2>. QED BY <2>1, <2>2, <2>3 DEF Reading
<1>3. ASSUME Finished, pc' \in {"notify", "wait", "close", "dead"} PROVE Reading'
  BY <1>0, <1>3, FinishedReading DEF Reading
<1>4. CASE ReadPolicy
  <2>1. CASE LoadFails
    BY <1>3, <2>1 DEF LoadFails
  <2>2. CASE ReadFile /\ pc' = (IF next = Snippets THEN "key" ELSE "read")
    <3>1. ~torn' => Merged'
      BY <1>0, <2>2, ReadFileMerged DEF ReadFile, Reading
    <3>2. (pc' = "read" => next' \in Files) /\ (pc' = "key" => next' = Absent)
      BY <2>2, FilesAssumption DEF ReadFile, Files, Absent
    <3>. QED BY <2>2, <3>1, <3>2 DEF Reading
  <2>. QED BY <1>4, <2>1, <2>2 DEF ReadPolicy
<1>5. CASE Build
  <2>1. CASE LoadFails
    BY <1>3, <2>1 DEF LoadFails
  <2>2. CASE pc' = "swap" /\ UNCHANGED <<files, load>>
    <3>1. Merged => Merged'
      BY <2>2 DEF files, load, Merged
    <3>. QED BY <2>2, <3>1 DEF Reading, load
  <2>. QED BY <1>5, <2>1, <2>2 DEF Build
<1>6. CASE Swap
  BY <1>3, <1>6 DEF Swap
<1>. QED BY <1>1, <1>2, <1>4, <1>5, <1>6 DEF Next, Loader

LEMMA ReadingPolicy == IInv /\ Reading => PolicyAsOnDisk
<1>1. \A f \in Files : f < Absent
  BY FilesAssumption DEF Files, Absent
<1>. QED BY <1>1 DEF Reading, Merged, PolicyAsOnDisk

-----------------------------------------------------------------------------
LEMMA AlwaysIInv == Spec => []IInv
BY InitIInv, NextIInv, PTL DEF Spec

\* Every variable of the loader keeps its type: in particular a state's key is
\* never made from a seed that is not set.
THEOREM ReloadTyped == Spec => []TypeOK
<1>1. IInv => TypeOK
  BY DEF IInv
<1>. QED BY <1>1, AlwaysIInv, PTL

\* Once a state serves, the server always has one that is whole and open.
THEOREM AlwaysServing == Spec => []ServingOpen
<1>1. IInv => ServingOpen
  BY DEF IInv
<1>. QED BY <1>1, AlwaysIInv, PTL

\* At rest, objects of a replaced state run only if its Close failed or the reload
\* right after it did: no other sequence of signals, edits and failures leaks them.
THEOREM LeaksExplained == Spec => []LeakExplained
<1>1. IInv /\ Chain => LeakExplained
  BY DEF Chain, Explained, LeakExplained
<1>2. IInv /\ Chain /\ [Next]_vars => Chain'
  BY NextChain
<1>. QED BY <1>1, <1>2, InitChain, AlwaysIInv, PTL DEF Spec

\* A policy that was read while nobody edited it takes every definition from the
\* main file or else from the first snippet that has it, for any number of files
\* (NewPolicy's loop over the snippet directories).
THEOREM PolicyMerged == Spec => []PolicyAsOnDisk
<1>1. IInv /\ Reading /\ [Next]_vars => Reading'
  BY NextReading
<1>. QED BY <1>1, InitReading, ReadingPolicy, AlwaysIInv, PTL DEF Spec

-----------------------------------------------------------------------------
(* The server on top of the loader.                                        *)


\* A step of the server is a step of the loader and its surroundings, or none.
LEMMA ServingStep == [ServingNext]_servingVars => [Next]_vars
BY DEF ServingNext, Step, Toggle, Accept, Decide, Page, Error, Proxy, Abort, Goto, Fails, Answer,
       servingVars

LEMMA ServingIInv == ServingSpec => [](IInv /\ Chain /\ Reading)
<1>1. ServingInit => IInv /\ Chain /\ Reading
  BY InitIInv, InitChain, InitReading DEF ServingInit
<1>2. IInv /\ Chain /\ Reading /\ [ServingNext]_servingVars => (IInv /\ Chain /\ Reading)'
  BY NextIInv, NextChain, NextReading, ServingStep
<1>. QED BY <1>1, <1>2, PTL DEF ServingSpec

-----------------------------------------------------------------------------
\* The error handler belongs to the first state, and nobody is served before that
\* one is built: the loader gives up if it cannot be.
FirstOwns ==
    /\ owner \in {0, 1}
    /\ serving = 0 => loads = 1 \/ pc = "dead"
    /\ pc \in {"build", "fetch", "swap", "notify", "close", "wait"} => owner = 1
    /\ pc = "read" /\ loads # 1 => owner = 1
    /\ pc = "key" /\ loads # 1 => owner = 1
    /\ pc = "swap" => 1 \in built
    /\ pc \in {"notify", "close", "wait"} => serving # 0
    /\ serving # 0 => owner = 1 /\ 1 \in built
    /\ pin # 0 => pin \in built /\ serving # 0

LEMMA InitFirstOwns == ServingInit => FirstOwns
BY DEF ServingInit, Init, FirstOwns

LEMMA NextFirstOwns ==
  ASSUME IInv, IInv', FirstOwns, [ServingNext]_servingVars PROVE FirstOwns'
<1>. USE DEF FirstOwns
<1>1. CASE Step
  <2>. USE <1>1 DEF Step, request
  <2>0. loads \in Nat /\ loads \in Ids /\ serving \in Nat /\ UNCHANGED <<pin, up>>
    BY DEF IInv, Pointers, TypeOK, Ids
  <2>1. CASE MakeKey
    BY <2>0, <2>1 DEF MakeKey, loader
  <2>2. CASE ~MakeKey
    <3>0. owner' = owner
      BY <2>2
    <3>1. CASE Edit \/ Hup
      BY <3>0, <3>1, <2>0 DEF Edit, Hup, states, loader
    <3>2. ASSUME LoadFails, UNCHANGED built, pc # "key" PROVE FirstOwns'
      BY <3>0, <3>2, <2>0 DEF LoadFails, Notified
    <3>3. CASE ReadPolicy
      BY <3>0, <3>2, <3>3, <2>0 DEF ReadPolicy, states, loader
    <3>4. CASE Build
      <4>1. CASE LoadFails /\ UNCHANGED built
        BY <3>2, <3>4, <4>1 DEF Build
      <4>2. CASE built' = built \cup {loads} /\ pc' = "swap" /\ UNCHANGED <<loads, serving>>
        BY <3>0, <3>4, <4>2, <2>0 DEF Build
      <4>. QED BY <3>4, <4>1, <4>2 DEF Build
    <3>5. CASE Swap
      <4>1. handler = loads
        BY <3>5 DEF Swap, IInv, Pointers
      <4>. QED BY <3>0, <3>5, <4>1, <2>0 DEF Swap, states, Ids
    <3>6. CASE Preload \/ SourceAnswers \/ Notify \/ TakeSignal
      BY <3>0, <3>6, <2>0 DEF Preload, SourceAnswers, Notify, TakeSignal, states, loader
    <3>7. CASE CloseOld
      BY <3>0, <3>7, <2>0 DEF CloseOld, loader
    <3>. QED BY <2>2, <3>1, <3>3, <3>4, <3>5, <3>6, <3>7 DEF Next, Loader
  <2>. QED BY <2>1, <2>2
<1>2. CASE ~Step
  <2>1. UNCHANGED <<pc, loads, serving, built, owner>>
    BY <1>2 DEF ServingNext, Toggle, Accept, Decide, Page, Error, Proxy, Abort, Goto, Fails, Answer,
                servingVars, vars, loader, states
  <2>2. pin' \in {0, pin, serving}
    BY <1>2 DEF ServingNext, Toggle, Accept, Decide, Page, Error, Proxy, Abort, Goto, Fails, Answer,
                servingVars, request
  <2>3. serving # 0 => serving \in built
    BY DEF IInv, ServingOpen
  <2>. QED BY <2>1, <2>2, <2>3
<1>. QED BY <1>1, <1>2

\* While a state serves a request, the error handler that request may run into is
\* that of a state that was built to the end, over any reloads and failures.
THEOREM HandlersWhole == ServingSpec => []HandlerWhole
<1>1. IInv /\ FirstOwns => HandlerWhole
  BY DEF FirstOwns, HandlerWhole
<1>2. IInv /\ IInv' /\ FirstOwns /\ [ServingNext]_servingVars => FirstOwns'
  BY NextFirstOwns
<1>. QED BY <1>1, <1>2, InitFirstOwns, ServingIInv, PTL DEF ServingSpec

-----------------------------------------------------------------------------
LEMMA NextAborts ==
  ASSUME AbortExplained, [ServingNext]_servingVars PROVE AbortExplained'
<1>. USE DEF AbortExplained
<1>1. CASE Page
  BY <1>1 DEF Page, FetchTagsPanics, Fails, Answer
<1>2. CASE Error
  BY <1>2 DEF Error, FetchTagsPanics, Fails, Goto, Answer
<1>3. CASE Proxy
  BY <1>3 DEF Proxy, Fails, Answer
<1>4. CASE ~Page /\ ~Error /\ ~Proxy
  BY <1>4 DEF ServingNext, Step, Toggle, Accept, Decide, Abort, Goto, Fails, Answer, request,
              servingVars
<1>. QED BY <1>1, <1>2, <1>3, <1>4

\* A request is left without its answer only by a rule or a template that failed, or
\* by its backend if it was passed through or asked for the backend's tags, over any
\* reloads, for any policy and any choice of template.
THEOREM AbortsExplained == ServingSpec => []AbortExplained
<1>1. ServingInit => AbortExplained
  BY DEF ServingInit, AbortExplained
<1>2. AbortExplained /\ [ServingNext]_servingVars => AbortExplained'
  BY NextAborts
<1>. QED BY <1>1, <1>2, PTL DEF ServingSpec

\* The server never loses its state while requests are served, and what it loads
\* is the policy on disk: the loader's invariants, for the composition.
THEOREM ServerStaysOpen == ServingSpec => [](ServingOpen /\ LeakExplained /\ PolicyAsOnDisk)
<1>1. IInv /\ Chain /\ Reading => ServingOpen /\ LeakExplained /\ PolicyAsOnDisk
  BY ReadingPolicy DEF IInv, Chain, Explained, LeakExplained
<1>. QED BY <1>1, ServingIInv, PTL
=============================================================================
