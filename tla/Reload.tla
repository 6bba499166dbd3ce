-------------------------------- MODULE Reload --------------------------------
(***************************************************************************)
(* The life of serving states: the loader goroutine of cmd/go-away/main.go,*)
(* which builds a State (lib.NewState), swaps it into the server (the swap *)
(* function of Bind.Server) and on SIGHUP builds the next one and closes   *)
(* the one before; the parts of NewState that outlive it when it fails;    *)
(* State.Close.  The policy's files (PolicyFiles) are edited at any time.  *)
(* Signals go through a channel that holds one.                            *)
(***************************************************************************)
EXTENDS PolicyFiles, FiniteSets

CONSTANTS
    Networks,     \* the networks that conditions of the policy name
    Objects,      \* background objects of a state: challenges' objects and the tag cache's ticker
    Seeded,       \* is a private key seed configured?
    Failures,     \* what may fail, of "policy" (reading it), "build" and "close"
    MaxLoads      \* bound on the number of states built

ASSUME SwitchAssumption == Seeded \in BOOLEAN /\ Failures \subseteq {"policy", "build", "close"}
ASSUME LoadsAssumption == MaxLoads \in Nat \ {0}

Ids == 1 .. MaxLoads

VARIABLES
    pc,        \* the loader: "read", "key", "build", "fetch", "swap", "notify", "wait", "close" or "dead"
    loads,     \* number of calls of loadPolicyState; the id of the state being built
    key,       \* key[i]: what the private key of state i derives from
    live,      \* live[i]: the background objects of state i that run
    built,     \* the states NewState returned
    closed,    \* the states Close was called on
    lists,     \* the networks whose lists the state being built has loaded
    seed,      \* main's seed slice: "unset", "configured" or "zero"
    handler,   \* main's variable: the id of a state, or 0 for nil
    old,       \* oldHandler
    serving,   \* the state in the server's atomic pointer, 0 before the first swap
    pending,   \* is a signal in the channel?
    wanted,    \* history: wanted[f], the version of file f at the last SIGHUP
    settled    \* history: settled[f], the one the latest load that ended has read

loader == <<loads, handler, old, serving>>
states == <<key, live, built, closed, lists>>
signals == <<pending, wanted>>
vars == <<files, load, pc, loader, states, seed, signals, settled>>

Init ==
    /\ FilesInit
    /\ pc = "read" /\ loads = 1
    /\ key = [i \in Ids |-> "none"]
    /\ live = [i \in Ids |-> {}]
    /\ built = {} /\ closed = {} /\ lists = {}
    /\ seed = IF Seeded THEN "configured" ELSE "unset"
    /\ handler = 0 /\ old = 0 /\ serving = 0
    /\ pending = FALSE
    /\ wanted = [f \in Files |-> 0] /\ settled = [f \in Files |-> 0]

-----------------------------------------------------------------------------
\* The operator changes a file of the policy.
Edit ==
    /\ \E f \in Files, breaks \in IF "policy" \in Failures THEN BOOLEAN ELSE {FALSE} :
         EditFile(f, breaks)
    /\ UNCHANGED <<pc, loader, states, seed, signals, settled>>

Notified == serving # 0 /\ pc # "notify"

\* Mutant: the channel has no buffer.
HupUnbuffered ==
    /\ pc # "dead"
    /\ \/ ~Notified /\ pc' = "dead" /\ UNCHANGED signals
       \/ Notified /\ pending' = (pc = "wait") /\ wanted' = disk /\ UNCHANGED pc
    /\ UNCHANGED <<files, load, loader, states, seed, settled>>

\* SIGHUP ends the process before signal.Notify; after it the signal goes into
\* the channel, unless that is full.
Hup ==
    /\ pc # "dead"
    /\ \/ ~Notified /\ pc' = "dead" /\ UNCHANGED signals
       \/ Notified /\ pending' = TRUE /\ wanted' = disk /\ UNCHANGED pc
    /\ UNCHANGED <<files, load, loader, states, seed, settled>>

-----------------------------------------------------------------------------
\* Mutant: a first load that fails is tried again.
LoadFailsRetry ==
    /\ Notified \/ loads < MaxLoads
    /\ pc' = IF Notified THEN "wait" ELSE "read"
    /\ loads' = IF Notified THEN loads ELSE loads + 1
    /\ handler' = 0
    /\ settled' = [f \in Files |-> IF f < next THEN read[f] ELSE disk[f]]
    /\ Finished
    /\ UNCHANGED <<old, serving, signals>>

\* A load fails: the first one is fatal, a later one leaves handler nil.
LoadFails ==
    /\ pc' = IF Notified THEN "wait" ELSE "dead"
    /\ handler' = 0
    /\ settled' = [f \in Files |-> IF f < next THEN read[f] ELSE disk[f]]
    /\ Finished
    /\ UNCHANGED <<loads, old, serving, signals>>

\* os.ReadFile and NewPolicy, one file of the policy.
ReadPolicy ==
    /\ pc = "read"
    /\ UNCHANGED <<states, seed>>
    /\ \/ Unreadable(next) /\ LoadFails
       \/ /\ ReadFile
          /\ pc' = IF next = Snippets THEN "key" ELSE "read"
          /\ UNCHANGED <<loader, signals, settled>>

\* Mutant: a seed that is not set is used all the same.
MakeKeyRaw ==
    /\ pc = "key"
    /\ key' = [key EXCEPT ![loads] = seed]
    /\ seed' = IF seed = "unset" THEN "unset" ELSE "zero"
    /\ pc' = "build" /\ lists' = {}
    /\ UNCHANGED <<files, load, loader, live, built, closed, signals, settled>>

\* NewState up to the private key; the seed, whose array is main's, is cleared.
MakeKey ==
    /\ pc = "key"
    /\ key' = [key EXCEPT ![loads] = IF seed = "unset" THEN "random" ELSE seed]
    /\ seed' = IF seed = "unset" THEN "unset" ELSE "zero"
    /\ pc' = "build" /\ lists' = {}
    /\ UNCHANGED <<files, load, loader, live, built, closed, signals, settled>>

\* Challenges and rules are created one by one.  RegisterCondition loads the list of
\* each network a condition names (once, sync.OnceValue): from the disk cache, or by
\* a fetch that nothing bounds in time.
Preload ==
    /\ pc = "build" /\ pc' \in {"build", "fetch"}
    /\ \E n \in Networks \ lists : lists' = lists \cup {n}
    /\ \E started \in SUBSET Objects :
         live[loads] \subseteq started /\ live' = [live EXCEPT ![loads] = started]
    /\ UNCHANGED <<files, load, loader, key, built, closed, seed, signals, settled>>

\* The source of the list answers, or the connection breaks.
SourceAnswers ==
    /\ pc = "fetch" /\ pc' = "build"
    /\ UNCHANGED <<files, load, loader, states, seed, signals, settled>>

\* The rest of NewState: all the objects of the challenges and the tag cache's
\* ticker run; last the GeoIP database is opened.  A failure on the way stops none
\* of the objects.
Build ==
    /\ pc = "build"
    /\ UNCHANGED <<key, closed, lists, seed>>
    /\ \/ /\ lists = Networks
          /\ live' = [live EXCEPT ![loads] = Objects]
          /\ built' = built \cup {loads}
          /\ handler' = loads /\ pc' = "swap"
          /\ UNCHANGED <<files, load, loads, old, serving, signals, settled>>
       \/ /\ "build" \in Failures
          /\ \E started \in SUBSET Objects :
               live[loads] \subseteq started /\ live' = [live EXCEPT ![loads] = started]
          /\ UNCHANGED built
          /\ LoadFails

\* swap(handler)
Swap ==
    /\ pc = "swap"
    /\ serving' = handler
    /\ settled' = read
    /\ pc' = IF serving = 0 THEN "notify" ELSE "close"
    /\ Finished
    /\ UNCHANGED <<loads, states, seed, handler, old, signals>>

\* signal.Notify
Notify ==
    /\ pc = "notify" /\ pc' = "wait"
    /\ UNCHANGED <<files, load, loader, states, seed, signals, settled>>

\* for sig := range c
TakeSignal ==
    /\ pc = "wait" /\ pending /\ loads < MaxLoads
    /\ pending' = FALSE
    /\ old' = handler
    /\ loads' = loads + 1 /\ pc' = "read"
    /\ UNCHANGED <<files, load, states, seed, handler, serving, wanted, settled>>

\* Mutants: nothing is closed; the state that has just been swapped in is.
CloseNone ==
    /\ pc = "close" /\ pc' = "wait"
    /\ UNCHANGED <<files, load, loader, states, seed, signals, settled>>
CloseHandler ==
    /\ pc = "close" /\ pc' = "wait"
    /\ closed' = closed \cup {handler}
    /\ live' = [live EXCEPT ![handler] = {}]
    /\ UNCHANGED <<files, load, loader, key, built, lists, seed, signals, settled>>

\* oldHandler.Close(), if there is one: an object that fails to close leaves the
\* rest of them running.
CloseOld ==
    /\ pc = "close" /\ pc' = "wait"
    /\ IF old = 0 THEN UNCHANGED <<closed, live>>
       ELSE /\ closed' = closed \cup {old}
            /\ \E left \in IF "close" \in Failures THEN SUBSET live[old] ELSE {{}} :
                 live' = [live EXCEPT ![old] = left]
    /\ UNCHANGED <<files, load, loader, key, built, lists, seed, signals, settled>>

Loader == ReadPolicy \/ MakeKey \/ Preload \/ Build \/ Swap \/ Notify \/ TakeSignal \/ CloseOld

Next == Edit \/ Hup \/ SourceAnswers \/ Loader

\* The loader goroutine runs whenever it can.  That a source answers is not up to it:
\* the client of NewState has no timeout, and a load may stay in its fetch for ever.
Spec == Init /\ [][Next]_vars /\ WF_vars(Loader)

-----------------------------------------------------------------------------
\* Type invariant of the loader.
TypeOK ==
    /\ edits \in Nat /\ disk \in [Files -> Nat]
    /\ defs \in [Files -> SUBSET Names] /\ bad \subseteq Files
    /\ next \in 0 .. Absent /\ read \in [Files -> Nat]
    /\ origin \in [Names -> 0 .. Absent] /\ torn \in BOOLEAN
    /\ pc \in {"read", "key", "build", "fetch", "swap", "notify", "wait", "close", "dead"}
    /\ loads \in Nat
    /\ key \in [Ids -> {"none", "random", "configured", "zero"}]
    /\ live \in [Ids -> SUBSET Objects]
    /\ built \subseteq Ids /\ closed \subseteq Ids /\ lists \subseteq Networks
    /\ seed \in {"unset", "configured", "zero"}
    /\ handler \in Ids \cup {0} /\ old \in Ids \cup {0} /\ serving \in Ids \cup {0}
    /\ pending \in BOOLEAN
    /\ wanted \in [Files -> Nat] /\ settled \in [Files -> Nat]

\* Once a state serves, the server always has one that was built to the end and
\* that is not closed, whatever loads fail or hang in between: all its objects run.
ServingOpen ==
    serving # 0 => serving \in built /\ serving \notin closed /\ live[serving] = Objects

\* README: "Allow live and dynamic policy reloading."  Files that were changed
\* before a SIGHUP end up loaded (or rejected), even if the signal comes while an
\* earlier reload is running or waits for a list, unless a source of network lists
\* leaves the loader waiting for ever.
ReloadHappens ==
    []<>(pc # "fetch") =>
      \A f \in Files, n \in 1 .. MaxEdits :
        wanted[f] = n /\ loads < MaxLoads ~> settled[f] >= n \/ pc = "dead" \/ loads = MaxLoads

\* A definition comes from the main file, or else from the first snippet that has
\* it, if nobody edits a file while they are read one after the other.
PolicyAsOnDisk ==
    pc = "key" /\ ~torn =>
      \A n \in Names :
        /\ origin[n] # Absent => n \in defs[origin[n]]
        /\ \A f \in Files : n \in defs[f] => origin[n] <= f

\* The comment on the dnsbl object, "allow freeing the ticker/decay map": at rest,
\* a state that was replaced has background objects that run only if its Close
\* failed, or if a reload failed after it was loaded, since main then forgets it.
LeakExplained ==
    pc = "wait" => \A i \in built \ {serving} :
      live[i] # {} => (i \in closed /\ "close" \in Failures) \/ i + 1 \notin built

\* The help of jwt-private-key-seed, "Seed for the jwt private key": with a seed,
\* the key of every state derives from it.
SeedKept == Seeded => \A i \in built : key[i] = "configured"
=============================================================================
