----------------------------- MODULE NetworkCache -----------------------------
(***************************************************************************)
(* The address lists of a policy's networks (lib/state.go) and the disk    *)
(* cache in front of them (utils/cache.go).  A state loads a list when    *)
(* its conditions are compiled or first ask for it, once (sync.OnceValue), *)
(* entry by entry; an entry with a url or an asn is looked up in the cache *)
(* directory, fetched if the file is missing or old, and written back.     *)
(* The states of two reloads can load at the same time, the process can    *)
(* die at any step, and the file is written in place.                      *)
(*                                                                         *)
(* A list is {v}, all the prefixes of version v of it, or {}: not whole.   *)
(* A version is what the source publishes and what the policy's jq-path or *)
(* regex takes from it; the file's name does not tell versions apart.  A   *)
(* cache file that is cut off or overwritten in part is {}, as             *)
(* json.Unmarshal rejects it as a whole; so is a RADb answer that ends     *)
(* early, of which the prefixes before the cut are used.                   *)
(***************************************************************************)
EXTENDS Integers, Sequences

CONSTANTS
    Loads,       \* loads of the network by successive states
    Entries,     \* the network's entries, a sequence of "url", "asn" and "direct" (file, prefixes)
    MaxAge,      \* the 24 hours of networkCache.Get
    MaxTime,     \* bound on the clock
    MaxVersion   \* bound on the number of versions the source publishes

ASSUME EntriesAssumption == Entries \in Seq({"url", "asn", "direct"})
ASSUME AgeAssumption == MaxAge \in Nat /\ MaxTime \in Nat /\ MaxVersion \in Nat \ {0}

VARIABLES
    now,         \* time.Now()
    published,   \* the newest version of every list
    file,        \* file[i]: the cache file of entry i, if it exists
    pc,          \* pc[s]: "idle", "entry", "read", "fetch", "create", "write", "touch" or "done"
    pos,         \* pos[s]: the entry s is at
    mtime,       \* mtime[s]: what Stat said of the file's age
    cached,      \* cached[s]: what the cached file decoded to
    fetched,     \* fetched[s]: what FetchPrefixes returned
    ranger,      \* ranger[s]: the lists inserted so far, as pairs of an entry and a version
    source,      \* history: source[s][i], where entry i came from: "none" yet, "fetch", "cache" or "failed"
    taken,       \* history: taken[s][i], when
    torn,        \* history: torn[i], the last time i's file was left without a whole list; -1 before
    stamped      \* history: stamped[i][v], the last time i's file was stamped with v in it, by a
                 \* write of v or by the Chtimes that ends a Set; -1 before

vars == <<now, published, file, pc, pos, mtime, cached, fetched, ranger, source, taken, torn, stamped>>

Index == DOMAIN Entries
Versions == 1 .. MaxVersion
File == [content: SUBSET Versions, mtime: Nat]

Nowhere == [i \in Index |-> "none"]

Init ==
    /\ now = 0 /\ published = 1
    /\ file = [i \in Index |-> {}]
    /\ pc = [s \in Loads |-> "idle"]
    /\ pos = [s \in Loads |-> 1]
    /\ mtime = [s \in Loads |-> 0]
    /\ cached = [s \in Loads |-> {}]
    /\ fetched = [s \in Loads |-> {}]
    /\ ranger = [s \in Loads |-> {}]
    /\ source = [s \in Loads |-> Nowhere]
    /\ taken = [s \in Loads |-> [i \in Index |-> 0]]
    /\ torn = [i \in Index |-> -1]
    /\ stamped = [i \in Index |-> [v \in Versions |-> -1]]

-----------------------------------------------------------------------------
\* Insert what an entry gave, nothing if it failed, and go on with the next one.
NextEntry(s, from, versions) ==
    /\ ranger' = [ranger EXCEPT ![s] = @ \cup ({pos[s]} \X versions)]
    /\ pos' = [pos EXCEPT ![s] = @ + 1]
    /\ pc' = [pc EXCEPT ![s] = IF pos[s] = Len(Entries) THEN "done" ELSE "entry"]
    /\ cached' = [cached EXCEPT ![s] = {}]
    /\ source' = [source EXCEPT ![s][pos[s]] = from]
    /\ taken' = [taken EXCEPT ![s][pos[s]] = now]

\* The load starts while the rules are compiled, if a condition names the network
\* (RegisterCondition), or else with the first request that asks for it.
Begin(s) ==
    /\ pc[s] = "idle" /\ Entries # <<>>
    /\ pc' = [pc EXCEPT ![s] = "entry"]
    /\ UNCHANGED <<now, published, file, pos, mtime, cached, fetched, ranger, source, taken, torn, stamped>>

\* dirCache.Get: os.Stat.  Entries without a url or an asn are fetched directly.
Stat(s) ==
    /\ pc[s] = "entry"
    /\ \/ /\ Entries[pos[s]] # "direct" /\ file[pos[s]] # {}
          /\ \E f \in file[pos[s]] : mtime' = [mtime EXCEPT ![s] = f.mtime]
          /\ pc' = [pc EXCEPT ![s] = "read"]
       \/ /\ Entries[pos[s]] = "direct" \/ file[pos[s]] = {}
          /\ pc' = [pc EXCEPT ![s] = "fetch"] /\ UNCHANGED mtime
    /\ UNCHANGED <<now, published, file, pos, cached, fetched, ranger, source, taken, torn, stamped>>

\* Mutant: the age is not looked at.
FreshAlways(t) == TRUE

\* !stat.ModTime().Before(time.Now().Add(-maxAge))
Fresh(t) == t >= now - MaxAge

\* os.ReadFile, the test of the age, and the decoding: a fresh file is used
\* whatever it decodes to, an old one is kept aside.
Read(s) ==
    /\ pc[s] = "read"
    /\ \E f \in file[pos[s]] :
         \/ /\ Fresh(mtime[s])
            /\ NextEntry(s, "cache", f.content)
         \/ /\ ~Fresh(mtime[s])
            /\ cached' = [cached EXCEPT ![s] = f.content]
            /\ pc' = [pc EXCEPT ![s] = "fetch"]
            /\ UNCHANGED <<ranger, pos, source, taken>>
    /\ UNCHANGED <<now, published, file, mtime, fetched, torn, stamped>>

\* e.FetchPrefixes fails: the prefixes of the old file are returned with the
\* error, and the caller drops both.
FetchFails(s) ==
    /\ pc[s] = "fetch"
    /\ NextEntry(s, "failed", {})
    /\ UNCHANGED <<now, published, file, mtime, fetched, torn, stamped>>

\* How RADb.query ends without an error: the reply's last line, the end of the
\* connection, or (a line of its own, "D" or "F") a refusal.
QueryEnds == {"C", "EOF", "refused"}

\* What a source may answer: a mirror may lag behind, and a state that was built
\* before an edit of the policy still extracts the list the old way.
Served == {{v} : v \in 1 .. published}

\* RADb.FetchASNets: the routes of the lines that came, without the first.
ASNReplies == UNION {IF end = "C" THEN Served ELSE {{}} : end \in QueryEnds}

\* e.FetchPrefixes
Fetch(s) ==
    /\ pc[s] = "fetch"
    /\ \E list \in IF Entries[pos[s]] = "asn" THEN ASNReplies ELSE Served :
         fetched' = [fetched EXCEPT ![s] = list]
    /\ \/ /\ Entries[pos[s]] = "direct"
          /\ NextEntry(s, "fetch", fetched'[s])
       \/ /\ Entries[pos[s]] # "direct"
          /\ pc' = [pc EXCEPT ![s] = "create"]
          /\ UNCHANGED <<pos, ranger, cached, source, taken>>
    /\ UNCHANGED <<now, published, file, mtime, torn, stamped>>

-----------------------------------------------------------------------------
\* dirCache.Set, whose errors are ignored.  os.Create empties the file.
Create(s) ==
    /\ pc[s] = "create"
    /\ \/ /\ file' = [file EXCEPT ![pos[s]] = {[content |-> {}, mtime |-> now]}]
          /\ torn' = [torn EXCEPT ![pos[s]] = now]
          /\ pc' = [pc EXCEPT ![s] = "write"]
          /\ UNCHANGED <<pos, ranger, cached, source, taken>>
       \/ NextEntry(s, "fetch", fetched[s]) /\ UNCHANGED <<file, torn>>
    /\ UNCHANGED <<now, published, mtime, fetched, stamped>>

\* fs.Write.  A full disk, or the end of a longer list that another state has
\* written since the Create, leaves a file that does not decode.
Write(s) ==
    /\ pc[s] = "write"
    /\ \E content \in {fetched[s], {}} :
         /\ file' = [file EXCEPT ![pos[s]] = {[content |-> content, mtime |-> now]}]
         /\ torn' = [torn EXCEPT ![pos[s]] = IF content = {} THEN now ELSE @]
         /\ stamped' = [stamped EXCEPT ![pos[s]] =
                          [v \in Versions |-> IF v \in content THEN now ELSE @[v]]]
    /\ pc' = [pc EXCEPT ![s] = "touch"]
    /\ UNCHANGED <<now, published, pos, mtime, cached, fetched, ranger, source, taken>>

\* fs.Sync, fs.Close and os.Chtimes.
Touch(s) ==
    /\ pc[s] = "touch"
    /\ \E f \in file[pos[s]] :
         /\ file' = [file EXCEPT ![pos[s]] = {[f EXCEPT !.mtime = now]}]
         /\ torn' = [torn EXCEPT ![pos[s]] = IF f.content = {} THEN now ELSE @]
         /\ stamped' = [stamped EXCEPT ![pos[s]] =
                          [v \in Versions |-> IF v \in f.content THEN now ELSE @[v]]]
    /\ NextEntry(s, "fetch", fetched[s])
    /\ UNCHANGED <<now, published, mtime, fetched>>

\* The process ends: every load that is running is lost, the files stay.
Crash ==
    /\ \E s \in Loads : pc[s] \notin {"idle", "done"}
    /\ pc' = [s \in Loads |-> "idle"] /\ pos' = [s \in Loads |-> 1]
    /\ cached' = [s \in Loads |-> {}] /\ fetched' = [s \in Loads |-> {}]
    /\ ranger' = [s \in Loads |-> {}] /\ source' = [s \in Loads |-> Nowhere]
    /\ UNCHANGED <<now, published, file, mtime, taken, torn, stamped>>

\* A source publishes, or the operator edits the entry's jq-path or regex.
Publish ==
    /\ published < MaxVersion /\ published' = published + 1
    /\ UNCHANGED <<now, file, pc, pos, mtime, cached, fetched, ranger, source, taken, torn, stamped>>

Tick ==
    /\ now < MaxTime /\ now' = now + 1
    /\ UNCHANGED <<published, file, pc, pos, mtime, cached, fetched, ranger, source, taken, torn, stamped>>

Load(s) == Begin(s) \/ Stat(s) \/ Read(s) \/ FetchFails(s) \/ Fetch(s) \/ Create(s) \/ Write(s) \/ Touch(s)

Next == (\E s \in Loads : Load(s)) \/ Crash \/ Publish \/ Tick

Spec == Init /\ [][Next]_vars

-----------------------------------------------------------------------------
\* A list taken from the disk cache was in the file when it was stamped at most
\* MaxAge before, by a Set of this state, of another one or of a process that died:
\* the age dirCache.Get tests is never that of an older file than the one ReadFile
\* returns after its Stat.  It says nothing of when the list was published: a state
\* built before an edit of the policy may write the old list again.
CacheRecent ==
    \A s \in Loads : \A p \in ranger[s] :
      source[s][p[1]] = "cache" => stamped[p[1]][p[2]] >= taken[s][p[1]] - MaxAge

\* Damage does not last: when the cache gives an entry no list (dirCache.Set writes
\* in place, and a crash, a full disk, another state's write or an early end of
\* RADb's answer leaves a file that decodes to nothing), its file was damaged at
\* most MaxAge before; from then on the list is fetched again.
DamageBounded ==
    \A s \in Loads, i \in Index :
      source[s][i] = "cache" /\ (\A v \in Versions : <<i, v>> \notin ranger[s])
        => torn[i] >= taken[s][i] - MaxAge
=============================================================================
