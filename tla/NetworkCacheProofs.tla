-------------------------- MODULE NetworkCacheProofs --------------------------
(***************************************************************************)
(* The disk cache of the address lists, for every list of entries, every   *)
(* number of states that load at the same time, and any number of crashes  *)
(* and writes that go wrong.                                               *)
(***************************************************************************)
EXTENDS NetworkCache, TLAPS

Sources == {"none", "fetch", "cache", "failed"}

Typed ==
    /\ now \in Nat /\ published \in Versions
    /\ file \in [Index -> SUBSET File]
    /\ pc \in [Loads -> {"idle", "entry", "read", "fetch", "create", "write", "touch", "done"}]
    /\ pos \in [Loads -> Nat] /\ mtime \in [Loads -> Nat]
    /\ fetched \in [Loads -> SUBSET Versions]
    /\ ranger \in [Loads -> SUBSET (Index \X Versions)]
    /\ source \in [Loads -> [Index -> Sources]]
    /\ taken \in [Loads -> [Index -> Nat]]
    /\ torn \in [Index -> Int] /\ stamped \in [Index -> [Versions -> Int]]

\* There is one cache file for an entry, and it has been stamped with what it holds,
\* or damaged, at its time or later.
FileSound(i) ==
    /\ \A f, g \in file[i] : f = g
    /\ \A f \in file[i] :
         /\ f.mtime <= now
         /\ \A v \in f.content : stamped[i][v] >= f.mtime
         /\ f.content = {} => torn[i] >= f.mtime
    /\ torn[i] <= now /\ \A v \in Versions : stamped[i][v] <= now

\* Where a load is.
Place(s) ==
    /\ pc[s] \notin {"idle", "done"} => pos[s] \in Index
    /\ pc[s] = "idle" => pos[s] = 1
    /\ pc[s] = "done" => pos[s] = Len(Entries) + 1

\* What it knows of the file: its time can only have grown since the Stat.
Statted(s) ==
    /\ mtime[s] <= now
    /\ pc[s] = "read" => \A f \in file[pos[s]] : f.mtime >= mtime[s]

\* What it has: only lists of entries it is past, each recent; and where the cache
\* gave nothing, recent damage.
RecentRow(s, i, v) == source[s][i] = "cache" => stamped[i][v] >= taken[s][i] - MaxAge

Bounded(s, i) ==
    source[s][i] = "cache" =>
      torn[i] >= taken[s][i] - MaxAge \/ \E v \in Versions : <<i, v>> \in ranger[s]

Rows(s) ==
    /\ \A i \in Index, v \in Versions : <<i, v>> \in ranger[s] => i < pos[s] /\ RecentRow(s, i, v)
    /\ \A i \in Index : Bounded(s, i)

\* The inductive invariant.
CInv ==
    /\ Typed
    /\ \A i \in Index : FileSound(i)
    /\ \A s \in Loads : Place(s) /\ Statted(s) /\ Rows(s)

-----------------------------------------------------------------------------
\* Histories only move forward.
Forward ==
    /\ torn' \in [Index -> Int] /\ stamped' \in [Index -> [Versions -> Int]]
    /\ \A i \in Index : torn'[i] >= torn[i] /\ \A v \in Versions : stamped'[i][v] >= stamped[i][v]

\* A file is written with the content c, at the time now.
Rewrites(i, c) ==
    /\ file' = [file EXCEPT ![i] = {[content |-> c, mtime |-> now]}]
    /\ torn' = [torn EXCEPT ![i] = IF c = {} THEN now ELSE torn[i]]
    /\ stamped' = [stamped EXCEPT ![i] = [v \in Versions |-> IF v \in c THEN now ELSE stamped[i][v]]]

LEMMA RewriteSound ==
    ASSUME CInv, now' = now, NEW i \in Index, NEW c \in SUBSET Versions, Rewrites(i, c)
    PROVE  /\ file' \in [Index -> SUBSET File] /\ Forward
           /\ \A j \in Index : FileSound(j)'
           /\ \A j \in Index : \A f \in file'[j] : f \in file[j] \/ f.mtime = now
<1>1. /\ now \in Nat /\ file \in [Index -> SUBSET File]
      /\ torn \in [Index -> Int] /\ stamped \in [Index -> [Versions -> Int]]
  BY DEF CInv, Typed
<1>. DEFINE g == [content |-> c, mtime |-> now]
<1>2. g \in File /\ g.content = c /\ g.mtime = now
  BY <1>1 DEF File
<1>3. file' = [file EXCEPT ![i] = {g}]
  BY DEF Rewrites
<1>. HIDE DEF g
<1>4. file' \in [Index -> SUBSET File] /\ file'[i] = {g} /\ \A j \in Index \ {i} : file'[j] = file[j]
  BY <1>1, <1>2, <1>3
<1>5. /\ torn' \in [Index -> Int] /\ torn'[i] = (IF c = {} THEN now ELSE torn[i])
      /\ \A j \in Index \ {i} : torn'[j] = torn[j]
  BY <1>1 DEF Rewrites
<1>6. /\ stamped' \in [Index -> [Versions -> Int]]
      /\ \A v \in Versions : stamped'[i][v] = (IF v \in c THEN now ELSE stamped[i][v])
      /\ \A j \in Index \ {i} : stamped'[j] = stamped[j]
  BY <1>1 DEF Rewrites
<1>7. \A j \in Index : torn[j] <= now /\ \A v \in Versions : stamped[j][v] <= now
  BY DEF CInv, FileSound
<1>8. Forward
  <2>1. \A j \in Index : torn'[j] >= torn[j]
    BY <1>1, <1>5, <1>7
  <2>2. \A j \in Index : \A v \in Versions : stamped'[j][v] >= stamped[j][v]
    BY <1>1, <1>6, <1>7
  <2>. QED BY <1>5, <1>6, <2>1, <2>2 DEF Forward
<1>9. FileSound(i)'
  BY <1>1, <1>2, <1>4, <1>5, <1>6, <1>7 DEF FileSound
<1>10. \A j \in Index \ {i} : FileSound(j)'
  BY <1>4, <1>5, <1>6 DEF CInv, FileSound
<1>11. \A j \in Index : \A f \in file'[j] : f \in file[j] \/ f.mtime = now
  BY <1>2, <1>4
<1>. QED BY <1>4, <1>8, <1>9, <1>10, <1>11

-----------------------------------------------------------------------------
\* A load that nothing was done to.
Same(s) ==
    /\ pc'[s] = pc[s] /\ pos'[s] = pos[s] /\ mtime'[s] = mtime[s] /\ fetched'[s] = fetched[s]
    /\ ranger'[s] = ranger[s] /\ source'[s] = source[s] /\ taken'[s] = taken[s]

\* What a load has stays recent, and damage bounded.
LEMMA RowsFrame ==
    ASSUME CInv, Forward, NEW s \in Loads, pos'[s] = pos[s], ranger'[s] = ranger[s],
           source'[s] = source[s], taken'[s] = taken[s]
    PROVE  Rows(s)'
<1>1. /\ \A i \in Index : torn[i] \in Int /\ torn'[i] \in Int /\ taken[s][i] \in Int
      /\ \A i \in Index, v \in Versions : stamped[i][v] \in Int /\ stamped'[i][v] \in Int
      /\ MaxAge \in Int
  BY AgeAssumption DEF CInv, Typed, Forward
<1>2. \A i \in Index, v \in Versions : RecentRow(s, i, v) => RecentRow(s, i, v)'
  BY <1>1 DEF Forward, RecentRow
<1>3. \A i \in Index : Bounded(s, i) => Bounded(s, i)'
  BY <1>1 DEF Forward, Bounded
<1>. QED BY <1>2, <1>3 DEF CInv, Rows

\* The other loads, whatever is done to the files and to the clock.
LEMMA OtherLoad ==
    ASSUME CInv, Forward, NEW s \in Loads, Same(s), now' \in Nat, now' >= now,
           \A j \in Index : \A f \in file'[j] : f \in file[j] \/ f.mtime = now
    PROVE  Place(s)' /\ Statted(s)' /\ Rows(s)'
<1>1. now \in Nat /\ mtime[s] \in Nat /\ mtime[s] <= now
  BY DEF CInv, Typed, Statted
<1>2. Place(s)'
  BY DEF CInv, Same, Place
<1>3. Statted(s)'
  <2>1. mtime'[s] <= now'
    BY <1>1 DEF Same
  <2>2. pc[s] = "read" => pos[s] \in Index /\ \A f \in file[pos[s]] : f.mtime >= mtime[s]
    BY DEF CInv, Place, Statted
  <2>. QED BY <1>1, <2>1, <2>2 DEF Same, Statted
<1>4. Rows(s)'
  BY RowsFrame DEF Same
<1>. QED BY <1>2, <1>3, <1>4

\* Nothing is done to the files.
LEMMA FilesFrame ==
    ASSUME CInv, now' \in Nat, now' >= now, UNCHANGED <<file, torn, stamped>>
    PROVE  /\ file' \in [Index -> SUBSET File] /\ Forward
           /\ \A j \in Index : FileSound(j)'
           /\ \A j \in Index : \A f \in file'[j] : f \in file[j] \/ f.mtime = now
<1>1. /\ now \in Nat /\ file \in [Index -> SUBSET File]
      /\ torn \in [Index -> Int] /\ stamped \in [Index -> [Versions -> Int]]
  BY DEF CInv, Typed
<1>2. Forward
  BY <1>1 DEF Forward
<1>3. ASSUME NEW j \in Index PROVE FileSound(j)'
  <2>1. \A f \in file[j] : f.mtime \in Nat
    BY <1>1 DEF File
  <2>2. FileSound(j)
    BY DEF CInv
  <2>. QED BY <1>1, <2>1, <2>2 DEF FileSound
<1>. QED BY <1>1, <1>2, <1>3

-----------------------------------------------------------------------------
\* What the end of an entry leaves, with what from gave.
LEMMA NextEntryRows ==
    ASSUME CInv, Forward, now' = now, NEW s \in Loads, pos[s] \in Index,
           NEW from \in {"fetch", "cache", "failed"}, NEW versions \in SUBSET Versions,
           NextEntry(s, from, versions),
           from = "cache" => \A v \in versions : stamped'[pos[s]][v] >= now - MaxAge,
           from = "cache" => torn'[pos[s]] >= now - MaxAge \/ \E v \in Versions : v \in versions
    PROVE  /\ pos' \in [Loads -> Nat] /\ ranger' \in [Loads -> SUBSET (Index \X Versions)]
           /\ source' \in [Loads -> [Index -> Sources]] /\ taken' \in [Loads -> [Index -> Nat]]
           /\ pc' \in [Loads -> {"idle", "entry", "read", "fetch", "create", "write", "touch", "done"}]
           /\ Rows(s)' /\ Place(s)' /\ pc'[s] \in {"entry", "done"}
           /\ \A t \in Loads \ {s} :
                /\ pc'[t] = pc[t] /\ pos'[t] = pos[t] /\ ranger'[t] = ranger[t]
                /\ source'[t] = source[t] /\ taken'[t] = taken[t]
<1>. DEFINE i == pos[s]
<1>1. /\ now \in Nat /\ pos \in [Loads -> Nat] /\ i \in Nat
      /\ ranger \in [Loads -> SUBSET (Index \X Versions)]
      /\ source \in [Loads -> [Index -> Sources]] /\ taken \in [Loads -> [Index -> Nat]]
      /\ pc \in [Loads -> {"idle", "entry", "read", "fetch", "create", "write", "touch", "done"}]
      /\ Index = 1 .. Len(Entries) /\ Len(Entries) \in Nat
  BY EntriesAssumption DEF CInv, Typed, Index
<1>2. /\ pos' = [pos EXCEPT ![s] = i + 1] /\ pos'[s] = i + 1 /\ pos' \in [Loads -> Nat]
      /\ \A t \in Loads \ {s} : pos'[t] = pos[t]
  BY <1>1 DEF NextEntry
<1>3. /\ pc'[s] = (IF i = Len(Entries) THEN "done" ELSE "entry")
      /\ pc' \in [Loads -> {"idle", "entry", "read", "fetch", "create", "write", "touch", "done"}]
      /\ \A t \in Loads \ {s} : pc'[t] = pc[t]
  BY <1>1 DEF NextEntry
<1>4. ranger' = [ranger EXCEPT ![s] = ranger[s] \cup ({i} \X versions)]
  BY DEF NextEntry
<1>5. /\ ranger' \in [Loads -> SUBSET (Index \X Versions)]
      /\ ranger'[s] = ranger[s] \cup ({i} \X versions)
      /\ \A t \in Loads \ {s} : ranger'[t] = ranger[t]
  BY <1>1, <1>4
<1>6. /\ source' = [source EXCEPT ![s] = [source[s] EXCEPT ![i] = from]]
      /\ taken' = [taken EXCEPT ![s] = [taken[s] EXCEPT ![i] = now]]
  BY DEF NextEntry
<1>7. /\ source' \in [Loads -> [Index -> Sources]] /\ taken' \in [Loads -> [Index -> Nat]]
      /\ source'[s][i] = from /\ taken'[s][i] = now
      /\ \A j \in Index \ {i} : source'[s][j] = source[s][j] /\ taken'[s][j] = taken[s][j]
      /\ \A t \in Loads \ {s} : source'[t] = source[t] /\ taken'[t] = taken[t]
  BY <1>1, <1>6 DEF Sources
<1>8. Place(s)'
  BY <1>1, <1>2, <1>3 DEF Place
<1>. HIDE DEF i
<1>9. /\ \A j \in Index : torn[j] \in Int /\ torn'[j] \in Int /\ taken[s][j] \in Int
      /\ \A j \in Index, v \in Versions : stamped[j][v] \in Int /\ stamped'[j][v] \in Int
      /\ MaxAge \in Int /\ i \in Index /\ Rows(s) /\ pos[s] = i
  BY AgeAssumption DEF CInv, Typed, Forward, i
<1>10. ASSUME NEW j \in Index, NEW v \in Versions, <<j, v>> \in ranger'[s]
       PROVE  j < pos'[s] /\ RecentRow(s, j, v)'
  <2>1. CASE <<j, v>> \in ranger[s]
    <3>1. j < i /\ RecentRow(s, j, v)
      BY <1>9, <2>1 DEF Rows
    <3>2. j # i /\ j < i + 1
      BY <1>1, <3>1
    <3>. QED BY <1>2, <1>7, <1>9, <3>1, <3>2 DEF RecentRow, Forward
  <2>2. CASE <<j, v>> \in {i} \X versions
    <3>1. j = i /\ v \in versions
      BY <2>2
    <3>2. source'[s][j] = "cache" => stamped'[j][v] >= taken'[s][j] - MaxAge
      BY <1>7, <3>1 DEF i
    <3>. QED BY <1>1, <1>2, <3>1, <3>2 DEF RecentRow
  <2>. QED BY <1>5, <1>10, <2>1, <2>2
<1>11. ASSUME NEW j \in Index PROVE Bounded(s, j)'
  <2>1. CASE j = i
    <3>1. \A v \in versions : <<j, v>> \in ranger'[s]
      BY <1>5, <2>1
    <3>2. from = "cache" => torn'[j] >= now - MaxAge \/ \E v \in Versions : v \in versions
      BY <2>1 DEF i
    <3>3. source'[s][j] = from /\ taken'[s][j] = now
      BY <1>7, <2>1
    <3>. QED BY <3>1, <3>2, <3>3 DEF Bounded
  <2>2. CASE j # i
    <3>2. Bounded(s, j)
      BY <1>9 DEF Rows
    <3>3. source'[s][j] = source[s][j] /\ taken'[s][j] = taken[s][j] /\ ranger[s] \subseteq ranger'[s]
      BY <1>5, <1>7, <2>2
    <3>4. torn[j] >= taken[s][j] - MaxAge => torn'[j] >= taken[s][j] - MaxAge
      BY <1>9 DEF Forward
    <3>5. (\E v \in Versions : <<j, v>> \in ranger[s]) => \E v \in Versions : <<j, v>> \in ranger'[s]
      BY <3>3
    <3>. QED BY <3>2, <3>3, <3>4, <3>5 DEF Bounded
  <2>. QED BY <2>1, <2>2
<1>12. Rows(s)'
  BY <1>10, <1>11 DEF Rows
<1>. QED BY <1>2, <1>3, <1>5, <1>7, <1>8, <1>12

-----------------------------------------------------------------------------
PCs == {"idle", "entry", "read", "fetch", "create", "write", "touch", "done"}

LoadsTyped ==
    /\ pc \in [Loads -> PCs] /\ pos \in [Loads -> Nat] /\ mtime \in [Loads -> Nat]
    /\ fetched \in [Loads -> SUBSET Versions]
    /\ ranger \in [Loads -> SUBSET (Index \X Versions)]
    /\ source \in [Loads -> [Index -> Sources]] /\ taken \in [Loads -> [Index -> Nat]]

LEMMA LoadsAreTyped == CInv => LoadsTyped
BY DEF CInv, Typed, LoadsTyped, PCs

\* A step of one load keeps the invariant if it keeps its own part of it.
LEMMA LoadStep ==
    ASSUME CInv, UNCHANGED <<now, published>>, NEW s \in Loads,
           file' \in [Index -> SUBSET File], Forward, \A j \in Index : FileSound(j)',
           \A j \in Index : \A f \in file'[j] : f \in file[j] \/ f.mtime = now,
           LoadsTyped', Place(s)', Statted(s)', Rows(s)',
           \A t \in Loads \ {s} : Same(t)
    PROVE  CInv'
<1>1. now \in Nat /\ published \in Versions
  BY DEF CInv, Typed
<1>2. Typed'
  BY <1>1 DEF Typed, LoadsTyped, PCs, Forward
<1>3. \A t \in Loads \ {s} : Place(t)' /\ Statted(t)' /\ Rows(t)'
  BY <1>1, OtherLoad
<1>. QED BY <1>2, <1>3 DEF CInv

LEMMA BeginStep == ASSUME CInv, NEW s \in Loads, Begin(s) PROVE CInv'
<1>1. now \in Nat /\ UNCHANGED <<now, published, file, torn, stamped>> /\ LoadsTyped
  BY LoadsAreTyped DEF CInv, Typed, Begin
<1>2. /\ file' \in [Index -> SUBSET File] /\ Forward /\ \A j \in Index : FileSound(j)'
      /\ \A j \in Index : \A f \in file'[j] : f \in file[j] \/ f.mtime = now
  BY <1>1, FilesFrame
<1>3. /\ pc' = [pc EXCEPT ![s] = "entry"] /\ pc'[s] = "entry" /\ pc[s] = "idle"
      /\ UNCHANGED <<pos, mtime, cached, fetched, ranger, source, taken>>
  BY <1>1 DEF Begin, LoadsTyped
<1>4. LoadsTyped' /\ \A t \in Loads \ {s} : Same(t)
  BY <1>1, <1>3 DEF LoadsTyped, Same, PCs
<1>5. Place(s)'
  <2>1. pos[s] = 1 /\ 1 \in Index
    BY <1>3, EntriesAssumption DEF CInv, Place, Begin, Index
  <2>. QED BY <1>3, <2>1 DEF Place
<1>6. Statted(s)'
  BY <1>1, <1>3 DEF Statted, CInv
<1>7. Rows(s)'
  BY <1>2, <1>3, RowsFrame
<1>. QED BY <1>1, <1>2, <1>4, <1>5, <1>6, <1>7, LoadStep

LEMMA StatStep == ASSUME CInv, NEW s \in Loads, Stat(s) PROVE CInv'
<1>1. now \in Nat /\ UNCHANGED <<now, published, file, torn, stamped>> /\ LoadsTyped
  BY LoadsAreTyped DEF CInv, Typed, Stat
<1>2. /\ file' \in [Index -> SUBSET File] /\ Forward /\ \A j \in Index : FileSound(j)'
      /\ \A j \in Index : \A f \in file'[j] : f \in file[j] \/ f.mtime = now
  BY <1>1, FilesFrame
<1>3. UNCHANGED <<pos, cached, fetched, ranger, source, taken>> /\ pc[s] = "entry" /\ pos[s] \in Index
  BY DEF Stat, CInv, Place
<1>4. Rows(s)'
  BY <1>2, <1>3, RowsFrame
<1>5. CASE pc' = [pc EXCEPT ![s] = "fetch"] /\ UNCHANGED mtime
  <2>1. LoadsTyped' /\ \A t \in Loads \ {s} : Same(t)
    BY <1>1, <1>3, <1>5 DEF LoadsTyped, Same, PCs
  <2>2. Place(s)' /\ Statted(s)'
    BY <1>1, <1>3, <1>5 DEF LoadsTyped, Place, Statted, CInv
  <2>. QED BY <1>1, <1>2, <1>4, <2>1, <2>2, LoadStep
<1>6. CASE /\ \E f \in file[pos[s]] : mtime' = [mtime EXCEPT ![s] = f.mtime]
           /\ pc' = [pc EXCEPT ![s] = "read"]
  <2>1. PICK f \in file[pos[s]] : mtime' = [mtime EXCEPT ![s] = f.mtime]
    BY <1>6
  <2>2. f.mtime \in Nat /\ f.mtime <= now /\ \A g \in file[pos[s]] : g = f
    BY <1>3 DEF CInv, Typed, File, FileSound
  <2>3. LoadsTyped' /\ \A t \in Loads \ {s} : Same(t)
    BY <1>1, <1>3, <1>6, <2>1, <2>2 DEF LoadsTyped, Same, PCs
  <2>4. pc'[s] = "read" /\ mtime'[s] = f.mtime
    BY <1>1, <1>6, <2>1 DEF LoadsTyped
  <2>5. Place(s)'
    BY <1>3, <2>4 DEF Place
  <2>6. Statted(s)'
    BY <1>1, <1>3, <2>2, <2>4 DEF Statted
  <2>. QED BY <1>1, <1>2, <1>4, <2>3, <2>5, <2>6, LoadStep
<1>. QED BY <1>5, <1>6 DEF Stat

\* A load that is done with an entry.
LEMMA EntryEnds ==
    ASSUME CInv, UNCHANGED <<now, published, mtime>>, NEW s \in Loads,
           pc[s] \notin {"idle", "done"},
           file' \in [Index -> SUBSET File], Forward, \A j \in Index : FileSound(j)',
           \A j \in Index : \A f \in file'[j] : f \in file[j] \/ f.mtime = now,
           fetched' \in [Loads -> SUBSET Versions],
           \A t \in Loads \ {s} : fetched'[t] = fetched[t],
           NEW from \in {"fetch", "cache", "failed"}, NEW versions \in SUBSET Versions,
           NextEntry(s, from, versions),
           from = "cache" => \A v \in versions : stamped'[pos[s]][v] >= now - MaxAge,
           from = "cache" => torn'[pos[s]] >= now - MaxAge \/ \E v \in Versions : v \in versions
    PROVE  CInv'
<1>1. pos[s] \in Index /\ LoadsTyped
  BY LoadsAreTyped DEF CInv, Place
<1>2. /\ pos' \in [Loads -> Nat] /\ ranger' \in [Loads -> SUBSET (Index \X Versions)]
      /\ source' \in [Loads -> [Index -> Sources]] /\ taken' \in [Loads -> [Index -> Nat]]
      /\ pc' \in [Loads -> {"idle", "entry", "read", "fetch", "create", "write", "touch", "done"}]
      /\ Rows(s)' /\ Place(s)' /\ pc'[s] \in {"entry", "done"}
      /\ \A t \in Loads \ {s} :
           /\ pc'[t] = pc[t] /\ pos'[t] = pos[t] /\ ranger'[t] = ranger[t]
           /\ source'[t] = source[t] /\ taken'[t] = taken[t]
  BY <1>1, NextEntryRows
<1>3. LoadsTyped' /\ \A t \in Loads \ {s} : Same(t)
  BY <1>1, <1>2 DEF LoadsTyped, PCs, Same
<1>4. Statted(s)'
  BY <1>2 DEF CInv, Statted
<1>. QED BY <1>2, <1>3, <1>4, LoadStep

LEMMA ReadStep == ASSUME CInv, NEW s \in Loads, Read(s) PROVE CInv'
<1>1. /\ now \in Nat /\ UNCHANGED <<now, published, file, torn, stamped, mtime, fetched>>
      /\ LoadsTyped /\ pc[s] = "read" /\ pos[s] \in Index
  BY LoadsAreTyped DEF CInv, Typed, Place, Read
<1>2. /\ file' \in [Index -> SUBSET File] /\ Forward /\ \A j \in Index : FileSound(j)'
      /\ \A j \in Index : \A f \in file'[j] : f \in file[j] \/ f.mtime = now
  BY <1>1, FilesFrame
<1>3. PICK f \in file[pos[s]] :
        \/ Fresh(mtime[s]) /\ NextEntry(s, "cache", f.content)
        \/ pc' = [pc EXCEPT ![s] = "fetch"] /\ UNCHANGED <<ranger, pos, source, taken>>
  BY DEF Read
<1>4. CASE Fresh(mtime[s]) /\ NextEntry(s, "cache", f.content)
  <2>1. f.content \in SUBSET Versions /\ f.mtime \in Nat
    BY <1>1 DEF CInv, Typed, File
  <2>2. f.mtime >= mtime[s] /\ mtime[s] >= now - MaxAge
    BY <1>1, <1>4 DEF CInv, Statted, Fresh
  <2>3. /\ \A v \in f.content : stamped[pos[s]][v] >= f.mtime
        /\ f.content = {} => torn[pos[s]] >= f.mtime
    BY <1>1 DEF CInv, FileSound
  <2>4. /\ mtime[s] \in Nat /\ MaxAge \in Nat /\ torn[pos[s]] \in Int
        /\ \A v \in Versions : stamped[pos[s]][v] \in Int
    BY <1>1, AgeAssumption DEF CInv, Typed
  <2>5. \A v \in f.content : stamped'[pos[s]][v] >= now - MaxAge
    BY <1>1, <2>1, <2>2, <2>3, <2>4
  <2>6. torn'[pos[s]] >= now - MaxAge \/ \E v \in Versions : v \in f.content
    BY <1>1, <2>1, <2>2, <2>3, <2>4
  <2>7. fetched' \in [Loads -> SUBSET Versions] /\ \A t \in Loads \ {s} : fetched'[t] = fetched[t]
    BY <1>1 DEF LoadsTyped
  <2>. QED BY <1>1, <1>2, <1>4, <2>1, <2>5, <2>6, <2>7, EntryEnds
<1>5. CASE pc' = [pc EXCEPT ![s] = "fetch"] /\ UNCHANGED <<ranger, pos, source, taken>>
  <2>1. LoadsTyped' /\ \A t \in Loads \ {s} : Same(t)
    BY <1>1, <1>5 DEF LoadsTyped, Same, PCs
  <2>2. pc'[s] = "fetch"
    BY <1>1, <1>5 DEF LoadsTyped
  <2>3. Place(s)' /\ Statted(s)'
    BY <1>1, <1>5, <2>2 DEF Place, Statted, CInv
  <2>4. Rows(s)'
    BY <1>2, <1>5, RowsFrame
  <2>. QED BY <1>1, <1>2, <2>1, <2>3, <2>4, LoadStep
<1>. QED BY <1>3, <1>4, <1>5

LEMMA FetchFailsStep == ASSUME CInv, NEW s \in Loads, FetchFails(s) PROVE CInv'
<1>1. /\ now \in Nat /\ UNCHANGED <<now, published, file, torn, stamped, mtime, fetched>>
      /\ LoadsTyped /\ pc[s] = "fetch" /\ NextEntry(s, "failed", {})
  BY LoadsAreTyped DEF CInv, Typed, FetchFails
<1>2. /\ file' \in [Index -> SUBSET File] /\ Forward /\ \A j \in Index : FileSound(j)'
      /\ \A j \in Index : \A f \in file'[j] : f \in file[j] \/ f.mtime = now
  BY <1>1, FilesFrame
<1>3. fetched' \in [Loads -> SUBSET Versions] /\ \A t \in Loads \ {s} : fetched'[t] = fetched[t]
  BY <1>1 DEF LoadsTyped
<1>. QED BY <1>1, <1>2, <1>3, {} \in SUBSET Versions, EntryEnds

\* What a source answers is made of its versions.
LEMMA Replies ==
    ASSUME CInv, NEW entry,
           NEW list \in IF entry = "asn" THEN ASNReplies ELSE Served
    PROVE  list \in SUBSET Versions
<1>1. 1 .. published \subseteq Versions
  BY AgeAssumption DEF CInv, Typed, Versions
<1>2. \A l \in Served : l \in SUBSET Versions
  BY <1>1 DEF Served
<1>3. \A l \in ASNReplies : l \in Served \/ l = {}
  BY DEF ASNReplies
<1>. QED BY <1>2, <1>3

LEMMA FetchStep == ASSUME CInv, NEW s \in Loads, Fetch(s) PROVE CInv'
<1>1. /\ now \in Nat /\ UNCHANGED <<now, published, file, torn, stamped, mtime>>
      /\ LoadsTyped /\ pc[s] = "fetch" /\ pos[s] \in Index
  BY LoadsAreTyped DEF CInv, Typed, Place, Fetch
<1>2. /\ file' \in [Index -> SUBSET File] /\ Forward /\ \A j \in Index : FileSound(j)'
      /\ \A j \in Index : \A f \in file'[j] : f \in file[j] \/ f.mtime = now
  BY <1>1, FilesFrame
<1>3. PICK list \in IF Entries[pos[s]] = "asn" THEN ASNReplies ELSE Served :
        fetched' = [fetched EXCEPT ![s] = list]
  BY DEF Fetch
<1>4. list \in SUBSET Versions
  BY Replies
<1>5. /\ fetched' \in [Loads -> SUBSET Versions] /\ fetched'[s] = list
      /\ \A t \in Loads \ {s} : fetched'[t] = fetched[t]
  BY <1>1, <1>3, <1>4 DEF LoadsTyped
<1>6. CASE Entries[pos[s]] = "direct" /\ NextEntry(s, "fetch", fetched'[s])
  BY <1>1, <1>2, <1>4, <1>5, <1>6, EntryEnds
<1>7. CASE pc' = [pc EXCEPT ![s] = "create"] /\ UNCHANGED <<pos, ranger, cached, source, taken>>
  <2>1. LoadsTyped' /\ \A t \in Loads \ {s} : Same(t)
    BY <1>1, <1>5, <1>7 DEF LoadsTyped, Same, PCs
  <2>2. pc'[s] = "create"
    BY <1>1, <1>7 DEF LoadsTyped
  <2>3. Place(s)' /\ Statted(s)'
    BY <1>1, <1>4, <1>5, <1>7, <2>2 DEF Place, Statted, CInv
  <2>4. Rows(s)'
    BY <1>2, <1>7, RowsFrame
  <2>. QED BY <1>1, <1>2, <2>1, <2>3, <2>4, LoadStep
<1>. QED BY <1>6, <1>7 DEF Fetch

LEMMA CreateStep == ASSUME CInv, NEW s \in Loads, Create(s) PROVE CInv'
<1>1. /\ now \in Nat /\ UNCHANGED <<now, published, stamped, mtime, fetched>>
      /\ LoadsTyped /\ pc[s] = "create" /\ pos[s] \in Index
  BY LoadsAreTyped DEF CInv, Typed, Place, Create
<1>2. /\ fetched' \in [Loads -> SUBSET Versions] /\ \A t \in Loads \ {s} : fetched'[t] = fetched[t]
      /\ fetched[s] \in SUBSET Versions
  BY <1>1 DEF LoadsTyped
<1>4. CASE NextEntry(s, "fetch", fetched[s]) /\ UNCHANGED <<file, torn>>
  <2>1. /\ file' \in [Index -> SUBSET File] /\ Forward /\ \A j \in Index : FileSound(j)'
        /\ \A j \in Index : \A f \in file'[j] : f \in file[j] \/ f.mtime = now
    BY <1>1, <1>4, FilesFrame
  <2>. QED BY <1>1, <1>2, <1>4, <2>1, EntryEnds
<1>5. CASE /\ file' = [file EXCEPT ![pos[s]] = {[content |-> {}, mtime |-> now]}]
           /\ torn' = [torn EXCEPT ![pos[s]] = now]
           /\ pc' = [pc EXCEPT ![s] = "write"]
           /\ UNCHANGED <<pos, ranger, cached, source, taken>>
  <2>1. Rewrites(pos[s], {})
    <3>1. stamped \in [Index -> [Versions -> Int]]
      BY DEF CInv, Typed
    <3>2. [v \in Versions |-> IF v \in {} THEN now ELSE stamped[pos[s]][v]] = stamped[pos[s]]
      BY <1>1, <3>1
    <3>. QED BY <1>1, <1>5, <3>1, <3>2 DEF Rewrites
  <2>2. /\ file' \in [Index -> SUBSET File] /\ Forward /\ \A j \in Index : FileSound(j)'
        /\ \A j \in Index : \A f \in file'[j] : f \in file[j] \/ f.mtime = now
    BY <1>1, <2>1, {} \in SUBSET Versions, RewriteSound
  <2>3. LoadsTyped' /\ \A t \in Loads \ {s} : Same(t)
    BY <1>1, <1>5 DEF LoadsTyped, Same, PCs
  <2>4. pc'[s] = "write"
    BY <1>1, <1>5 DEF LoadsTyped
  <2>5. Place(s)' /\ Statted(s)'
    BY <1>1, <1>5, <2>4 DEF Place, Statted, CInv
  <2>6. Rows(s)'
    BY <1>5, <2>2, RowsFrame
  <2>. QED BY <1>1, <2>2, <2>3, <2>5, <2>6, LoadStep
<1>. QED BY <1>4, <1>5 DEF Create

LEMMA WriteStep == ASSUME CInv, NEW s \in Loads, Write(s) PROVE CInv'
<1>1. /\ now \in Nat /\ UNCHANGED <<now, published, mtime, fetched, pos, ranger, source, taken>>
      /\ LoadsTyped /\ pc[s] = "write" /\ pos[s] \in Index /\ pc' = [pc EXCEPT ![s] = "touch"]
  BY LoadsAreTyped DEF CInv, Typed, Place, Write
<1>2. PICK content \in {fetched[s], {}} : Rewrites(pos[s], content)
  BY DEF Write, Rewrites
<1>3. content \in SUBSET Versions
  BY <1>1 DEF LoadsTyped
<1>4. /\ file' \in [Index -> SUBSET File] /\ Forward /\ \A j \in Index : FileSound(j)'
      /\ \A j \in Index : \A f \in file'[j] : f \in file[j] \/ f.mtime = now
  BY <1>1, <1>2, <1>3, RewriteSound
<1>5. LoadsTyped' /\ \A t \in Loads \ {s} : Same(t)
  BY <1>1 DEF LoadsTyped, Same, PCs
<1>6. pc'[s] = "touch"
  BY <1>1 DEF LoadsTyped
<1>7. Place(s)' /\ Statted(s)'
  BY <1>1, <1>6 DEF Place, Statted, CInv
<1>8. Rows(s)'
  BY <1>1, <1>4, RowsFrame
<1>. QED BY <1>1, <1>4, <1>5, <1>7, <1>8, LoadStep

LEMMA TouchStep == ASSUME CInv, NEW s \in Loads, Touch(s) PROVE CInv'
<1>1. /\ now \in Nat /\ UNCHANGED <<now, published, mtime, fetched>>
      /\ LoadsTyped /\ pc[s] = "touch" /\ pos[s] \in Index
  BY LoadsAreTyped DEF CInv, Typed, Place, Touch
<1>2. PICK f \in file[pos[s]] :
         /\ file' = [file EXCEPT ![pos[s]] = {[f EXCEPT !.mtime = now]}]
         /\ torn' = [torn EXCEPT ![pos[s]] = IF f.content = {} THEN now ELSE torn[pos[s]]]
         /\ stamped' = [stamped EXCEPT ![pos[s]] =
                          [v \in Versions |-> IF v \in f.content THEN now ELSE stamped[pos[s]][v]]]
  BY DEF Touch
<1>3. f \in File /\ f.content \in SUBSET Versions
  BY <1>1 DEF CInv, Typed, File
<1>4. [f EXCEPT !.mtime = now] = [content |-> f.content, mtime |-> now]
  BY <1>3 DEF File
<1>5. Rewrites(pos[s], f.content)
  BY <1>2, <1>4 DEF Rewrites
<1>6. /\ file' \in [Index -> SUBSET File] /\ Forward /\ \A j \in Index : FileSound(j)'
      /\ \A j \in Index : \A g \in file'[j] : g \in file[j] \/ g.mtime = now
  BY <1>1, <1>3, <1>5, RewriteSound
<1>7. /\ fetched' \in [Loads -> SUBSET Versions] /\ \A t \in Loads \ {s} : fetched'[t] = fetched[t]
      /\ fetched[s] \in SUBSET Versions
  BY <1>1 DEF LoadsTyped
<1>9. NextEntry(s, "fetch", fetched[s])
  BY DEF Touch
<1>. QED BY <1>1, <1>6, <1>7, <1>9, EntryEnds

\* A load that has not begun.
LEMMA IdleLoad ==
    ASSUME NEW s \in Loads, now \in Nat, mtime[s] \in Nat, mtime[s] <= now,
           pc[s] = "idle", pos[s] = 1, ranger[s] = {}, source[s] = Nowhere
    PROVE  Place(s) /\ Statted(s) /\ Rows(s)
BY DEF Place, Statted, Rows, Bounded, Nowhere

LEMMA CrashStep == ASSUME CInv, Crash PROVE CInv'
<1>1. now \in Nat /\ UNCHANGED <<now, published, file, torn, stamped, mtime, taken>> /\ LoadsTyped
  BY LoadsAreTyped DEF CInv, Typed, Crash
<1>2. /\ file' \in [Index -> SUBSET File] /\ Forward /\ \A j \in Index : FileSound(j)'
  BY <1>1, FilesFrame
<1>3. /\ pc' = [s \in Loads |-> "idle"] /\ pos' = [s \in Loads |-> 1]
      /\ fetched' = [s \in Loads |-> {}] /\ ranger' = [s \in Loads |-> {}]
      /\ source' = [s \in Loads |-> [i \in Index |-> "none"]]
  BY DEF Crash, Nowhere
<1>4. LoadsTyped'
  BY <1>1, <1>3 DEF LoadsTyped, PCs, Sources
<1>5. Typed'
  BY <1>1, <1>2, <1>4 DEF Typed, CInv, LoadsTyped, PCs
<1>6. ASSUME NEW s \in Loads PROVE Place(s)' /\ Statted(s)' /\ Rows(s)'
  <2>1. /\ pc'[s] = "idle" /\ pos'[s] = 1 /\ ranger'[s] = {} /\ mtime'[s] <= now'
        /\ \A i \in Index : source'[s][i] = "none"
    BY <1>1, <1>3 DEF CInv, Statted
  <2>. QED BY <2>1 DEF Place, Statted, Rows, Bounded
<1>. QED BY <1>2, <1>5, <1>6 DEF CInv

\* The world goes on around the loads.
LEMMA OutsideStep == ASSUME CInv, Publish \/ Tick \/ UNCHANGED vars PROVE CInv'
<1>1. /\ UNCHANGED <<file, torn, stamped, pc, pos, mtime, fetched, ranger, source, taken>>
      /\ now \in Nat /\ now' \in Nat /\ now' >= now /\ published' \in Versions
  BY AgeAssumption DEF CInv, Typed, Publish, Tick, vars, Versions
<1>2. /\ file' \in [Index -> SUBSET File] /\ Forward /\ \A j \in Index : FileSound(j)'
      /\ \A j \in Index : \A f \in file'[j] : f \in file[j] \/ f.mtime = now
  BY <1>1, FilesFrame
<1>3. Typed'
  BY <1>1 DEF CInv, Typed
<1>4. \A s \in Loads : Place(s)' /\ Statted(s)' /\ Rows(s)'
  BY <1>1, <1>2, OtherLoad DEF Same
<1>. QED BY <1>2, <1>3, <1>4 DEF CInv

LEMMA InitCInv == Init => CInv
<1>. SUFFICES ASSUME Init PROVE CInv
  OBVIOUS
<1>1. Typed
  BY AgeAssumption DEF Init, Typed, Versions, Nowhere, Sources
<1>2. \A i \in Index : FileSound(i)
  BY DEF Init, FileSound
<1>3. \A s \in Loads : Place(s) /\ Statted(s) /\ Rows(s)
  <2>1. now = 0 /\ \A s \in Loads : mtime[s] = 0 /\ pc[s] = "idle" /\ pos[s] = 1
             /\ ranger[s] = {} /\ source[s] = Nowhere
    BY DEF Init
  <2>2. ASSUME NEW s \in Loads PROVE Place(s) /\ Statted(s) /\ Rows(s)
    <3>1. now \in Nat /\ mtime[s] \in Nat /\ mtime[s] <= now
      BY <2>1
    <3>. QED BY <2>1, <3>1, IdleLoad
  <2>. QED BY <2>2
<1>. QED BY <1>1, <1>2, <1>3 DEF CInv

LEMMA NextCInv == CInv /\ [Next]_vars => CInv'
BY BeginStep, StatStep, ReadStep, FetchFailsStep, FetchStep, CreateStep, WriteStep, TouchStep,
   CrashStep, OutsideStep DEF Next, Load

-----------------------------------------------------------------------------
\* A list taken from the disk cache was in the file when it was stamped at most
\* MaxAge before, whatever other loads and dead processes did to the file between
\* the Stat and the ReadFile of dirCache.Get.
THEOREM CacheIsRecent == Spec => []CacheRecent
<1>1. CInv => CacheRecent
  <2>. SUFFICES ASSUME CInv, NEW s \in Loads, NEW p \in ranger[s]
                PROVE  source[s][p[1]] = "cache" => stamped[p[1]][p[2]] >= taken[s][p[1]] - MaxAge
    BY DEF CacheRecent
  <2>1. p \in Index \X Versions
    BY DEF CInv, Typed
  <2>2. p[1] \in Index /\ p[2] \in Versions /\ <<p[1], p[2]>> \in ranger[s]
    BY <2>1
  <2>. QED BY <2>2 DEF CInv, Rows, RecentRow
<1>. QED BY <1>1, InitCInv, NextCInv, PTL DEF Spec

\* Where the disk cache gives an entry no list, its file was damaged at most MaxAge
\* before (dirCache.Set writes in place, dirCache.Get tests the age): a damaged file
\* does not outlive its age, however loads overlap and processes die.
THEOREM DamageIsBounded == Spec => []DamageBounded
<1>1. CInv => DamageBounded
  BY DEF CInv, Rows, Bounded, DamageBounded
<1>. QED BY <1>1, InitCInv, NextCInv, PTL DEF Spec
=============================================================================
