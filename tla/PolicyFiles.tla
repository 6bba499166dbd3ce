------------------------------ MODULE PolicyFiles ------------------------------
(***************************************************************************)
(* The policy as policy.NewPolicy reads it: the main file, then the files  *)
(* of the snippet directories one after the other, of which each adds the  *)
(* networks, conditions and challenges that are not defined yet.  The      *)
(* operator may edit any of them at any time, also in the middle of a load.*)
(***************************************************************************)
EXTENDS Integers

CONSTANTS
    Snippets,    \* number of snippet files; file 0 is the main one
    Names,       \* names of networks, conditions and challenges
    MaxEdits     \* bound on the number of edits

ASSUME FilesAssumption == Snippets \in Nat /\ MaxEdits \in Nat

Files == 0 .. Snippets
Absent == Snippets + 1

VARIABLES
    edits,     \* number of edits made
    disk,      \* disk[f]: the edit that wrote file f, 0 at first
    defs,      \* defs[f]: the names file f defines
    bad,       \* the files that do not parse, or are gone
    next,      \* the load: the next file to be read
    read,      \* read[f]: the version of f the load has read
    origin,    \* origin[n]: the file the load takes n's definition from
    torn       \* history: a file was edited while the load was reading

files == <<edits, disk, defs, bad>>
load == <<next, read, origin, torn>>

FilesInit ==
    /\ edits = 0 /\ disk = [f \in Files |-> 0]
    /\ defs \in [Files -> SUBSET Names]
    /\ bad = {}
    /\ next = 0 /\ read = [f \in Files |-> 0]
    /\ origin = [n \in Names |-> Absent] /\ torn = FALSE

\* The operator writes a file.
EditFile(f, breaks) ==
    /\ edits < MaxEdits /\ edits' = edits + 1
    /\ disk' = [disk EXCEPT ![f] = edits + 1]
    /\ defs' \in {[defs EXCEPT ![f] = names] : names \in SUBSET Names}
    /\ bad' = IF breaks THEN bad \cup {f} ELSE bad \ {f}
    /\ torn' = (torn \/ next > 0)
    /\ UNCHANGED <<next, read, origin>>

\* loadPolicyState is over; the next call starts from nothing.
Finished ==
    /\ next' = 0 /\ read' = [f \in Files |-> 0]
    /\ origin' = [n \in Names |-> Absent] /\ torn' = FALSE
    /\ UNCHANGED files

\* Decoding a file parses all the snippets too, for their anchors
\* (yaml.ReferenceFiles).
Unreadable(f) == bad \cap ({f} \cup 1 .. Snippets) # {}

\* Mutant: what a snippet defines replaces what was there.
MergeOver(f) == [n \in Names |-> IF n \in defs[f] THEN f ELSE origin[n]]

\* The main file's definitions, and those of a snippet that do not exist already.
Merge(f) == [n \in Names |-> IF origin[n] = Absent /\ n \in defs[f] THEN f ELSE origin[n]]

ReadFile ==
    /\ next \in Files /\ ~Unreadable(next)
    /\ next' = next + 1
    /\ read' = [read EXCEPT ![next] = disk[next]]
    /\ origin' = Merge(next)
    /\ UNCHANGED <<files, torn>>
=============================================================================
