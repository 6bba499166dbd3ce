------------------------------- MODULE Admission -------------------------------
(***************************************************************************)
(* What go-away promises the site behind it, without cookies, keys, tokens *)
(* or rules: a visitor proves himself by passing challenges, a pass is     *)
(* his alone and wears off, and whoever is let in because of a challenge   *)
(* holds a fresh pass of it.  RequestFlow implements this specification.   *)
(***************************************************************************)
EXTENDS Naturals

CONSTANTS
    Requests,     \* visits that go on at the same time
    Clients,
    Challenges,
    Duration      \* Duration[c]: how long a pass of c is good for

VARIABLES
    now,
    passes,       \* every pass ever won: by whom, of which challenge, when
    visit         \* visit[q]: who visits, since when, and how it ends

Away == [status |-> "away"]

Init == now = 0 /\ passes = {} /\ visit = [q \in Requests |-> Away]

Enter(q) ==
    /\ visit[q].status = "away"
    /\ \E who \in Clients :
         visit' = [visit EXCEPT ![q] =
                     [status |-> "waiting", client |-> who, since |-> now, by |-> {}]]
    /\ UNCHANGED <<now, passes>>

\* p is a pass of c that v's visitor has won, and still good when v began.
Fresh(p, c, v) ==
    p.chal = c /\ p.client = v.client /\ p.at <= v.since /\ v.since < p.at + Duration[c]

\* The visitor may win passes, for himself and for now; then he waits on, is
\* answered otherwise, or is let in because of challenges he has fresh passes of.
Serve(q) ==
    /\ visit[q].status = "waiting"
    /\ passes \subseteq passes'
    /\ \A p \in passes' \ passes : p.client = visit[q].client /\ p.at = visit[q].since
    /\ \E status \in {"waiting", "answered", "admitted"} :
         visit' = [visit EXCEPT ![q].status = status, ![q].by = visit'[q].by]
    /\ visit'[q].by # {} => visit'[q].status = "admitted"
    /\ \A c \in visit'[q].by : \E p \in passes' : Fresh(p, c, visit[q])
    /\ UNCHANGED now

Leave(q) ==
    /\ visit[q].status \in {"answered", "admitted"}
    /\ visit' = [visit EXCEPT ![q] = Away]
    /\ UNCHANGED <<now, passes>>

Tick == now' = now + 1 /\ UNCHANGED <<passes, visit>>

Next == (\E q \in Requests : Enter(q) \/ Serve(q) \/ Leave(q)) \/ Tick

Spec == Init /\ [][Next]_<<now, passes, visit>>
=============================================================================
