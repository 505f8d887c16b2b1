----------------------------- MODULE MCActivities -----------------------------
(***************************************************************************)
(* Finite instances of ActivityHistory.                                    *)
(***************************************************************************)
EXTENDS ActivityHistory, TLC

CONSTANTS org, other, adm, a1, a2

MCUser == {org, other, adm}
MCAdmin == {adm}
MCActivity == {a1, a2}
MCOrganizerOf == (a1 :> org) @@ (a2 :> other)

\* a1 is published; the id a2 is given to the activity that other creates.
Published ==
  (a1 :> [status |-> "published", capacity |-> 2]) @@ (a2 :> [status |-> "absent", capacity |-> 0])
Draft ==
  (a1 :> [status |-> "draft", capacity |-> 2]) @@ (a2 :> [status |-> "absent", capacity |-> 0])

Content(op, by, act, status, capacity) ==
  [op |-> op, by |-> by, act |-> act, status |-> status, capacity |-> capacity]

Managed(by, a) ==
  {Content(op, by, a, "draft", Keep) : op \in {"publish", "end", "delete"}}
    \cup {Content("update", by, a, "draft", v) : v \in {Keep, 1}}

\* Requests are started in any order, so a workload stands for all its
\* permutations: only those that list the operations in this order are kept.
Rank(content) ==
  CASE content.op = "publish" -> 1
    [] content.op = "end" -> 2
    [] content.op = "delete" -> 3
    [] content.op = "update" -> IF content.capacity = Keep THEN 4 ELSE 5
    [] OTHER -> 0

InOrder(w, from) == \A c, d \in Change : from <= c /\ c < d => Rank(w[c]) <= Rank(w[d])

\* Any four operations on a1 by its organizer; one of them may be by an admin
\* or by another organizer.
OneActivity ==
  {w \in [Change -> Managed(org, a1) \cup Managed(adm, a1) \cup Managed(other, a1)] :
     InOrder(w, 2) /\ \A c \in Change \ {1} : w[c].by = org}

\* An activity comes into being and is operated on at the same time.
NewActivity ==
  LET new == {Content("create", other, a2, s, 2) : s \in {"draft", "published"}}
  IN {w \in [Change -> new \cup Managed(other, a2)] :
        InOrder(w, 2) /\ \A c \in Change : w[c] \in new <=> c = 1}

MCChangeWorkload == OneActivity \cup NewActivity
=============================================================================
