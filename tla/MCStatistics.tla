----------------------------- MODULE MCStatistics -----------------------------
(***************************************************************************)
(* Finite instances of Statistics and Listing: one activity, statistics,   *)
(* lists and notifications read by its organizer, another organizer and    *)
(* the participants, and the requests that change what they read.          *)
(***************************************************************************)
EXTENDS Listing

CONSTANTS u1, u2, org, other, a1

MCUser == {u1, u2, org, other}
MCStaff == {org, other}
MCOrganizerOf == (a1 :> org)
Unlimited == (a1 :> [status |-> "published", capacity |-> 0])

Content(op, by, reg) ==
  [op |-> op, by |-> by, act |-> a1, reg |-> reg, decision |-> "approved"]

\* A registration is entered, approved and checked in; another operation on it,
\* or another registration, races with these.
MCWorkload ==
  {w \in [{1, 2, 3, 4} -> {Content("create", u1, 1), Content("offline", org, 1),
                           Content("review", org, 1), Content("checkin", org, 1),
                           Content("cancel", u1, 1), Content("create", u2, 1)}] :
     /\ w[1].by # u2 /\ w[1].op \in {"create", "offline"}
     /\ w[2].op = "checkin" /\ w[3].op \in {"review", "checkin"}
     /\ w[4].op \in {"cancel", "checkin", "offline"} \/ w[4].by = u2}

Reading(op, by, review, of) ==
  [op |-> op, by |-> by, act |-> a1, status |-> "any", review |-> review, of |-> of]
Statistic(by) == Reading("stats", by, "any", 1)

\* Statistics twice, or a walk through a list next to another reader.
MCReportWorkload ==
  {w \in [{1, 2} -> {Statistic(org), Statistic(other),
                     Reading("registrations", org, "pending", 1),
                     Reading("mine", u1, "any", 1), Reading("notifications", u1, "any", 1),
                     Reading("read", u1, "any", 1), Reading("read", u2, "any", 1)}] :
     \/ w[1] = Statistic(org) /\ w[2] = Statistic(other)
     \/ w[1].op \in {"registrations", "mine", "notifications"} /\ w[2].op = "read"}

\* Rows in the order they are committed, or some of one millisecond and others
\* committed after younger ones.
MCCreatedAt == {<<1, 3, 2, 4>>, <<2, 2, 1, 1>>}
=============================================================================
