------------------------------- MODULE MCSignup -------------------------------
(***************************************************************************)
(* Finite instances of Signup.  Requests are numbered; a workload says     *)
(* what each of them asks for.                                             *)
(***************************************************************************)
EXTENDS Signup, TLC

CONSTANTS u1, u2, org, other, adm, a1, a2

MCUser == {u1, u2, org, other, adm}
MCAdmin == {adm}
MCStaff == {org, other, adm}
MCActivity == {a1, a2}
MCOrganizerOf == (a1 :> org) @@ (a2 :> other)

Published(capacity) ==
  (a1 :> [status |-> "published", capacity |-> capacity])
    @@ (a2 :> [status |-> "draft", capacity |-> 0])
\* The deadline of the draft changes nothing.
MCExpired == {a2}
OnePlace == Published(1)
TwoPlaces == Published(2)
Unlimited == Published(0)

Content(op, by, act, reg, decision) ==
  [op |-> op, by |-> by, act |-> act, reg |-> reg, decision |-> decision]
SignupBy(u, a) == Content("create", u, a, 1, "approved")
OfflineBy(u) == Content("offline", u, a1, 1, "approved")
CancelBy(u, r) == Content("cancel", u, a1, r, "approved")
ReviewBy(u, r, d) == Content("review", u, a1, r, d)
CheckInBy(u, a, r) == Content("checkin", u, a, r, "approved")

Workloads(alternatives) ==
  {w \in [DOMAIN alternatives -> UNION {alternatives[q] : q \in DOMAIN alternatives}] :
     \A q \in DOMAIN alternatives : w[q] \in alternatives[q]}

\* Requests start in any order, so those with the same alternatives can be
\* exchanged: only the workloads that follow the list of these are kept.
Listed(w, requests, list) ==
  \A p, q \in requests : q = p + 1 =>
    \E j \in DOMAIN list : w[q] = list[j] /\ \E i \in 1..j : w[p] = list[i]

Elements(list) == {list[i] : i \in DOMAIN list}

\* Competition for the places of an activity: signups by two participants and
\* the organizer, offline entries, and an operation that frees a place.
QuotaWorkload ==
  LET list == <<SignupBy(u1, a1), SignupBy(u2, a1), SignupBy(org, a1), OfflineBy(org)>>
      entry == Elements(list)
      release == {CancelBy(u1, 1), ReviewBy(org, 1, "rejected"), SignupBy(u1, a2)}
  IN {w \in Workloads(<<{SignupBy(u1, a1)}, entry, entry, entry, release>>) :
        Listed(w, 2..4, list)}

\* The life of registration 1: decisions, cancellations and check-ins by
\* its owner, the organizer, an admin and staff of another activity.
LifecycleWorkload ==
  LET list == <<CancelBy(u1, 1), CancelBy(adm, 1), CancelBy(u2, 1),
                ReviewBy(org, 1, "approved"), ReviewBy(adm, 1, "rejected"),
                ReviewBy(other, 1, "approved"),
                CheckInBy(org, a1, 1), CheckInBy(other, a2, 1)>>
      step == Elements(list)
  IN {w \in Workloads(<<{SignupBy(u1, a1), OfflineBy(org)}, {ReviewBy(org, 1, "approved")},
                        step, step, step>>) : Listed(w, 3..5, list)}

DeskWorkload == QuotaWorkload \cup LifecycleWorkload
=============================================================================
