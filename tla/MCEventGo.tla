------------------------------ MODULE MCEventGo ------------------------------
(***************************************************************************)
(* Finite instances of EventGo: the accounts, activities and requests of   *)
(* MCSignup, and requests of the organizer of activity a1.                 *)
(***************************************************************************)
EXTENDS EventGo, TLC

CONSTANTS u1, u2, org, adm, a1

MCUser == {u1, u2, org, adm}
MCAdmin == {adm}
MCStaff == {org, adm}
MCOrganizerOf == (a1 :> org)
OnePlace == (a1 :> [status |-> "published", capacity |-> 1])
TwoPlaces == (a1 :> [status |-> "published", capacity |-> 2])

Content(op, by, reg) ==
  [op |-> op, by |-> by, act |-> a1, reg |-> reg, decision |-> "approved"]
Edit(op, capacity) ==
  [op |-> op, by |-> org, act |-> a1, status |-> "draft", capacity |-> capacity]

\* Two participants sign up; the third request is a signup by the organizer, an
\* offline entry, a decision or a cancellation.  Or the organizer signs up while
\* he enters an attendant, which the unique index keeps apart.
RaceWorkload ==
  {w \in [{1, 2, 3} -> {Content("create", u1, 1), Content("create", u2, 1),
                        Content("create", org, 1), Content("offline", org, 1),
                        Content("review", org, 1), Content("cancel", u1, 1)}] :
     /\ w[1] = Content("create", u1, 1)
     /\ \/ w[2] = Content("create", u2, 1)
        \/ w[2] = Content("create", org, 1) /\ w[3] = Content("offline", org, 1)}

\* A registration is entered, decided and checked in.
AttendWorkload ==
  {w \in [{1, 2, 3} -> {Content("offline", org, 1), Content("create", u1, 1),
                        Content("review", org, 1), Content("checkin", org, 1),
                        Content("cancel", adm, 1)}] :
     /\ w[1].op \in {"offline", "create"} /\ w[2].op = "checkin"
     /\ w[3].op \in {"review", "checkin", "cancel"}}

MCWorkload == RaceWorkload \cup AttendWorkload

\* Contenders for the row of the activity, or for that of registration 1.
ContentionWorkload ==
  LET any == {Content("create", u2, 1), Content("review", org, 1),
              Content("checkin", org, 1), Content("cancel", u1, 1)}
  IN {w \in [{1, 2, 3} -> any \cup {Content("create", u1, 1), Content("offline", org, 1)}] :
        w[1] \notin any /\ w[2] \in any /\ w[3] \in any}

\* The operations of the organizer.  They start in any order, so only choices
\* that follow the list are kept.
MCChangeWorkload ==
  LET edits == <<Edit("end", Keep), Edit("delete", Keep), Edit("publish", Keep),
                 Edit("update", 1), Edit("update", 3)>>
  IN {[c \in Change |-> edits[at[c]]] :
        at \in {f \in [Change -> 1..5] : \A c, d \in Change : c < d => f[c] <= f[d]}}
=============================================================================
