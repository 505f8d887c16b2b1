----------------------------- MODULE SignupPromise -----------------------------
(***************************************************************************)
(* What registration and check-in promise to the rest of the system: each  *)
(* request that writes does so in one atomic step, allowed by the tables   *)
(* as they are at that moment.  Locks, read views, stale copies and the    *)
(* progress of handlers are gone; Signup implements this specification.    *)
(*                                                                         *)
(* The promise is no stronger than the handlers keep: offline entry is not *)
(* bound to the capacity, and a cancellation may find the registration     *)
(* already checked in or cancelled and may restore an old review_status.   *)
(***************************************************************************)
EXTENDS Naturals, FiniteSets

CONSTANTS Request, User, Admin, Activity, OrganizerOf, InitialActivity, Workload

VARIABLES req, activity, registration, checkIn, notified

vars == <<req, activity, registration, checkIn, notified>>

Init ==
  /\ req \in Workload
  /\ activity = InitialActivity
  /\ registration = [r \in Request |-> [status |-> "absent", review |-> "pending"]]
  /\ checkIn = {}
  /\ notified = {}

Online(a) == {r \in Request : /\ req[r].op = "create" /\ req[r].act = a
                              /\ registration[r].status # "absent"}

TakingPlace(a) == {r \in Online(a) : /\ registration[r].status # "cancelled"
                                     /\ registration[r].review # "rejected"}

SignUp(q) ==
  LET a == req[q].act IN
  /\ req[q].op = "create" /\ registration[q].status = "absent"
  /\ activity[a].status = "published"
  /\ activity[a].capacity > 0 => Cardinality(TakingPlace(a)) < activity[a].capacity
  /\ \A r \in Online(a) : req[r].by # req[q].by
  /\ registration' = [registration EXCEPT ![q] = [status |-> "registered", review |-> "pending"]]
  /\ notified' = notified \cup {q}
  /\ UNCHANGED <<req, activity, checkIn>>

EnterOffline(q) ==
  /\ req[q].op = "offline" /\ registration[q].status = "absent"
  /\ registration' = [registration EXCEPT ![q] = [status |-> "registered", review |-> "approved"]]
  /\ UNCHANGED <<req, activity, checkIn, notified>>

CancelRegistration(q) ==
  LET r == req[q].reg IN
  /\ req[q].op = "cancel" /\ registration[r].status # "absent"
  /\ req[q].by \in Admin \/ req[q].by = req[r].by
  /\ \E review \in {"pending", "approved", "rejected"} :
       registration' = [registration EXCEPT ![r] = [status |-> "cancelled", review |-> review]]
  /\ UNCHANGED <<req, activity, checkIn, notified>>

Decide(q) ==
  LET r == req[q].reg IN
  /\ req[q].op = "review" /\ q \notin notified
  /\ req[q].by \in Admin \/ req[q].by = OrganizerOf[req[r].act]
  /\ registration[r].status \in {"registered", "cancelled"}
  /\ registration[r].review = "pending"
  /\ registration' = [registration EXCEPT ![r].review = req[q].decision]
  /\ notified' = notified \cup {q}
  /\ UNCHANGED <<req, activity, checkIn>>

Attend(q) ==
  LET r == req[q].reg IN
  /\ req[q].op = "checkin" /\ q \notin checkIn /\ req[r].act = req[q].act
  /\ registration[r] = [status |-> "registered", review |-> "approved"]
  /\ registration' = [registration EXCEPT ![r].status = "checked_in"]
  /\ checkIn' = checkIn \cup {q}
  /\ notified' = notified \cup {q}
  /\ UNCHANGED <<req, activity>>

Next == \E q \in Request :
  SignUp(q) \/ EnterOffline(q) \/ CancelRegistration(q) \/ Decide(q) \/ Attend(q)

Spec == Init /\ [][Next]_vars

-----------------------------------------------------------------------------
(* What these steps alone guarantee, proved in SignupProofs: nothing of the *)
(* handlers is needed for it but that they implement this specification.   *)

RowsOK ==
  /\ req \in Workload /\ activity = InitialActivity
  /\ registration \in [Request -> [status : {"absent", "registered", "cancelled", "checked_in"},
                                   review : {"pending", "approved", "rejected"}]]
  /\ checkIn \subseteq Request

QuotaKept ==
  \A a \in Activity :
    activity[a].capacity > 0 => Cardinality(TakingPlace(a)) <= activity[a].capacity

OneSignup == \A a \in Activity : \A r, s \in Online(a) : req[r].by = req[s].by => r = s

OneAttendance ==
  /\ \A p, q \in checkIn : req[p].reg = req[q].reg => p = q
  /\ \A q \in checkIn : registration[req[q].reg].status \in {"checked_in", "cancelled"}
  /\ \A r \in Request : registration[r].status = "checked_in" =>
       registration[r].review = "approved" /\ \E q \in checkIn : req[q].reg = r

Guarantee == RowsOK /\ QuotaKept /\ OneSignup /\ OneAttendance

\* A place that was given up, by a cancellation or a rejection, stays so.
GivenUpForGood ==
  [][\A r \in Request :
       /\ registration[r].status = "cancelled" => registration'[r].status = "cancelled"
       /\ registration[r].status # "absent" /\ registration[r].review = "rejected" =>
            registration'[r].status = "cancelled" \/ registration'[r].review = "rejected"]_vars
=============================================================================
