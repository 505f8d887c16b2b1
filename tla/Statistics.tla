------------------------------ MODULE Statistics ------------------------------
(***************************************************************************)
(* ActivityService.Stats next to the handlers of Signup: an activity read, *)
(* then a count of its registrations and a count of its check-in records,  *)
(* three statements without a transaction.  Module Listing adds the other  *)
(* requests that read, and the specification.                              *)
(***************************************************************************)
EXTENDS Signup

CONSTANTS
  Report,         \* the requests that read
  ReportWorkload  \* the assignments of contents to Report considered

ReportOp == {"stats", "registrations", "mine", "notifications", "read"}

\* act, status, review: the filters of a list, which "any" leaves out;
\* of: the notification named by a read request.
ReportContent ==
  [op : ReportOp, by : User, act : Activity \cup {"any"},
   status : (RegistrationStatus \ {"absent"}) \cup {"any"}, review : ReviewStatus \cup {"any"},
   of : Request]

ASSUME StatisticsAssumption ==
  /\ ReportWorkload \subseteq [Report -> ReportContent]
  /\ \A w \in ReportWorkload : \A p \in Report :
       /\ w[p].op \in {"stats", "registrations"} => w[p].by \in Staff
       /\ w[p].op = "stats" => w[p].act \in Activity

VARIABLES
  report,      \* what each of them asks for, fixed when the behaviour starts
  stage,       \* how far each has come
  registered,  \* the registered_count that statistics show
  checked,     \* the checked_in_count that they show
  missed       \* history: registrations that the first count left out although
               \* the second may count a record of theirs

statVars == <<report, stage, registered, checked, missed>>

StatInit ==
  /\ report \in ReportWorkload
  /\ stage = [p \in Report |-> "start"]
  /\ registered = [p \in Report |-> 0]
  /\ checked = [p \in Report |-> 0]
  /\ missed = [p \in Report |-> {}]

Advance(p, from, to) ==
  stage[p] = from /\ stage' = [stage EXCEPT ![p] = to] /\ UNCHANGED report

\* FindByID and RequireManager.
Find(p) ==
  LET a == report[p].act
      allowed == activity[a].status # "absent" /\ CanManage(report[p].by, a)
  IN
  /\ report[p].op = "stats"
  /\ \/ allowed /\ Advance(p, "start", "found")
     \/ ~allowed /\ Advance(p, "start", "refused")
  /\ UNCHANGED <<registered, checked, missed>>

\* The records of an activity carry the activity_id of their registration.
Records(a) == {q \in checkIn : req[req[q].reg].act = a}

\* Registrations with a record that a stale cancellation has overwritten.
Overwritten(a) ==
  {r \in Request : req[r].act = a /\ registration[r].status = "cancelled"
                     /\ \E q \in checkIn : req[q].reg = r}

\* Mutant: the first count leaves out the registrations that are checked in.
CountRegistrationsOpen(p) ==
  LET a == report[p].act IN
  /\ report[p].op = "stats"
  /\ Advance(p, "found", "counted")
  /\ registered' = [registered EXCEPT ![p] = Cardinality(
       {r \in Request : req[r].act = a /\ Counts(r) /\ registration[r].status = "registered"})]
  /\ missed' = [missed EXCEPT ![p] = Overwritten(a)]
  /\ UNCHANGED checked

CountRegistrations(p) ==
  /\ report[p].op = "stats"
  /\ Advance(p, "found", "counted")
  /\ registered' = [registered EXCEPT ![p] = CountRegistered(report[p].act)]
  /\ missed' = [missed EXCEPT ![p] = Overwritten(report[p].act)]
  /\ UNCHANGED checked

CountCheckedIn(p) ==
  /\ report[p].op = "stats"
  /\ Advance(p, "counted", "ok")
  /\ checked' = [checked EXCEPT ![p] = Cardinality(Records(report[p].act))]
  /\ UNCHANGED <<registered, missed>>

Stats(p) == Find(p) \/ CountRegistrations(p) \/ CountCheckedIn(p)

-----------------------------------------------------------------------------

Counting(p) == report[p].op = "stats" /\ stage[p] = "counted"

\* Between the two counts, registrations are made that the first has not seen.
Misses(p) ==
  {r \in Request : Counting(p) /\ req[r].act = report[p].act /\ ~Present(r) /\ Present(r)'}

\* The two numbers that statistics show (activity_service.go:202-206) invert
\* only by as many as there are registrations that were made between the two
\* counts, or that a stale cancellation had overwritten before the first:
\* every other attendant is among the registered_count that is shown beside
\* the checked_in_count, whatever was cancelled, reviewed or checked in
\* meanwhile.
SkewBounded ==
  \A p \in Report : report[p].op = "stats" /\ stage[p] = "ok" =>
    checked[p] <= registered[p] + Cardinality(missed[p])

(* The inductive invariant behind it, proved in ListingProofs.             *)

\* The registrations that have a record or may come to have one.
Attendable(a) == {r \in Request : req[r].act = a /\ Counts(r)} \cup Overwritten(a)

CountInv ==
  \A p \in Report : Counting(p) =>
    Cardinality(Attendable(report[p].act) \ missed[p]) <= registered[p]
=============================================================================
