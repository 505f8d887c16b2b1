------------------------------- MODULE EventGo -------------------------------
(***************************************************************************)
(* Participants and organizers at work on the same tables: the registration *)
(* and check-in handlers of Signup together with the operations of         *)
(* Activities.  They share the activities table and the locks on its rows; *)
(* a signup holds the lock of its activity from its locking read to its    *)
(* commit, and the statement by which an organizer writes the row waits.   *)
(***************************************************************************)
EXTENDS Signup

CONSTANTS
  Change,          \* the requests of organizers, as in Activities
  ChangeWorkload,
  Keep

VARIABLES change, step, copy

Desk == INSTANCE Activities WITH Session <- Request

\* The same operations where nobody ever locks a row.
Undisturbed == INSTANCE Activities
  WITH Session <- Request, activityLock <- [a \in Activity |-> Free]

\* The assumption of Activities, with the accounts and activities of Signup: in
\* particular, an id is assigned once, to the activity of who creates it.
ASSUME EventAssumption ==
  /\ Keep \notin Nat
  /\ ChangeWorkload \subseteq [Change -> Desk!ChangeContent]
  /\ \A w \in ChangeWorkload : \A c, d \in Change : w[c].op = "create" =>
       /\ InitialActivity[w[c].act].status = "absent"
       /\ OrganizerOf[w[c].act] = w[c].by
       /\ w[c].capacity \in Nat
       /\ w[d].op = "create" /\ w[d].act = w[c].act => d = c

deskVars == <<change, step, copy>>
ownVars == <<req, pc, local, expired, registration, checkIn, notified, regLock>>
allVars == <<vars, deskVars>>

EventInit == Init /\ Desk!ChangeInit

Participate ==
  /\ \/ \E q \in Request : Handle(q) \/ Fail(q)
     \/ \E a \in Activity : DeadlinePasses(a)
  /\ UNCHANGED deskVars

Organize ==
  /\ \E c \in Change : Desk!HandleChange(c) \/ Desk!FailChange(c)
  /\ UNCHANGED ownVars

AllFinished ==
  /\ \A q \in Request : pc[q] \in Answered
  /\ \A c \in Change : step[c] \in Desk!Done
  /\ UNCHANGED allVars

EventNext == Participate \/ Organize \/ AllFinished

EventSpec == EventInit /\ [][EventNext]_allVars

\* The Go scheduler runs every goroutine, and the database serves every
\* statement that does not have to wait for a lock.
FairEventSpec ==
  /\ EventSpec
  /\ \A q \in Request : WF_allVars(Handle(q) /\ UNCHANGED deskVars)
  /\ \A c \in Change : WF_allVars(Desk!HandleChange(c) /\ UNCHANGED ownVars)

-----------------------------------------------------------------------------

\* Whatever organizers do meanwhile, a signup is committed only while its
\* activity exists and is published and has room under the capacity it has at
\* that moment (signup_guard.go:37-45 locks the row); so registrations exceed
\* the capacity only when an organizer lowers it below what is taken.
AdmitsOnlyWithRoom ==
  [][\A q \in Request : ~Present(q) /\ Present(q)' /\ req[q].op = "create"
                          => Promise!SignUp(q)]_allVars

OrganizerEdits ==
  \E c \in Change :
    /\ UNCHANGED <<req, registration, checkIn, notified>>
    /\ \A b \in Activity : b # change[c].act => activity'[b] = activity[b]

\* Next to organizers the participants' handlers stay the atomic desk of
\* SignupPromise: each write is a step of it, allowed by the tables as they are
\* at that moment, stale saves included, and all that an organizer changes is
\* the row of the activity he names (activity_repository.go:127-133).
PromiseKept == [][Promise!Next \/ OrganizerEdits]_(Promise!vars)

LowersCapacity(a) ==
  activity'[a].capacity > 0 /\ ~(0 < activity[a].capacity /\ activity[a].capacity <= activity'[a].capacity)

\* Online registrations that fit the capacity (signup_guard.go:37-45) outgrow it
\* in one way: the save of an organizer lowers it below what is taken, as asked
\* or with the stale capacity of the copy it writes (activity_service.go:92).
QuotaLostOnlyByEdit ==
  [][\A a \in Activity : WithinCapacity(a) /\ ~WithinCapacity(a)' =>
       LowersCapacity(a) /\ \E c \in Change : Desk!SaveRow(c) /\ change[c].act = a]_allVars

\* A registration of an activity that was ended, edited or deleted keeps the
\* promises of check-in, which never looks at the activity.
AttendanceKept == OneCheckInPerRegistration /\ CheckInConsistent /\ OneSignupPerUser

\* Organizers see nothing of the participants but delays: their part of every
\* behaviour is a behaviour of Activities, whatever signups lock and write.
ImplementsActivities == Undisturbed!Spec

\* The request that holds the row for which request p, or organizer c, waits.
WaitsFor(p, q) ==
  \/ At(p, "create", "start") /\ activityLock[req[p].act] = q
  \/ /\ At(p, "review", "start") \/ At(p, "checkin", "checkinFound") \/ At(p, "cancel", "cancelRead")
     /\ regLock[req[p].reg] = q

SaveWaitsFor(c, q) == step[c] = "read" /\ activityLock[change[c].act] = q

\* A request for which others wait does not wait itself, and can end: no waiting
\* is circular, nor longer than one transaction (signup_guard.go:38,
\* registration_service.go:97, check_in_record_service.go:64).
NobodyWaitsTwice ==
  \A q \in Request :
    (\E p \in Request : WaitsFor(p, q)) \/ (\E c \in Change : SaveWaitsFor(c, q)) =>
      pc[q] \in InFlight /\ \A r \in Request : ~WaitsFor(q, r)

\* The locks of activity rows that signups hold and organizers wait for, and
\* those of registration rows that reviews and check-ins hold and Cancel waits
\* for, never leave requests waiting for each other: all are answered.
AllAnswered ==
  /\ \A q \in Request : <>(pc[q] \in Answered)
  /\ \A c \in Change : <>(step[c] \in Desk!Done)
=============================================================================
