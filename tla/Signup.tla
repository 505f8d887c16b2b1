-------------------------------- MODULE Signup --------------------------------
(***************************************************************************)
(* Registration and check-in (service/registration_service.go,             *)
(* service/signup_guard.go, service/check_in_record_service.go) over the   *)
(* registrations, check_in_records and notifications tables.               *)
(*                                                                         *)
(* Every HTTP request runs in a goroutine of its own, so a behaviour is an *)
(* interleaving of the database statements of a set of requests.  One      *)
(* action is one statement of a handler with the local code that follows   *)
(* it; statements of one transaction that no other session can tell apart  *)
(* (snapshot reads of one read view, the writes of one commit) are one     *)
(* action.  Each request inserts at most one row in each table, so a row   *)
(* is named by the request that inserted it.                               *)
(***************************************************************************)
EXTENDS Naturals, FiniteSets

CONSTANTS
  Request,             \* the requests received in a behaviour
  User,                \* accounts
  Admin,               \* accounts with role admin
  Staff,               \* accounts that pass RequireRole(organizer, admin)
  Activity,            \* activity ids
  OrganizerOf,         \* column organizer_id, which no operation changes
  InitialActivity,     \* the activities table when the behaviour starts
  InitialExpired,      \* the activities whose signup_deadline has passed by then
  Workload,            \* the assignments of contents to Request considered
  UniqueActivityUser,  \* the schema has uk_registrations_activity_user
  Free                 \* the holder of a row lock nobody holds

Op == {"create", "offline", "cancel", "review", "checkin"}
StaffOp == {"offline", "review", "checkin"}
ActivityStatus == {"draft", "published", "ended", "absent"}  \* absent: no such row
RegistrationStatus == {"absent", "registered", "cancelled", "checked_in"}
ReviewStatus == {"pending", "approved", "rejected"}

ActivityRow == [status : ActivityStatus, capacity : Nat]
RegistrationRow == [status : RegistrationStatus, review : ReviewStatus]

\* act: the activity named by a create, offline or checkin request;
\* reg: the registration named by a cancel, review or checkin request;
\* decision: the review_status of a review request.
RequestContent == [op : Op, by : User, act : Activity, reg : Request,
                   decision : {"approved", "rejected"}]

ASSUME SignupAssumption ==
  /\ IsFiniteSet(Request)
  /\ Free \notin Request
  /\ Admin \subseteq Staff /\ Staff \subseteq User
  /\ OrganizerOf \in [Activity -> User]
  /\ InitialActivity \in [Activity -> ActivityRow]
  /\ InitialExpired \subseteq Activity
  /\ UniqueActivityUser \in BOOLEAN
  /\ Workload \subseteq [Request -> RequestContent]
  /\ \A w \in Workload : \A q \in Request :
       w[q].op \in StaffOp => w[q].by \in Staff

VARIABLES
  req,           \* what each request asks for, fixed when the behaviour starts
  pc,            \* how far the handler of each request has come
  local,         \* the columns a handler has read and uses again later
  activity,      \* table activities
  expired,       \* activities whose signup_deadline has passed
  registration,  \* table registrations, by the request that inserted the row
  checkIn,       \* check-in requests that have inserted a check_in_records row
  notified,      \* requests that have inserted a notifications row
  activityLock,  \* exclusive lock on each activities row
  regLock        \* exclusive lock on each registrations row

vars == <<req, pc, local, activity, expired, registration, checkIn, notified,
          activityLock, regLock>>
tables == <<activity, registration, checkIn, notified>>
locks == <<activityLock, regLock>>

\* "ok": the last statement has committed, whether or not the answer reaches
\* the client; who sends again for want of it is another request.
Answered == {"ok", "refused", "failed"}
InFlight == {"createLocked", "createChecked", "offlineRead", "offlineCounted",
             "cancelRead", "reviewLocked", "reviewAllowed", "checkinFound", "checkinLocked"}

TypeOK ==
  /\ req \in Workload
  /\ pc \in [Request -> {"start"} \cup InFlight \cup Answered]
  /\ local \in [Request -> [capacity : Nat, review : ReviewStatus]]
  /\ activity \in [Activity -> ActivityRow]
  /\ expired \subseteq Activity
  /\ registration \in [Request -> RegistrationRow]
  /\ checkIn \subseteq Request
  /\ notified \subseteq Request
  /\ activityLock \in [Activity -> Request \cup {Free}]
  /\ regLock \in [Request -> Request \cup {Free}]

Init ==
  /\ req \in Workload
  /\ pc = [q \in Request |-> "start"]
  /\ local = [q \in Request |-> [capacity |-> 0, review |-> "pending"]]
  /\ activity = InitialActivity
  /\ expired = InitialExpired
  /\ registration = [r \in Request |-> [status |-> "absent", review |-> "pending"]]
  /\ checkIn = {}
  /\ notified = {}
  /\ activityLock = [a \in Activity |-> Free]
  /\ regLock = [r \in Request |-> Free]

-----------------------------------------------------------------------------
(* Queries.                                                                *)

Present(r) == registration[r].status # "absent"

\* The WHERE clause of countRegistered.
Counts(r) == /\ registration[r].status \notin {"absent", "cancelled"}
             /\ registration[r].review # "rejected"

CountRegistered(a) == Cardinality({r \in Request : req[r].act = a /\ Counts(r)})

\* Mutant: cancelled registrations do not count as duplicates.
FindByActivityAndUserActive(q) ==
  \E r \in Request : /\ registration[r].status \notin {"absent", "cancelled"}
                     /\ req[r].act = req[q].act
                     /\ req[r].by = req[q].by

\* FindByActivityAndUser: a row of any status for the activity and user of q.
FindByActivityAndUser(q) ==
  \E r \in Request : /\ Present(r)
                     /\ req[r].act = req[q].act
                     /\ req[r].by = req[q].by

KeyTaken(q) == UniqueActivityUser /\ FindByActivityAndUser(q)

SignupOpen(a) == activity[a].status = "published" /\ a \notin expired

\* Mutant: the comparison is off by one.
FullOffByOne(q) ==
  local[q].capacity > 0 /\ CountRegistered(req[q].act) > local[q].capacity

Full(q) == local[q].capacity > 0 /\ CountRegistered(req[q].act) >= local[q].capacity

CanManage(u, a) == u \in Admin \/ u = OrganizerOf[a]

-----------------------------------------------------------------------------
(* Steps of a handler.                                                     *)

At(q, op, label) == req[q].op = op /\ pc[q] = label

Goto(q, label) == pc' = [pc EXCEPT ![q] = label]

\* Mutant: a session keeps its registration lock.
UnlockActivityOnly(q) ==
  /\ activityLock' = [a \in Activity |-> IF activityLock[a] = q THEN Free ELSE activityLock[a]]
  /\ UNCHANGED regLock

\* Commit or rollback releases the row locks of the session.
Unlock(q) ==
  /\ activityLock' = [a \in Activity |-> IF activityLock[a] = q THEN Free ELSE activityLock[a]]
  /\ regLock' = [r \in Request |-> IF regLock[r] = q THEN Free ELSE regLock[r]]

Answer(q, result) == Goto(q, result) /\ UNCHANGED <<req, local, expired>>

\* Mutant: an early return leaves the transaction open.
RefuseWithoutRollback(q) == Answer(q, "refused") /\ UNCHANGED <<tables, locks>>

\* An early return: nothing is written and the transaction, if any, rolls back.
Refuse(q) == Answer(q, "refused") /\ Unlock(q) /\ UNCHANGED tables

Insert(q, review) ==
  registration' = [registration EXCEPT ![q] = [status |-> "registered", review |-> review]]

\* Mutant: Create reads the activity with FindByID, without the row lock.
CreateReadUnlocked(q) ==
  LET a == req[q].act IN
  /\ At(q, "create", "start")
  /\ \/ /\ SignupOpen(a)
        /\ local' = [local EXCEPT ![q].capacity = activity[a].capacity]
        /\ Goto(q, "createLocked")
        /\ UNCHANGED <<req, tables, expired, locks>>
     \/ ~SignupOpen(a) /\ Refuse(q)

\* RegistrationService.Create: FindByIDForUpdate locks the activity row; the
\* status and the deadline are checked on the row it returns.
CreateLock(q) ==
  LET a == req[q].act IN
  /\ At(q, "create", "start")
  /\ activityLock[a] = Free
  /\ \/ /\ SignupOpen(a)
        /\ activityLock' = [activityLock EXCEPT ![a] = q]
        /\ local' = [local EXCEPT ![q].capacity = activity[a].capacity]
        /\ Goto(q, "createLocked")
        /\ UNCHANGED <<req, tables, expired, regLock>>
     \/ ~SignupOpen(a) /\ Refuse(q)

\* The two snapshot reads of the transaction, which share one read view: the
\* number of counted registrations, then the duplicate check.
CreateCheck(q) ==
  /\ At(q, "create", "createLocked")
  /\ \/ /\ ~Full(q) /\ ~FindByActivityAndUser(q)
        /\ Goto(q, "createChecked")
        /\ UNCHANGED <<req, local, tables, expired, locks>>
     \/ (Full(q) \/ FindByActivityAndUser(q)) /\ Refuse(q)

\* Insert the registration and the signup notification and commit.  The insert
\* fails, and everything rolls back, when the unique index has the key.
CreateCommit(q) ==
  /\ At(q, "create", "createChecked")
  /\ Unlock(q)
  /\ \/ /\ ~KeyTaken(q)
        /\ Insert(q, "pending")
        /\ notified' = notified \cup {q}
        /\ Answer(q, "ok")
        /\ UNCHANGED <<activity, checkIn>>
     \/ KeyTaken(q) /\ Answer(q, "failed") /\ UNCHANGED tables

\* RegistrationService.OfflineCreate runs no transaction and takes no lock:
\* read the activity, count, insert, each statement on its own.
OfflineRead(q) ==
  LET a == req[q].act IN
  /\ At(q, "offline", "start")
  /\ \/ /\ SignupOpen(a)
        /\ local' = [local EXCEPT ![q].capacity = activity[a].capacity]
        /\ Goto(q, "offlineRead")
        /\ UNCHANGED <<req, tables, expired, locks>>
     \/ ~SignupOpen(a) /\ Refuse(q)

OfflineCount(q) ==
  /\ At(q, "offline", "offlineRead")
  /\ \/ ~Full(q) /\ Goto(q, "offlineCounted") /\ UNCHANGED <<req, local, tables, expired, locks>>
     \/ Full(q) /\ Refuse(q)

OfflineInsert(q) ==
  /\ At(q, "offline", "offlineCounted")
  /\ \/ /\ ~KeyTaken(q)
        /\ Insert(q, "approved")
        /\ Answer(q, "ok")
        /\ UNCHANGED <<activity, checkIn, notified, locks>>
     \/ KeyTaken(q) /\ Answer(q, "failed") /\ UNCHANGED <<tables, locks>>

\* RegistrationService.Cancel: an unlocked read whose whole row, with the new
\* status, is saved by a later statement.
CancelRead(q) ==
  LET r == req[q].reg IN
  /\ At(q, "cancel", "start")
  /\ \/ /\ registration[r].status = "registered"
        /\ req[q].by \in Admin \/ req[q].by = req[r].by
        /\ local' = [local EXCEPT ![q].review = registration[r].review]
        /\ Goto(q, "cancelRead")
        /\ UNCHANGED <<req, tables, expired, locks>>
     \/ /\ \/ registration[r].status # "registered"
           \/ req[q].by \notin Admin /\ req[q].by # req[r].by
        /\ Refuse(q)

\* The UPDATE of every column waits for the row lock, then writes the copy.
CancelSave(q) ==
  LET r == req[q].reg IN
  /\ At(q, "cancel", "cancelRead")
  /\ regLock[r] = Free
  /\ registration' = [registration EXCEPT ![r] =
                        [status |-> "cancelled", review |-> local[q].review]]
  /\ Answer(q, "ok")
  /\ UNCHANGED <<activity, checkIn, notified, locks>>

\* RegistrationService.Review: FindByIDForUpdate locks the registration row.
ReviewLock(q) ==
  LET r == req[q].reg IN
  /\ At(q, "review", "start")
  /\ regLock[r] = Free
  /\ \/ /\ Present(r)
        /\ regLock' = [regLock EXCEPT ![r] = q]
        /\ Goto(q, "reviewLocked")
        /\ UNCHANGED <<req, local, tables, expired, activityLock>>
     \/ ~Present(r) /\ Refuse(q)

\* ActivityService.Get on a connection of its own, outside the transaction.
ReviewRead(q) ==
  LET a == req[req[q].reg].act
      allowed == activity[a].status # "absent" /\ CanManage(req[q].by, a)
  IN
  /\ At(q, "review", "reviewLocked")
  /\ \/ allowed /\ Goto(q, "reviewAllowed") /\ UNCHANGED <<req, local, tables, expired, locks>>
     \/ ~allowed /\ Refuse(q)

\* Mutant: a decided registration can be reviewed again.
ReviewableAgain(q) == registration[req[q].reg].status # "checked_in"

Reviewable(q) ==
  LET r == req[q].reg IN
  registration[r].review = "pending" /\ registration[r].status # "checked_in"

\* The checks on the locked row pass; the decision and the notification are
\* written and committed.
ReviewCommit(q) ==
  /\ At(q, "review", "reviewAllowed")
  /\ \/ /\ Reviewable(q)
        /\ registration' = [registration EXCEPT ![req[q].reg].review = req[q].decision]
        /\ notified' = notified \cup {q}
        /\ Answer(q, "ok")
        /\ Unlock(q)
        /\ UNCHANGED <<activity, checkIn>>
     \/ ~Reviewable(q) /\ Refuse(q)

\* CheckInByVoucher and CheckInByScan find the registration without a lock;
\* only its id is used later.
CheckInFind(q) ==
  LET r == req[q].reg IN
  /\ At(q, "checkin", "start")
  /\ \/ /\ Present(r) /\ req[r].act = req[q].act
        /\ Goto(q, "checkinFound")
        /\ UNCHANGED <<req, local, tables, expired, locks>>
     \/ ~(Present(r) /\ req[r].act = req[q].act) /\ Refuse(q)

CheckInLock(q) ==
  LET r == req[q].reg IN
  /\ At(q, "checkin", "checkinFound")
  /\ regLock[r] = Free
  /\ regLock' = [regLock EXCEPT ![r] = q]
  /\ Goto(q, "checkinLocked")
  /\ UNCHANGED <<req, local, tables, expired, activityLock>>

\* Mutant: only the review status is looked at.
CanCheckInApproved(r) == registration[r].review = "approved"

\* Mutant: only the registration status is looked at.
CanCheckInRegistered(r) == registration[r].status = "registered"

CanCheckIn(r) == registration[r] = [status |-> "registered", review |-> "approved"]

\* The record, the new status and the notification are written and committed.
CheckInCommit(q) ==
  LET r == req[q].reg IN
  /\ At(q, "checkin", "checkinLocked")
  /\ \/ /\ CanCheckIn(r)
        /\ checkIn' = checkIn \cup {q}
        /\ registration' = [registration EXCEPT ![r].status = "checked_in"]
        /\ notified' = notified \cup {q}
        /\ Answer(q, "ok")
        /\ Unlock(q)
        /\ UNCHANGED activity
     \/ ~CanCheckIn(r) /\ Refuse(q)

\* A statement errs (voucher collision, lock wait timeout, lost connection),
\* or the process stops while the handler runs: the open transaction rolls
\* back, and a handler without one has written nothing yet.  A first statement
\* that errs leaves the tables as a request does that is never handled.
Fail(q) ==
  /\ pc[q] \in InFlight
  /\ Answer(q, "failed")
  /\ Unlock(q)
  /\ UNCHANGED tables

DeadlinePasses(a) ==
  /\ a \notin expired
  /\ expired' = expired \cup {a}
  /\ UNCHANGED <<req, pc, local, tables, locks>>

\* Every request has been answered; nothing is left to do.
Finished == (\A q \in Request : pc[q] \in Answered) /\ UNCHANGED vars

Create(q) == CreateLock(q) \/ CreateCheck(q) \/ CreateCommit(q)
OfflineCreate(q) == OfflineRead(q) \/ OfflineCount(q) \/ OfflineInsert(q)
Cancel(q) == CancelRead(q) \/ CancelSave(q)
Review(q) == ReviewLock(q) \/ ReviewRead(q) \/ ReviewCommit(q)
CheckIn(q) == CheckInFind(q) \/ CheckInLock(q) \/ CheckInCommit(q)

Handle(q) == Create(q) \/ OfflineCreate(q) \/ Cancel(q) \/ Review(q) \/ CheckIn(q)

Next ==
  \/ \E q \in Request : Handle(q) \/ Fail(q)
  \/ \E a \in Activity : DeadlinePasses(a)
  \/ Finished

Spec == Init /\ [][Next]_vars

-----------------------------------------------------------------------------
(* Safety.                                                                 *)

OnlineCounted(a) ==
  {r \in Request : req[r].op = "create" /\ req[r].act = a /\ Counts(r)}

\* The registrations made online fit the capacity, where zero means any number.
WithinCapacity(a) ==
  activity[a].capacity > 0 => Cardinality(OnlineCounted(a)) <= activity[a].capacity

\* Create counts and inserts under the lock of the activity row
\* (signup_guard.go:37-45), so registrations made online never exceed the
\* capacity, however many requests run and whatever the other handlers do.
OnlineWithinCapacity == \A a \in Activity : WithinCapacity(a)

\* Create looks for a registration of the same user before it inserts one
\* (registration_service.go:43): no user holds two online registrations for an
\* activity, in neither schema, not even when the first one was cancelled.
OneSignupPerUser ==
  \A r, s \in Request :
    /\ Present(r) /\ req[r].op = "create"
    /\ Present(s) /\ req[s].op = "create"
    /\ req[r].act = req[s].act /\ req[r].by = req[s].by
    => r = s

\* No unique index protects check_in_records.registration_id; doCheckIn
\* (check_in_record_service.go:61-103) alone keeps a registration, cancelled
\* and rechecked as it may be, from having two records.
OneCheckInPerRegistration ==
  \A p, q \in checkIn : req[p].reg = req[q].reg => p = q

\* What the attendance list shows: a registration that is checked in was
\* approved and has its record, and one with a record is never open again
\* for a check-in, even when a cancellation overwrote its status.
CheckInConsistent ==
  /\ \A r \in Request : registration[r].status = "checked_in" =>
       registration[r].review = "approved" /\ \E q \in checkIn : req[q].reg = r
  /\ \A q \in checkIn : registration[req[q].reg].status \in {"checked_in", "cancelled"}

\* A registration that stopped counting against the quota (cancelled or
\* rejected) never counts again, although Cancel saves a stale row.
PlaceReleasedForGood ==
  [][\A r \in Request : Present(r) /\ ~Counts(r) => ~Counts(r)']_vars

\* A cancellation is final: no stale save brings the registration back.
CancelledForGood ==
  [][\A r \in Request : registration[r].status = "cancelled"
                          => registration'[r].status = "cancelled"]_vars

\* No request that was answered, refused or failed leaves a row locked.
NoLeakedLock ==
  /\ \A a \in Activity : activityLock[a] # Free => pc[activityLock[a]] \in InFlight
  /\ \A r \in Request : regLock[r] # Free => pc[regLock[r]] \in InFlight

(* The inductive invariant behind them, proved in SignupProofs.            *)

\* A row lock is held by exactly the transaction that is between its locking
\* read and its commit, and a handler that knows a registration id knows one
\* that exists.
LockInv ==
  /\ \A q \in Request : pc[q] \in {"createLocked", "createChecked"} => req[q].op = "create"
  /\ \A q \in Request, a \in Activity : activityLock[a] = q <=>
       pc[q] \in {"createLocked", "createChecked"} /\ req[q].act = a
  /\ \A q, r \in Request : regLock[r] = q <=>
       pc[q] \in {"reviewLocked", "reviewAllowed", "checkinLocked"} /\ req[q].reg = r

\* Rows are inserted by create and offline requests that were answered ok, and
\* the handlers that write a registration later have seen it exist.
RowInv ==
  /\ \A r \in Request : Present(r) => pc[r] = "ok" /\ req[r].op \in {"create", "offline"}
  /\ \A q \in Request :
       pc[q] \in {"cancelRead", "reviewLocked", "reviewAllowed", "checkinFound", "checkinLocked"}
         => Present(req[q].reg)
  /\ \A q \in checkIn \cup notified : pc[q] = "ok"

\* What an unlocked read has established about the target of a request, and no
\* later statement changes: its owner, its activity and who may manage that.
TargetInv ==
  \A q \in Request :
    /\ pc[q] = "cancelRead" => req[q].by \in Admin \/ req[q].by = req[req[q].reg].by
    /\ pc[q] = "reviewAllowed" => CanManage(req[q].by, req[req[q].reg].act)
    /\ pc[q] \in {"checkinFound", "checkinLocked"} => req[req[q].reg].act = req[q].act

\* While a signup holds the activity row, what it has read stays true.
CheckedInv ==
  \A q \in Request :
    /\ pc[q] \in {"createLocked", "createChecked"} =>
         /\ local[q].capacity = activity[req[q].act].capacity
         /\ activity[req[q].act].status = "published"
    /\ pc[q] = "createChecked" =>
         /\ local[q].capacity > 0 => Cardinality(OnlineCounted(req[q].act)) < local[q].capacity
         /\ \A r \in Request :
              Present(r) /\ req[r].op = "create" /\ req[r].act = req[q].act
                => req[r].by # req[q].by

\* The conjunction is inductive: it holds initially and every step keeps it.
Inductive ==
  /\ TypeOK /\ LockInv /\ RowInv /\ TargetInv /\ CheckedInv
  /\ OnlineWithinCapacity /\ OneSignupPerUser
  /\ OneCheckInPerRegistration /\ CheckInConsistent

(* Refinement.                                                             *)

Promise == INSTANCE SignupPromise

\* The handlers implement the atomic registration desk of SignupPromise: every
\* write is allowed by the tables as they are when it happens, although its
\* handler decided on what earlier statements read.
ImplementsPromise == Promise!Spec

-----------------------------------------------------------------------------
(* What the repository says and the handlers do not keep.                  *)

\* signup_guard.go:14-15: the guard, shared by online signup and offline
\* entry, never oversells.
NoOversell ==
  \A a \in Activity :
    activity[a].capacity > 0 => CountRegistered(a) <= activity[a].capacity

\* router_mainflow_test.go: a registration that is checked in cannot be
\* cancelled.
CheckedInNotCancelled ==
  [][\A r \in Request : registration[r].status = "checked_in"
                          => registration'[r].status # "cancelled"]_vars
=============================================================================
