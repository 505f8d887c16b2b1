------------------------------ MODULE Activities ------------------------------
(***************************************************************************)
(* The activities table and the organizers' operations on it               *)
(* (service/activity_service.go, repository/activity_repository.go).       *)
(*                                                                         *)
(* Update, Publish, End and Delete read the row without a lock, check and  *)
(* edit a copy, and write by a later statement: Save writes every column   *)
(* of the copy, and inserts the row again when it is gone.  The writing    *)
(* statement waits while a signup holds the row lock (module EventGo).     *)
(***************************************************************************)
EXTENDS Naturals

CONSTANTS
  Change,           \* the requests of organizers and admins in a behaviour
  Session,          \* sessions that may lock an activities row
  User, Admin,      \* accounts, and those with role admin
  Activity,         \* activity ids, those still to be assigned included
  OrganizerOf,      \* column organizer_id, which no operation changes
  InitialActivity,  \* the activities table when the behaviour starts
  ChangeWorkload,   \* the assignments of contents to Change considered
  Keep,             \* an update that leaves the capacity as it is
  Free              \* the holder of a row lock nobody holds

ActivityStatus == {"draft", "published", "ended"}
ActivityRow == [status : ActivityStatus \cup {"absent"}, capacity : Nat]

ChangeOp == {"create", "update", "publish", "end", "delete"}

\* status: of the activity a create request asks for; capacity: of a create
\* or update request.  The id of a created activity is in act.
ChangeContent == [op : ChangeOp, by : User, act : Activity,
                  status : ActivityStatus, capacity : Nat \cup {Keep}]

\* An id is assigned once, to the activity of the account that creates it.
ASSUME ActivitiesAssumption ==
  /\ Keep \notin Nat /\ Free \notin Session
  /\ Admin \subseteq User
  /\ OrganizerOf \in [Activity -> User]
  /\ InitialActivity \in [Activity -> ActivityRow]
  /\ ChangeWorkload \subseteq [Change -> ChangeContent]
  /\ \A w \in ChangeWorkload : \A c, d \in Change : w[c].op = "create" =>
       /\ InitialActivity[w[c].act].status = "absent"
       /\ OrganizerOf[w[c].act] = w[c].by
       /\ w[c].capacity \in Nat
       /\ w[d].op = "create" /\ w[d].act = w[c].act => d = c

VARIABLES
  change,       \* what each request asks for, fixed when the behaviour starts
  step,         \* how far the handler of each request has come
  copy,         \* the row a handler has read and edited
  activity,     \* table activities
  activityLock  \* exclusive lock on each activities row

changeVars == <<change, step, copy>>
vars == <<changeVars, activity, activityLock>>

Done == {"ok", "refused", "failed"}

TypeOK ==
  /\ change \in ChangeWorkload
  /\ step \in [Change -> {"start", "read"} \cup Done]
  /\ copy \in [Change -> ActivityRow]
  /\ activity \in [Activity -> ActivityRow]
  /\ activityLock \in [Activity -> Session \cup {Free}]

ChangeInit ==
  /\ change \in ChangeWorkload
  /\ step = [c \in Change |-> "start"]
  /\ copy = [c \in Change |-> [status |-> "absent", capacity |-> 0]]

Init ==
  /\ ChangeInit
  /\ activity = InitialActivity
  /\ activityLock = [a \in Activity |-> Free]

-----------------------------------------------------------------------------

Exists(a) == activity[a].status # "absent"

RequireManager(c) ==
  change[c].by \in Admin \/ change[c].by = OrganizerOf[change[c].act]

\* Mutant: Publish does not look at the status.
StatusAllowsPublish(c) ==
  change[c].op = "end" => activity[change[c].act].status = "published"

\* Publish takes a draft, End a published activity.
StatusAllows(c) ==
  LET now == activity[change[c].act].status IN
  /\ change[c].op = "publish" => now = "draft"
  /\ change[c].op = "end" => now = "published"

\* Mutant: only the operator is checked, not what was found.
AllowedUnchecked(c) == RequireManager(c)

\* Mutant: anybody may operate on an activity.
AllowedToAll(c) == Exists(change[c].act) /\ StatusAllows(c)

Allowed(c) == Exists(change[c].act) /\ RequireManager(c) /\ StatusAllows(c)

\* The status the handler gives its copy of a row with status old.
StatusAfter(op, old) ==
  IF op = "publish" THEN "published" ELSE IF op = "end" THEN "ended" ELSE old

\* Mutant: the row is built from the request, not from what was read.
EditedAnew(c, row) ==
  [status |-> StatusAfter(change[c].op, row.status),
   capacity |-> IF change[c].op = "update" /\ change[c].capacity # Keep
                THEN change[c].capacity ELSE 0]

\* The fields the handler sets in its copy of the row.
Edited(c, row) ==
  [status |-> StatusAfter(change[c].op, row.status),
   capacity |-> IF change[c].op = "update" /\ change[c].capacity # Keep
                THEN change[c].capacity ELSE row.capacity]

Move(c, label) == step' = [step EXCEPT ![c] = label]

\* Create: one insert, under an id no other row has had.
CreateActivity(c) ==
  /\ change[c].op = "create" /\ step[c] = "start"
  /\ activity' = [activity EXCEPT ![change[c].act] =
                    [status |-> change[c].status, capacity |-> change[c].capacity]]
  /\ Move(c, "ok")
  /\ UNCHANGED <<change, copy, activityLock>>

\* The unlocked read, the checks on the row, and the edit of the copy.
ReadRow(c) ==
  /\ change[c].op # "create" /\ step[c] = "start"
  /\ \/ /\ Allowed(c)
        /\ copy' = [copy EXCEPT ![c] = Edited(c, activity[change[c].act])]
        /\ Move(c, "read")
        /\ UNCHANGED <<change, activity, activityLock>>
     \/ /\ ~Allowed(c)
        /\ Move(c, "refused")
        /\ UNCHANGED <<change, copy, activity, activityLock>>

\* Save: UPDATE of every column, or INSERT when no row is left to update.
SaveRow(c) ==
  LET a == change[c].act IN
  /\ change[c].op \in {"update", "publish", "end"} /\ step[c] = "read"
  /\ activityLock[a] = Free
  /\ activity' = [activity EXCEPT ![a] = copy[c]]
  /\ Move(c, "ok")
  /\ UNCHANGED <<change, copy, activityLock>>

DeleteRow(c) ==
  LET a == change[c].act IN
  /\ change[c].op = "delete" /\ step[c] = "read"
  /\ activityLock[a] = Free
  /\ activity' = [activity EXCEPT ![a] = [status |-> "absent", capacity |-> 0]]
  /\ Move(c, "ok")
  /\ UNCHANGED <<change, copy, activityLock>>

\* A statement errs, a type or status of the request is invalid, or the process
\* stops, before the write: a create, too, may end with no row inserted.
FailChange(c) ==
  /\ step[c] \notin Done
  /\ Move(c, "failed")
  /\ UNCHANGED <<change, copy, activity, activityLock>>

HandleChange(c) == CreateActivity(c) \/ ReadRow(c) \/ SaveRow(c) \/ DeleteRow(c)

Finished == (\A c \in Change : step[c] \in Done) /\ UNCHANGED vars

Next == (\E c \in Change : HandleChange(c) \/ FailChange(c)) \/ Finished

Spec == Init /\ [][Next]_vars

-----------------------------------------------------------------------------
(* What holds although saves are stale.                                    *)

Accepted(c, op, a) == change[c].op = op /\ change[c].act = a /\ step[c] = "ok"

StatusAsked(a, op, status) ==
  \/ InitialActivity[a].status = status
  \/ \E c \in Change : \/ Accepted(c, op, a)
                       \/ Accepted(c, "create", a) /\ change[c].status = status

CapacityAsked(a, v) ==
  \/ InitialActivity[a].capacity = v
  \/ \E c \in Change : /\ Accepted(c, "create", a) \/ Accepted(c, "update", a)
                       /\ change[c].capacity = v

\* Every status and capacity a row shows is the initial one or one that an
\* accepted request asked for: no stale copy (activity_service.go:92,112,132)
\* publishes a draft, or ends an activity, that nobody published or ended.
RowOnRequest ==
  \A a \in Activity :
    /\ activity[a].status = "published" => StatusAsked(a, "publish", "published")
    /\ activity[a].status = "ended" => StatusAsked(a, "end", "ended")
    /\ Exists(a) => CapacityAsked(a, activity[a].capacity)

\* No handler is between its read of activity a and its write.
Quiet(a) == \A c \in Change : change[c].act = a => step[c] # "read"

\* Request c is still to insert activity a.
CreatePending(c, a) == change[c].op = "create" /\ change[c].act = a /\ step[c] = "start"

\* An ended activity can be opened again only by a handler that had read the
\* row before it ended: once those are through, it stays ended or is deleted.
EndSettles ==
  \A a \in Activity :
    [](Quiet(a) /\ activity[a].status = "ended" => [](activity[a].status \in {"ended", "absent"}))

\* Likewise a deleted activity comes back only by a handler that had read it.
DeleteSettles ==
  \A a \in Activity :
    [](/\ Quiet(a) /\ ~Exists(a)
       /\ \A c \in Change : ~CreatePending(c, a)
       => []~Exists(a))

-----------------------------------------------------------------------------
(* The inductive invariants behind them, proved in ActivitiesProofs.       *)

\* What the copy of a row that is about to be saved may say.
CopyInv ==
  \A c \in Change : step[c] = "read" =>
    LET a == change[c].act IN
    /\ change[c].op # "create"
    /\ copy[c].status = "published" =>
         change[c].op = "publish" \/ StatusAsked(a, "publish", "published")
    /\ copy[c].status = "ended" => change[c].op = "end" \/ StatusAsked(a, "end", "ended")
    /\ \/ CapacityAsked(a, copy[c].capacity)
       \/ change[c].op = "update" /\ change[c].capacity = copy[c].capacity

\* Nobody has read, and no row carries, an id that is still to be assigned.
FreshInv ==
  \A c \in Change, a \in Activity : CreatePending(c, a) => Quiet(a) /\ ~Exists(a)

Inductive == TypeOK /\ RowOnRequest /\ CopyInv /\ FreshInv

-----------------------------------------------------------------------------
(* What the repository says and the handlers do not keep.                  *)

\* activity_service_regression_test.go:37, "publish ended conflicts": an ended
\* activity is not published again.
EndedNotPublished ==
  [][\A a \in Activity : activity[a].status = "ended"
                            => activity'[a].status # "published"]_vars
=============================================================================
