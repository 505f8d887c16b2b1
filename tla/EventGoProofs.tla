----------------------------- MODULE EventGoProofs -----------------------------
(***************************************************************************)
(* Proofs about EventGo, for every set of accounts, activities and         *)
(* requests: what Signup promises next to organizers who save stale rows   *)
(* of the table its handlers decide on.                                    *)
(***************************************************************************)
EXTENDS EventGo, SignupProofs

(***************************************************************************)
(* The organizers' part.                                                   *)
(***************************************************************************)

DeskType ==
  /\ change \in ChangeWorkload
  /\ step \in [Change -> {"start", "read"} \cup Desk!Done]
  /\ copy \in [Change -> ActivityRow]

DeskInv == DeskType /\ Desk!FreshInv

LEMMA DeskInit == EventInit => DeskInv
<1> SUFFICES ASSUME EventInit PROVE DeskInv
  OBVIOUS
<1>1. /\ change \in ChangeWorkload /\ activity = InitialActivity
      /\ step = [c \in Change |-> "start"]
      /\ copy = [c \in Change |-> [status |-> "absent", capacity |-> 0]]
  BY DEF EventInit, Init, Desk!ChangeInit
<1>2. DeskType
  BY <1>1 DEF DeskType, ActivityRow, ActivityStatus
<1>3. Desk!FreshInv
  BY <1>1, EventAssumption DEF Desk!FreshInv, Desk!CreatePending, Desk!Quiet, Desk!Exists
<1> QED
  BY <1>2, <1>3 DEF DeskInv

LEMMA ContentType ==
  ASSUME DeskType, NEW c \in Change
  PROVE  /\ change[c].act \in Activity /\ change[c].status \in ActivityStatus
         /\ change[c].op = "create" => change[c].capacity \in Nat
         /\ change[c].capacity \in Nat \cup {Keep}
<1>1. change[c] \in Desk!ChangeContent
  BY EventAssumption DEF DeskType
<1>2. change[c].op = "create" => change[c].capacity \in Nat
  BY EventAssumption DEF DeskType
<1> QED
  BY <1>1, <1>2 DEF Desk!ChangeContent, Desk!ActivityStatus, ActivityStatus

\* What a statement of an organizer does: it edits a copy, or it writes the
\* row of one activity, which no signup has locked or which is new.
LEMMA OrganizeStep ==
  ASSUME TypeOK, DeskInv, NEW c \in Change, Desk!HandleChange(c) \/ Desk!FailChange(c)
  PROVE  /\ DeskType' /\ change' = change /\ activityLock' = activityLock
         /\ \A d \in Change \ {c} : step'[d] = step[d]
         /\ step'[c] # "start"
         /\ step'[c] = "read" => Desk!Exists(change[c].act)
         /\ \/ activity' = activity
            \/ /\ activity' \in [Activity -> ActivityRow]
               /\ \A b \in Activity \ {change[c].act} : activity'[b] = activity[b]
               /\ \/ activityLock[change[c].act] = Free /\ step[c] = "read"
                  \/ Desk!CreatePending(c, change[c].act)
<1> DEFINE a == change[c].act
<1>1. a \in Activity
  BY ContentType DEF DeskInv
<1>2. CASE Desk!CreateActivity(c)
  <2>1. [status |-> change[c].status, capacity |-> change[c].capacity] \in ActivityRow
    BY <1>2, ContentType DEF Desk!CreateActivity, DeskInv, ActivityRow
  <2> QED
    BY <1>1, <1>2, <2>1 DEF Desk!CreateActivity, Desk!Move, Desk!CreatePending, DeskInv, DeskType,
                            Desk!Done, TypeOK
<1>3. CASE Desk!ReadRow(c)
  <2>1. activity[a] \in ActivityRow
    BY <1>1 DEF TypeOK
  <2>2. Desk!Edited(c, activity[a]) \in ActivityRow
    BY <2>1, ContentType DEF Desk!Edited, Desk!StatusAfter, ActivityRow, ActivityStatus, DeskInv
  <2> QED
    BY <1>3, <2>2 DEF Desk!ReadRow, Desk!Allowed, Desk!Move, DeskInv, DeskType, Desk!Done
<1>4. CASE Desk!SaveRow(c)
  BY <1>1, <1>4 DEF Desk!SaveRow, Desk!Move, DeskInv, DeskType, Desk!Done, TypeOK
<1>5. CASE Desk!DeleteRow(c)
  <2>1. [status |-> "absent", capacity |-> 0] \in ActivityRow
    BY DEF ActivityRow, ActivityStatus
  <2> QED
    BY <1>1, <1>5, <2>1 DEF Desk!DeleteRow, Desk!Move, DeskInv, DeskType, Desk!Done, TypeOK
<1>6. CASE Desk!FailChange(c)
  BY <1>6 DEF Desk!FailChange, Desk!Move, DeskInv, DeskType, Desk!Done
<1> QED
  BY <1>2, <1>3, <1>4, <1>5, <1>6 DEF Desk!HandleChange

LEMMA OrganizeKeepsDesk ==
  ASSUME TypeOK, DeskInv, NEW c \in Change, Desk!HandleChange(c) \/ Desk!FailChange(c)
  PROVE  DeskInv'
<1>1. ASSUME NEW d \in Change, NEW a \in Activity, Desk!CreatePending(d, a)'
      PROVE  (Desk!Quiet(a) /\ ~Desk!Exists(a))'
  <2>1. d # c /\ Desk!CreatePending(d, a)
    BY <1>1, OrganizeStep DEF Desk!CreatePending
  <2>2. Desk!Quiet(a) /\ ~Desk!Exists(a)
    BY <2>1 DEF DeskInv, Desk!FreshInv
  <2>3. Desk!Quiet(a)'
    BY <2>2, OrganizeStep DEF Desk!Quiet
  <2>4. activity'[a] = activity[a]
    <3>1. CASE change[c].act = a
      <4>1. step[c] # "read"
        BY <2>2, <3>1 DEF Desk!Quiet
      <4>2. ~Desk!CreatePending(c, a)
        BY <2>1, EventAssumption DEF Desk!CreatePending, DeskInv, DeskType
      <4> QED
        BY <3>1, <4>1, <4>2, OrganizeStep
    <3> QED
      BY <3>1, OrganizeStep
  <2> QED
    BY <2>2, <2>3, <2>4 DEF Desk!Exists
<1> QED
  BY <1>1, OrganizeStep DEF DeskInv, Desk!FreshInv

\* The handlers of Signup do not touch the organizers' rows or copies.
LEMMA ParticipateKeepsDesk ==
  ASSUME DeskInv, [Next]_vars, UNCHANGED deskVars
  PROVE  DeskInv'
<1>1. activity' = activity
  BY StepKinds, WriteEffect DEF tables
<1> QED
  BY <1>1 DEF DeskInv, DeskType, deskVars, Desk!FreshInv, Desk!CreatePending, Desk!Quiet,
              Desk!Exists

(***************************************************************************)
(* The composition.                                                        *)
(***************************************************************************)

\* Nobody has signed up under an id that is still to be assigned.
UnsignedInv ==
  \A c \in Change, q \in Request :
    Present(q) /\ req[q].op = "create" => ~Desk!CreatePending(c, req[q].act)

\* What Signup alone keeps, without the quota, which an organizer who lowers
\* the capacity may break.
SharedInv ==
  /\ BaseInv /\ TargetInv /\ CheckedInv /\ OneSignupPerUser /\ CheckInInv
  /\ DeskInv /\ UnsignedInv

LEMMA SharedInit == EventInit => SharedInv
<1>1. EventInit => UnsignedInv
  BY DEF EventInit, Init, UnsignedInv, Present
<1> QED
  BY <1>1, DeskInit, InitType, InitLockInv, InitRowInv, InitTargetInv, InitCheckInInv, InitSignupInv
     DEF EventInit, SharedInv, BaseInv, SignupInv

\* The row of a participant's signup is not that of a new activity.
LEMMA ParticipateKeepsUnsigned ==
  ASSUME SharedInv, [Next]_vars, UNCHANGED deskVars
  PROVE  UnsignedInv'
<1>1. req' = req
  BY StepKinds, WriteEffect DEF tables
<1> SUFFICES ASSUME NEW c \in Change, NEW q \in Request,
                    registration'[q].status # "absent", req[q].op = "create"
             PROVE  ~Desk!CreatePending(c, req[q].act)
  BY <1>1 DEF UnsignedInv, Present, deskVars, Desk!CreatePending
<1>2. CASE Present(q)
  BY <1>2 DEF SharedInv, UnsignedInv
<1>3. CASE ~Present(q)
  <2>1. PICK p \in Request : WriteStep(p)
    BY <1>3, StepKinds DEF tables, Present
  <2>2. pc[q] = "createChecked"
    BY <1>3, <2>1, OnlineRows DEF SharedInv, BaseInv, SignUpStep, CreateCommit, At
  <2>3. activity[req[q].act].status = "published" /\ req[q].act \in Activity
    BY <2>2, RequestFields DEF SharedInv, BaseInv, TypeOK, CheckedInv
  <2> QED
    BY <2>3 DEF SharedInv, DeskInv, Desk!FreshInv, Desk!Exists
<1> QED
  BY <1>2, <1>3

LEMMA ParticipateKeepsShared ==
  ASSUME SharedInv, [Next]_vars, UNCHANGED deskVars
  PROVE  SharedInv'
<1>1. BaseInv' /\ TargetInv'
  BY TypeStep, LockStep, RowStep, TargetStep DEF SharedInv, BaseInv
<1>2. CheckedInv' /\ OneSignupPerUser' /\ CheckInInv'
  BY CheckedInvStep, OneSignupStep, CheckInInvStep DEF SharedInv, BaseInv
<1>3. DeskInv' /\ UnsignedInv'
  BY ParticipateKeepsDesk, ParticipateKeepsUnsigned DEF SharedInv
<1> QED
  BY <1>1, <1>2, <1>3 DEF SharedInv

\* An organizer writes no row that a signup has locked, so what that has read
\* is still true when it commits.
LEMMA OrganizeKeepsShared ==
  ASSUME SharedInv, Organize
  PROVE  SharedInv'
<1> USE DEF SharedInv, BaseInv
<1>1. PICK c \in Change : Desk!HandleChange(c) \/ Desk!FailChange(c)
  BY DEF Organize
<1>2. UNCHANGED ownVars /\ activityLock' = activityLock
  BY <1>1, OrganizeStep DEF Organize
<1>3. activity' \in [Activity -> ActivityRow]
  BY <1>1, OrganizeStep DEF TypeOK
<1>4. TypeOK' /\ LockInv' /\ RowInv' /\ TargetInv'
  BY <1>2, <1>3 DEF ownVars, TypeOK, LockInv, RowInv, TargetInv, CanManage, Present
<1>5. ASSUME NEW q \in Request, pc[q] \in {"createLocked", "createChecked"}
      PROVE  activity'[req[q].act] = activity[req[q].act]
  <2>1. req[q].act \in Activity
    BY RequestFields DEF TypeOK
  <2>2. activityLock[req[q].act] = q /\ q # Free
    BY <1>5, <2>1, SignupAssumption DEF LockInv
  <2>3. activity[req[q].act].status = "published"
    BY <1>5 DEF CheckedInv
  <2>4. ~Desk!CreatePending(c, req[q].act)
    BY <2>1, <2>3 DEF DeskInv, Desk!FreshInv, Desk!Exists
  <2> QED
    BY <1>1, <2>1, <2>2, <2>4, OrganizeStep
<1>6. CheckedInv'
  <2>1. \A q \in Request : OnlineCounted(req[q].act)' = OnlineCounted(req[q].act)
    BY <1>2 DEF ownVars, OnlineCounted, Counts
  <2> QED
    BY <1>2, <1>5, <2>1 DEF ownVars, CheckedInv, Present
<1>7. OneSignupPerUser' /\ CheckInInv'
  BY <1>2 DEF ownVars, OneSignupPerUser, CheckInInv, OneCheckInPerRegistration,
              CheckInConsistent, Present
<1>8. DeskInv'
  BY <1>1, OrganizeKeepsDesk
<1>9. UnsignedInv'
  BY <1>1, <1>2, OrganizeStep DEF ownVars, UnsignedInv, Present, Desk!CreatePending
<1> QED
  BY <1>4, <1>6, <1>7, <1>8, <1>9

\* A step is one of participants, of an organizer, or changes nothing.
LEMMA EventSteps ==
  ASSUME [EventNext]_allVars
  PROVE  ([Next]_vars /\ UNCHANGED deskVars) \/ Organize
BY DEF EventNext, Participate, AllFinished, allVars, Next

LEMMA SharedStep == SharedInv /\ [EventNext]_allVars => SharedInv'
BY EventSteps, ParticipateKeepsShared, OrganizeKeepsShared

LEMMA SharedCorrect == EventSpec => []SharedInv
BY SharedInit, SharedStep, PTL DEF EventSpec

\* Whatever organizers end, edit or delete meanwhile, no registration has two
\* check-in records, and records, attendance list and signups agree.
THEOREM AttendanceSurvives == EventSpec => []AttendanceKept
<1>1. SharedInv => AttendanceKept
  BY DEF SharedInv, CheckInInv, AttendanceKept
<1> QED
  BY <1>1, SharedCorrect, PTL

\* Every write of a participant is a step of the atomic desk of SignupPromise,
\* and an organizer changes nothing but the activity he names.
THEOREM PromiseKeptForAll == EventSpec => PromiseKept
<1>1. ASSUME SharedInv, [Next]_vars, UNCHANGED deskVars
      PROVE  Promise!Next \/ UNCHANGED (Promise!vars)
  BY <1>1, StepKinds, WriteRefines DEF SharedInv, BaseInv, tables, Promise!vars
<1>2. ASSUME SharedInv, Organize
      PROVE  OrganizerEdits
  <2>1. PICK c \in Change : Desk!HandleChange(c) \/ Desk!FailChange(c)
    BY <1>2 DEF Organize
  <2>2. \A b \in Activity : b # change[c].act => activity'[b] = activity[b]
    BY <1>2, <2>1, OrganizeStep DEF SharedInv, BaseInv
  <2> QED
    BY <1>2, <2>2 DEF Organize, ownVars, OrganizerEdits
<1>3. SharedInv /\ [EventNext]_allVars => [Promise!Next \/ OrganizerEdits]_(Promise!vars)
  BY <1>1, <1>2, EventSteps
<1> QED
  BY <1>3, SharedCorrect, PTL DEF EventSpec, PromiseKept

\* A signup is committed only while its activity is published and has room
\* under the capacity it has at that moment, stale saves of organizers or not.
THEOREM OnlyWithRoomAdmitted == EventSpec => AdmitsOnlyWithRoom
<1>1. ASSUME SharedInv, [EventNext]_allVars,
             NEW q \in Request, ~Present(q), Present(q)', req[q].op = "create"
      PROVE  Promise!SignUp(q)
  <2>1. ~Organize
    BY <1>1 DEF Organize, ownVars, Present
  <2>2. [Next]_vars
    BY <1>1, <2>1, EventSteps
  <2>3. registration'[q].status # "absent"
    BY <1>1 DEF Present
  <2>4. PICK p \in Request : WriteStep(p)
    BY <1>1, <2>2, StepKinds DEF tables, Present
  <2>5. q = p /\ SignUpStep(p)
    BY <1>1, <2>3, <2>4, OnlineRows DEF SharedInv, BaseInv
  <2> QED
    BY <1>1, <2>5, SignUpRefines DEF SharedInv, BaseInv
<1>2. SharedInv /\ [EventNext]_allVars =>
        [\A q \in Request : ~Present(q) /\ Present(q)' /\ req[q].op = "create"
                              => Promise!SignUp(q)]_allVars
  BY <1>1
<1> QED
  BY <1>2, SharedCorrect, PTL DEF EventSpec, AdmitsOnlyWithRoom

(***************************************************************************)
(* The quota next to organizers.                                           *)
(***************************************************************************)

\* An organizer breaks the quota of an activity only by a save with a lower
\* capacity: a deleted activity has none, and a new one has no registrations.
LEMMA OrganizeLowers ==
  ASSUME SharedInv, Organize, NEW a \in Activity, WithinCapacity(a), ~WithinCapacity(a)'
  PROVE  LowersCapacity(a) /\ \E c \in Change : Desk!SaveRow(c) /\ change[c].act = a
<1>1. PICK c \in Change : Desk!HandleChange(c) \/ Desk!FailChange(c)
  BY DEF Organize
<1>2. /\ OnlineCounted(a)' = OnlineCounted(a) /\ Cardinality(OnlineCounted(a)) \in Nat
      /\ activity[a] \in ActivityRow /\ activity'[a] \in ActivityRow
  BY <1>1, OnlineCountedFinite, OrganizeStep
     DEF Organize, ownVars, OnlineCounted, Counts, SharedInv, BaseInv, TypeOK
<1>3. /\ activity'[a].capacity > 0 /\ activity'[a].capacity < Cardinality(OnlineCounted(a))
      /\ activity[a].capacity \in Nat /\ activity'[a].capacity \in Nat
      /\ activity[a].capacity > 0 => Cardinality(OnlineCounted(a)) <= activity[a].capacity
  BY <1>2 DEF WithinCapacity, ActivityRow
<1>4. LowersCapacity(a)
  BY <1>2, <1>3 DEF LowersCapacity
<1>5. activity' # activity /\ change[c].act = a
  BY <1>1, <1>2, <1>3, OrganizeStep DEF SharedInv, BaseInv
<1>6. ~Desk!DeleteRow(c)
  BY <1>3, <1>5 DEF Desk!DeleteRow, SharedInv, BaseInv, TypeOK
<1>7. ~Desk!CreateActivity(c)
  <2>1. SUFFICES ASSUME Desk!CreateActivity(c) PROVE FALSE
    OBVIOUS
  <2>2. Desk!CreatePending(c, a)
    BY <1>5, <2>1 DEF Desk!CreateActivity, Desk!CreatePending
  <2>3. OnlineCounted(a) = {}
    BY <2>2 DEF SharedInv, UnsignedInv, OnlineCounted, Counts, Present
  <2> QED
    BY <1>3, <2>3, FS_EmptySet
<1> QED
  BY <1>1, <1>4, <1>5, <1>6, <1>7 DEF Desk!HandleChange, Desk!ReadRow, Desk!FailChange

\* Online registrations outgrow the capacity of their activity in one way only:
\* an organizer lowers it.  No signup, stale decision or check-in does it.
THEOREM OnlyEditsBreakQuota == EventSpec => QuotaLostOnlyByEdit
<1> DEFINE ByEdit == \A a \in Activity : WithinCapacity(a) /\ ~WithinCapacity(a)' =>
             LowersCapacity(a) /\ \E c \in Change : Desk!SaveRow(c) /\ change[c].act = a
<1>1. ASSUME SharedInv, [EventNext]_allVars, NEW a \in Activity,
             WithinCapacity(a), ~WithinCapacity(a)'
      PROVE  LowersCapacity(a) /\ \E c \in Change : Desk!SaveRow(c) /\ change[c].act = a
  <2>1. ~([Next]_vars /\ UNCHANGED deskVars)
    BY <1>1, CapacityStep DEF SharedInv
  <2> QED
    BY <1>1, <2>1, EventSteps, OrganizeLowers
<1>2. SharedInv /\ [EventNext]_allVars => [ByEdit]_allVars
  BY <1>1
<1> HIDE DEF ByEdit
<1>3. EventSpec => [][ByEdit]_allVars
  BY <1>2, SharedCorrect, PTL DEF EventSpec
<1> QED
  BY <1>3 DEF QuotaLostOnlyByEdit, ByEdit

(***************************************************************************)
(* Waiting.                                                                *)
(***************************************************************************)

\* The sections in which a handler holds a row lock contain no statement that
\* waits for one, so the waiting of requests is never circular.
THEOREM NoCircularWait == EventSpec => []NobodyWaitsTwice
<1>1. SharedInv => NobodyWaitsTwice
  <2> SUFFICES ASSUME SharedInv, NEW q \in Request,
                      \/ \E p \in Request : WaitsFor(p, q)
                      \/ \E c \in Change : SaveWaitsFor(c, q)
               PROVE  pc[q] \in InFlight /\ \A r \in Request : ~WaitsFor(q, r)
    BY DEF NobodyWaitsTwice
  <2>1. \/ \E a \in Activity : activityLock[a] = q
        \/ \E r \in Request : regLock[r] = q
    <3>1. \A p \in Request : req[p].act \in Activity /\ req[p].reg \in Request
      BY RequestFields DEF SharedInv, BaseInv, TypeOK
    <3>2. \A c \in Change : change[c].act \in Activity
      BY ContentType DEF SharedInv, DeskInv
    <3> QED
      BY <3>1, <3>2 DEF WaitsFor, SaveWaitsFor
  <2>2. pc[q] \in {"createLocked", "createChecked", "reviewLocked", "reviewAllowed", "checkinLocked"}
    BY <2>1 DEF SharedInv, BaseInv, LockInv
  <2> QED
    BY <2>2 DEF InFlight, WaitsFor, At
<1> QED
  BY <1>1, SharedCorrect, PTL

\* No request that was answered leaves a row locked on which organizers and
\* other participants would wait.
THEOREM NoLockLeaksToOrganizers == EventSpec => []NoLeakedLock
<1>1. SharedInv => NoLeakedLock
  BY DEF SharedInv, BaseInv, TypeOK, LockInv, NoLeakedLock, InFlight
<1> QED
  BY <1>1, SharedCorrect, PTL

(***************************************************************************)
(* Released places.                                                        *)
(***************************************************************************)

LEMMA OrganizeKeepsRegistrations ==
  ASSUME Organize
  PROVE  UNCHANGED <<req, registration>>
BY DEF Organize, ownVars

\* A registration that was cancelled or rejected never takes a place again,
\* whatever becomes of its activity.
THEOREM PlaceStaysReleased == EventSpec => PlaceReleasedForGood
<1>1. SharedInv /\ [EventNext]_allVars =>
        [\A r \in Request : Present(r) /\ ~Counts(r) => ~Counts(r)']_vars
  BY EventSteps, ReleasedStep, OrganizeKeepsRegistrations DEF SharedInv, BaseInv, Counts
<1> QED
  BY <1>1, SharedCorrect, PTL DEF EventSpec, PlaceReleasedForGood

\* A cancellation is final next to organizers, too.
THEOREM CancellationStaysFinal == EventSpec => CancelledForGood
<1>1. SharedInv /\ [EventNext]_allVars =>
        [\A r \in Request : registration[r].status = "cancelled"
                              => registration'[r].status = "cancelled"]_vars
  BY EventSteps, CancelledStep, OrganizeKeepsRegistrations DEF SharedInv, BaseInv
<1> QED
  BY <1>1, SharedCorrect, PTL DEF EventSpec, CancelledForGood

(***************************************************************************)
(* The organizers' part by itself.                                         *)
(***************************************************************************)

\* A statement of an organizer is one of Activities, where no lock is held.
LEMMA OrganizeUndisturbed ==
  ASSUME DeskInv, NEW c \in Change, Desk!HandleChange(c) \/ Desk!FailChange(c)
  PROVE  Undisturbed!HandleChange(c) \/ Undisturbed!FailChange(c)
<1>1. [a \in Activity |-> Free][change[c].act] = Free
  BY ContentType DEF DeskInv
<1>2. ASSUME Desk!CreateActivity(c) PROVE Undisturbed!CreateActivity(c)
  BY <1>2 DEF Desk!CreateActivity, Undisturbed!CreateActivity, Desk!Move, Undisturbed!Move
<1>3. ASSUME Desk!ReadRow(c) PROVE Undisturbed!ReadRow(c)
  BY <1>3 DEF Desk!ReadRow, Undisturbed!ReadRow, Desk!Move, Undisturbed!Move,
              Desk!Allowed, Undisturbed!Allowed, Desk!Exists, Undisturbed!Exists,
              Desk!RequireManager, Undisturbed!RequireManager, Desk!StatusAllows,
              Undisturbed!StatusAllows, Desk!Edited, Undisturbed!Edited,
              Desk!StatusAfter, Undisturbed!StatusAfter
<1>4. ASSUME Desk!SaveRow(c) PROVE Undisturbed!SaveRow(c)
  BY <1>1, <1>4 DEF Desk!SaveRow, Undisturbed!SaveRow, Desk!Move, Undisturbed!Move
<1>5. ASSUME Desk!DeleteRow(c) PROVE Undisturbed!DeleteRow(c)
  BY <1>1, <1>5 DEF Desk!DeleteRow, Undisturbed!DeleteRow, Desk!Move, Undisturbed!Move
<1>6. ASSUME Desk!FailChange(c) PROVE Undisturbed!FailChange(c)
  BY <1>6 DEF Desk!FailChange, Undisturbed!FailChange, Desk!Move, Undisturbed!Move,
              Desk!Done, Undisturbed!Done
<1> QED
  BY <1>2, <1>3, <1>4, <1>5, <1>6 DEF Desk!HandleChange, Undisturbed!HandleChange

\* Participants are invisible to organizers: they delay a save, never forge one.
THEOREM OrganizersUndisturbed == EventSpec => ImplementsActivities
<1>1. EventInit => Undisturbed!Init
  BY DEF EventInit, Init, Desk!ChangeInit, Undisturbed!Init, Undisturbed!ChangeInit
<1>2. ASSUME SharedInv, [Next]_vars, UNCHANGED deskVars
      PROVE  UNCHANGED (Undisturbed!vars)
  <2>1. activity' = activity
    BY <1>2, StepKinds, WriteEffect DEF tables
  <2> QED
    BY <1>2, <2>1 DEF deskVars, Undisturbed!vars, Undisturbed!changeVars
<1>3. ASSUME SharedInv, Organize
      PROVE  Undisturbed!Next
  BY <1>3, OrganizeUndisturbed DEF Organize, SharedInv, Undisturbed!Next
<1>4. SharedInv /\ [EventNext]_allVars => [Undisturbed!Next]_(Undisturbed!vars)
  BY <1>2, <1>3, EventSteps
<1> QED
  BY <1>1, <1>4, SharedCorrect, PTL DEF EventSpec, ImplementsActivities, Undisturbed!Spec

\* The theorems of ActivitiesProofs, for organizers whom no lock delays.  Those
\* about the versions of a row are not used, so versions may stand for anything.
Alone == INSTANCE ActivitiesProofs
  WITH Session <- Request, activityLock <- [a \in Activity |-> Free], versions <- activity

\* What ActivitiesProofs assumes of the constants.
LEMMA AloneAssumption ==
  /\ Keep \notin Nat /\ Free \notin Request /\ Admin \subseteq User
  /\ OrganizerOf \in [Activity -> User]
  /\ InitialActivity \in [Activity -> Alone!ActivityRow]
  /\ ChangeWorkload \subseteq [Change -> Alone!ChangeContent]
  /\ \A w \in ChangeWorkload : \A c, d \in Change : w[c].op = "create" =>
       /\ InitialActivity[w[c].act].status = "absent"
       /\ OrganizerOf[w[c].act] = w[c].by
       /\ w[c].capacity \in Nat
       /\ w[d].op = "create" /\ w[d].act = w[c].act => d = c
<1>1. Alone!ActivityRow = ActivityRow
  BY DEF Alone!ActivityRow, ActivityRow, Alone!ActivityStatus, ActivityStatus
<1>2. Alone!ChangeContent = Desk!ChangeContent
  BY DEF Alone!ChangeContent, Desk!ChangeContent, Alone!ChangeOp, Desk!ChangeOp,
         Alone!ActivityStatus, Desk!ActivityStatus
<1> QED
  BY <1>1, <1>2, SignupAssumption, EventAssumption

\* Both instances of Activities define the same specification.
LEMMA AloneSpec == EventSpec => Alone!Spec
<1>1. Undisturbed!Init => Alone!Init
  BY DEF Undisturbed!Init, Alone!Init, Undisturbed!ChangeInit, Alone!ChangeInit
<1>2. ASSUME NEW c \in Change, Undisturbed!HandleChange(c) \/ Undisturbed!FailChange(c)
      PROVE  Alone!HandleChange(c) \/ Alone!FailChange(c)
  BY <1>2 DEF Undisturbed!HandleChange, Alone!HandleChange, Undisturbed!CreateActivity,
       Alone!CreateActivity, Undisturbed!ReadRow, Alone!ReadRow, Undisturbed!SaveRow,
       Alone!SaveRow, Undisturbed!DeleteRow, Alone!DeleteRow, Undisturbed!FailChange,
       Alone!FailChange, Undisturbed!Done, Alone!Done, Undisturbed!Move, Alone!Move, Undisturbed!Allowed, Alone!Allowed,
       Undisturbed!Exists, Alone!Exists, Undisturbed!RequireManager, Alone!RequireManager,
       Undisturbed!StatusAllows, Alone!StatusAllows, Undisturbed!Edited, Alone!Edited,
       Undisturbed!StatusAfter, Alone!StatusAfter
<1>3. [Undisturbed!Next]_(Undisturbed!vars) => [Alone!Next]_(Alone!vars)
  BY <1>2 DEF Undisturbed!Next, Alone!Next, Undisturbed!Finished, Alone!Finished,
       Undisturbed!vars, Alone!vars, Undisturbed!changeVars, Alone!changeVars
<1> QED
  BY <1>1, <1>3, OrganizersUndisturbed, PTL
     DEF ImplementsActivities, Undisturbed!Spec, Alone!Spec

\* While signups lock and release the rows that organizers save stale copies of,
\* a row still shows only what an accepted request of an organizer asked for.
THEOREM RowsStayOnRequest == EventSpec => []Desk!RowOnRequest
<1>1. Alone!Spec => []Alone!RowOnRequest
  BY AloneAssumption, Alone!RowsOnRequest
<1>2. Alone!RowOnRequest => Desk!RowOnRequest
  BY DEF Alone!RowOnRequest, Desk!RowOnRequest, Alone!StatusAsked, Desk!StatusAsked,
         Alone!CapacityAsked, Desk!CapacityAsked, Alone!Accepted, Desk!Accepted,
         Alone!Exists, Desk!Exists
<1> QED
  BY <1>1, <1>2, AloneSpec, PTL

\* However long signups delay the saves, once those that read the activity before
\* it ended are through it is never open for signup again.
THEOREM EndStaysSettled == EventSpec => Desk!EndSettles
<1>1. Alone!Spec => Alone!EndSettles
  BY AloneAssumption, Alone!EndedForGood
<1>2. Alone!EndSettles => Desk!EndSettles
  BY DEF Alone!EndSettles, Desk!EndSettles, Alone!Quiet, Desk!Quiet
<1> QED
  BY <1>1, <1>2, AloneSpec, PTL

\* Likewise a deleted activity never comes back for participants to sign up.
THEOREM DeleteStaysSettled == EventSpec => Desk!DeleteSettles
<1>1. Alone!Spec => Alone!DeleteSettles
  BY AloneAssumption, Alone!DeletedForGood
<1>2. Alone!DeleteSettles => Desk!DeleteSettles
  BY DEF Alone!DeleteSettles, Desk!DeleteSettles, Alone!Quiet, Desk!Quiet, Alone!Exists,
         Desk!Exists, Alone!CreatePending, Desk!CreatePending
<1> QED
  BY <1>1, <1>2, AloneSpec, PTL
=============================================================================
