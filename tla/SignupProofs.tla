----------------------------- MODULE SignupProofs -----------------------------
(***************************************************************************)
(* Proofs about Signup, for every set of requests, accounts, activities,   *)
(* initial table of activities and workload, in both schemas.              *)
(***************************************************************************)
EXTENDS Signup, FiniteSetTheorems, TLAPS

(***************************************************************************)
(* Type correctness.                                                       *)
(***************************************************************************)

\* A workload assigns well-formed contents, so the fields of a request have
\* the types of RequestContent.
LEMMA RequestFields ==
  ASSUME req \in Workload, NEW q \in Request
  PROVE  /\ req[q] \in RequestContent
         /\ req[q].op \in Op /\ req[q].by \in User /\ req[q].act \in Activity
         /\ req[q].reg \in Request /\ req[q].decision \in {"approved", "rejected"}
<1>1. req \in [Request -> RequestContent]
  BY SignupAssumption
<1>2. req[q] \in RequestContent
  BY <1>1
<1>. QED
  BY <1>2 DEF RequestContent

\* Releasing the locks of a session leaves well-typed lock tables.
LEMMA UnlockType ==
  ASSUME TypeOK, NEW q \in Request, Unlock(q)
  PROVE  /\ activityLock' \in [Activity -> Request \cup {Free}]
         /\ regLock' \in [Request -> Request \cup {Free}]
BY DEF TypeOK, Unlock

\* An early return keeps the types.
LEMMA RefuseType ==
  ASSUME TypeOK, NEW q \in Request, Refuse(q)
  PROVE  TypeOK'
<1>1. pc' \in [Request -> {"start"} \cup InFlight \cup Answered]
  BY DEF TypeOK, Refuse, Answer, Goto, Answered
<1>. QED
  BY <1>1, UnlockType DEF TypeOK, Refuse, Answer, tables

LEMMA InitType == Init => TypeOK
BY SignupAssumption DEF Init, TypeOK, RegistrationRow, RegistrationStatus, ReviewStatus

LEMMA TypeStep ==
  ASSUME TypeOK, [Next]_vars
  PROVE  TypeOK'
<1>. USE DEF TypeOK, InFlight, Answered
<1>1. ASSUME NEW q \in Request, CreateLock(q)
      PROVE  TypeOK'
  <2>1. CASE Refuse(q)
    BY <2>1, RefuseType
  <2>2. CASE ~Refuse(q)
    <3>1. req[q].act \in Activity
      BY RequestFields
    <3>2. activity[req[q].act].capacity \in Nat
      BY <3>1 DEF ActivityRow
    <3>3. /\ activityLock' = [activityLock EXCEPT ![req[q].act] = q]
          /\ local' = [local EXCEPT ![q].capacity = activity[req[q].act].capacity]
          /\ pc' = [pc EXCEPT ![q] = "createLocked"]
          /\ UNCHANGED <<req, activity, registration, checkIn, notified, expired, regLock>>
      BY <1>1, <2>2 DEF CreateLock, Goto, tables
    <3>4. activityLock' \in [Activity -> Request \cup {Free}]
      BY <3>1, <3>3
    <3>5. local' \in [Request -> [capacity : Nat, review : ReviewStatus]]
      BY <3>2, <3>3
    <3>. QED
      BY <3>3, <3>4, <3>5
  <2>. QED
    BY <2>1, <2>2
<1>2. ASSUME NEW q \in Request, CreateCheck(q)
      PROVE  TypeOK'
  <2>1. CASE Refuse(q)
    BY <2>1, RefuseType
  <2>2. CASE ~Refuse(q)
    BY <1>2, <2>2 DEF CreateCheck, Goto, tables, locks
  <2>. QED
    BY <2>1, <2>2
<1>3. ASSUME NEW q \in Request, CreateCommit(q)
      PROVE  TypeOK'
  <2>1. registration' \in [Request -> RegistrationRow]
    BY <1>3 DEF CreateCommit, Insert, tables, RegistrationRow, RegistrationStatus, ReviewStatus
  <2>. QED
    BY <1>3, <2>1, UnlockType DEF CreateCommit, Answer, Goto, tables
<1>4. ASSUME NEW q \in Request, OfflineRead(q)
      PROVE  TypeOK'
  <2>1. CASE Refuse(q)
    BY <2>1, RefuseType
  <2>2. CASE ~Refuse(q)
    <3>1. activity[req[q].act].capacity \in Nat
      BY RequestFields DEF ActivityRow
    <3>2. /\ local' = [local EXCEPT ![q].capacity = activity[req[q].act].capacity]
          /\ pc' = [pc EXCEPT ![q] = "offlineRead"]
          /\ UNCHANGED <<req, activity, registration, checkIn, notified, expired,
                         activityLock, regLock>>
      BY <1>4, <2>2 DEF OfflineRead, Goto, tables, locks
    <3>3. local' \in [Request -> [capacity : Nat, review : ReviewStatus]]
      BY <3>1, <3>2
    <3>. QED
      BY <3>2, <3>3
  <2>. QED
    BY <2>1, <2>2
<1>5. ASSUME NEW q \in Request, OfflineCount(q)
      PROVE  TypeOK'
  <2>1. CASE Refuse(q)
    BY <2>1, RefuseType
  <2>2. CASE ~Refuse(q)
    <3>1. /\ pc' = [pc EXCEPT ![q] = "offlineCounted"]
          /\ UNCHANGED <<req, local, activity, registration, checkIn, notified, expired,
                         activityLock, regLock>>
      BY <1>5, <2>2 DEF OfflineCount, Goto, tables, locks
    <3>. QED
      BY <3>1
  <2>. QED
    BY <2>1, <2>2
<1>6. ASSUME NEW q \in Request, OfflineInsert(q)
      PROVE  TypeOK'
  <2>1. registration' \in [Request -> RegistrationRow]
    <3> DEFINE row == [status |-> "registered", review |-> "approved"]
    <3>1. row \in RegistrationRow
      BY DEF RegistrationRow, RegistrationStatus, ReviewStatus
    <3>2. registration' = registration \/ registration' = [registration EXCEPT ![q] = row]
      BY <1>6 DEF OfflineInsert, Insert, tables
    <3> HIDE DEF row
    <3>. QED
      BY <3>1, <3>2
  <2>2. /\ pc' = [pc EXCEPT ![q] = "ok"] \/ pc' = [pc EXCEPT ![q] = "failed"]
        /\ UNCHANGED <<req, activity, checkIn, notified, local, expired, activityLock, regLock>>
    BY <1>6 DEF OfflineInsert, Answer, Goto, tables, locks
  <2>3. pc' \in [Request -> {"start"} \cup InFlight \cup Answered]
    BY <2>2
  <2>. QED
    BY <2>1, <2>2, <2>3
<1>7. ASSUME NEW q \in Request, CancelRead(q)
      PROVE  TypeOK'
  <2>1. CASE Refuse(q)
    BY <2>1, RefuseType
  <2>2. CASE ~Refuse(q)
    <3>1. registration[req[q].reg].review \in ReviewStatus
      BY RequestFields DEF RegistrationRow
    <3>2. /\ local' = [local EXCEPT ![q].review = registration[req[q].reg].review]
          /\ pc' = [pc EXCEPT ![q] = "cancelRead"]
          /\ UNCHANGED <<req, activity, registration, checkIn, notified, expired,
                         activityLock, regLock>>
      BY <1>7, <2>2 DEF CancelRead, Goto, tables, locks
    <3>3. local' \in [Request -> [capacity : Nat, review : ReviewStatus]]
      BY <3>1, <3>2
    <3>. QED
      BY <3>2, <3>3
  <2>. QED
    BY <2>1, <2>2
<1>8. ASSUME NEW q \in Request, CancelSave(q)
      PROVE  TypeOK'
  <2>1. registration' \in [Request -> RegistrationRow]
    BY <1>8 DEF CancelSave, RegistrationRow, RegistrationStatus
  <2>. QED
    BY <1>8, <2>1 DEF CancelSave, Answer, Goto, locks
<1>9. ASSUME NEW q \in Request, ReviewLock(q)
      PROVE  TypeOK'
  <2>1. CASE Refuse(q)
    BY <2>1, RefuseType
  <2>2. CASE ~Refuse(q)
    <3>1. /\ regLock' = [regLock EXCEPT ![req[q].reg] = q]
          /\ pc' = [pc EXCEPT ![q] = "reviewLocked"]
          /\ UNCHANGED <<req, local, activity, registration, checkIn, notified, expired,
                         activityLock>>
      BY <1>9, <2>2 DEF ReviewLock, Goto, tables
    <3>. QED
      BY <3>1, RequestFields
  <2>. QED
    BY <2>1, <2>2
<1>10. ASSUME NEW q \in Request, ReviewCommit(q)
       PROVE  TypeOK'
  <2>1. CASE Refuse(q)
    BY <2>1, RefuseType
  <2>2. CASE ~Refuse(q)
    <3>1. req[q].decision \in ReviewStatus
      BY RequestFields DEF ReviewStatus
    <3>2. registration' = [registration EXCEPT ![req[q].reg].review = req[q].decision]
      BY <1>10, <2>2 DEF ReviewCommit
    <3>3. registration' \in [Request -> RegistrationRow]
      BY <3>1, <3>2 DEF RegistrationRow
    <3>. QED
      BY <1>10, <2>2, <3>3, UnlockType DEF ReviewCommit, Answer, Goto
  <2>. QED
    BY <2>1, <2>2
<1>11. ASSUME NEW q \in Request, ReviewRead(q) \/ CheckInFind(q)
       PROVE  TypeOK'
  <2>1. CASE Refuse(q)
    BY <2>1, RefuseType
  <2>2. CASE ~Refuse(q)
    BY <1>11, <2>2 DEF ReviewRead, CheckInFind, Goto, tables, locks
  <2>. QED
    BY <2>1, <2>2
<1>12. ASSUME NEW q \in Request, CheckInLock(q)
       PROVE  TypeOK'
  BY <1>12, RequestFields DEF CheckInLock, Goto, tables
<1>13. ASSUME NEW q \in Request, CheckInCommit(q)
       PROVE  TypeOK'
  <2>1. CASE Refuse(q)
    BY <2>1, RefuseType
  <2>2. CASE ~Refuse(q)
    <3>1. registration' = [registration EXCEPT ![req[q].reg].status = "checked_in"]
      BY <1>13, <2>2 DEF CheckInCommit
    <3>2. registration' \in [Request -> RegistrationRow]
      BY <3>1 DEF RegistrationRow, RegistrationStatus
    <3>. QED
      BY <1>13, <2>2, <3>2, UnlockType DEF CheckInCommit, Answer, Goto
  <2>. QED
    BY <2>1, <2>2
<1>14. ASSUME NEW q \in Request, Fail(q)
       PROVE  TypeOK'
  BY <1>14, UnlockType DEF Fail, Answer, Goto, tables
<1>15. ASSUME NEW a \in Activity, DeadlinePasses(a)
       PROVE  TypeOK'
  BY <1>15 DEF DeadlinePasses, tables, locks
<1>16. CASE UNCHANGED vars
  BY <1>16 DEF vars
<1>. QED
  BY <1>1, <1>2, <1>3, <1>4, <1>5, <1>6, <1>7, <1>8, <1>9, <1>10, <1>11, <1>12,
     <1>13, <1>14, <1>15, <1>16
     DEF Next, Handle, Create, OfflineCreate, Cancel, Review, CheckIn, Finished

\* Every reachable state is well typed: rows carry legal statuses and a lock is
\* held by a request or by nobody.
THEOREM TypeCorrect == Spec => []TypeOK
<1>1. Init => TypeOK
  BY InitType
<1>2. TypeOK /\ [Next]_vars => TypeOK'
  BY TypeStep
<1>. QED
  BY <1>1, <1>2, PTL DEF Spec

(***************************************************************************)
(* Row locks.                                                              *)
(***************************************************************************)

\* A session that commits or rolls back and answers holds no lock afterwards,
\* and the locks of the others are as they were.
LEMMA AnswerKeepsLockInv ==
  ASSUME TypeOK, LockInv, NEW q \in Request, Unlock(q), req' = req,
         NEW result \in Answered, Goto(q, result)
  PROVE  LockInv'
<1>. USE DEF TypeOK, LockInv, Goto, Answered
<1>1. \A p \in Request : pc'[p] = IF p = q THEN result ELSE pc[p]
  OBVIOUS
<1>2. \A p \in Request, a \in Activity : activityLock'[a] = p <=> activityLock[a] = p /\ p # q
  BY SignupAssumption DEF Unlock
<1>3. \A p, r \in Request : regLock'[r] = p <=> regLock[r] = p /\ p # q
  BY SignupAssumption DEF Unlock
<1>4. result \notin {"createLocked", "createChecked", "reviewLocked", "reviewAllowed", "checkinLocked"}
  OBVIOUS
<1>5. \A p \in Request, a \in Activity : activityLock'[a] = p <=>
        pc'[p] \in {"createLocked", "createChecked"} /\ req'[p].act = a
  BY <1>1, <1>2, <1>4
<1>6. \A p, r \in Request : regLock'[r] = p <=>
        pc'[p] \in {"reviewLocked", "reviewAllowed", "checkinLocked"} /\ req'[p].reg = r
  BY <1>1, <1>3, <1>4
<1>7. \A p \in Request : pc'[p] \in {"createLocked", "createChecked"} => req'[p].op = "create"
  BY <1>1, <1>4
<1>. QED
  BY <1>5, <1>6, <1>7

\* A step of a handler that neither takes nor holds a lock.
LEMMA UnlockedStepKeepsLockInv ==
  ASSUME TypeOK, LockInv, NEW q \in Request, req' = req, UNCHANGED locks,
         NEW label, Goto(q, label),
         label \notin {"createLocked", "createChecked", "reviewLocked", "reviewAllowed", "checkinLocked"},
         pc[q] \notin {"createLocked", "createChecked", "reviewLocked", "reviewAllowed", "checkinLocked"}
  PROVE  LockInv'
<1>1. \A p \in Request : pc'[p] = IF p = q THEN label ELSE pc[p]
  BY DEF TypeOK, Goto
<1>. QED
  BY <1>1 DEF LockInv, locks

LEMMA RefuseKeepsLockInv ==
  ASSUME TypeOK, LockInv, NEW q \in Request, Refuse(q)
  PROVE  LockInv'
BY AnswerKeepsLockInv DEF Refuse, Answer, Answered

LEMMA InitLockInv == Init => LockInv
BY SignupAssumption DEF Init, LockInv

LEMMA LockStep ==
  ASSUME TypeOK, LockInv, [Next]_vars
  PROVE  LockInv'
<1>1. ASSUME NEW q \in Request, CreateLock(q)
      PROVE  LockInv'
  <2>1. CASE Refuse(q)
    BY <2>1, RefuseKeepsLockInv
  <2>2. CASE ~Refuse(q)
    <3>. DEFINE a == req[q].act
    <3>1. /\ req[q].op = "create" /\ pc[q] = "start" /\ activityLock[a] = Free
          /\ activityLock' = [activityLock EXCEPT ![a] = q]
          /\ pc' = [pc EXCEPT ![q] = "createLocked"]
          /\ req' = req /\ regLock' = regLock
      BY <1>1, <2>2 DEF CreateLock, At, Goto
    <3>2. a \in Activity
      BY RequestFields DEF TypeOK
    <3>3. \A p \in Request : pc'[p] = IF p = q THEN "createLocked" ELSE pc[p]
      BY <3>1 DEF TypeOK
    <3>4. \A b \in Activity : activityLock'[b] = IF b = a THEN q ELSE activityLock[b]
      BY <3>1, <3>2 DEF TypeOK
    <3>5. \A p \in Request, b \in Activity : activityLock'[b] = p <=>
            pc'[p] \in {"createLocked", "createChecked"} /\ req'[p].act = b
      BY <3>1, <3>2, <3>3, <3>4, SignupAssumption DEF LockInv
    <3>. QED
      BY <3>1, <3>3, <3>5 DEF LockInv
  <2>. QED
    BY <2>1, <2>2
<1>2. ASSUME NEW q \in Request, CreateCheck(q)
      PROVE  LockInv'
  <2>1. CASE Refuse(q)
    BY <2>1, RefuseKeepsLockInv
  <2>2. CASE ~Refuse(q)
    <3>1. /\ pc[q] = "createLocked" /\ req' = req /\ UNCHANGED locks
          /\ pc' = [pc EXCEPT ![q] = "createChecked"]
      BY <1>2, <2>2 DEF CreateCheck, At, Goto
    <3>2. \A p \in Request : pc'[p] = IF p = q THEN "createChecked" ELSE pc[p]
      BY <3>1 DEF TypeOK
    <3>. QED
      BY <3>1, <3>2 DEF LockInv, locks
  <2>. QED
    BY <2>1, <2>2
<1>3. ASSUME NEW q \in Request, CreateCommit(q)
      PROVE  LockInv'
  BY <1>3, AnswerKeepsLockInv DEF CreateCommit, Answer, Answered
<1>11. ASSUME NEW q \in Request, ReviewRead(q)
       PROVE  LockInv'
  <2>1. CASE Refuse(q)
    BY <2>1, RefuseKeepsLockInv
  <2>2. CASE ~Refuse(q)
    <3>1. /\ pc[q] = "reviewLocked" /\ req' = req /\ UNCHANGED locks
          /\ pc' = [pc EXCEPT ![q] = "reviewAllowed"]
      BY <1>11, <2>2 DEF ReviewRead, At, Goto
    <3>2. \A p \in Request : pc'[p] = IF p = q THEN "reviewAllowed" ELSE pc[p]
      BY <3>1 DEF TypeOK
    <3>. QED
      BY <3>1, <3>2 DEF LockInv, locks
  <2>. QED
    BY <2>1, <2>2
<1>4. ASSUME NEW q \in Request, OfflineRead(q) \/ OfflineCount(q) \/ CancelRead(q) \/ CheckInFind(q)
      PROVE  LockInv'
  <2>1. CASE Refuse(q)
    BY <2>1, RefuseKeepsLockInv
  <2>2. CASE ~Refuse(q)
    BY <1>4, <2>2, UnlockedStepKeepsLockInv
       DEF OfflineRead, OfflineCount, CancelRead, CheckInFind, At
  <2>. QED
    BY <2>1, <2>2
<1>5. ASSUME NEW q \in Request, OfflineInsert(q) \/ CancelSave(q)
      PROVE  LockInv'
  BY <1>5, UnlockedStepKeepsLockInv DEF OfflineInsert, CancelSave, Answer, At
<1>6. ASSUME NEW q \in Request, ReviewLock(q) \/ CheckInLock(q), ~Refuse(q)
      PROVE  LockInv'
  <2>. DEFINE r == req[q].reg
  <2>1. /\ pc[q] \in {"start", "checkinFound"} /\ regLock[r] = Free
        /\ regLock' = [regLock EXCEPT ![r] = q]
        /\ \E label \in {"reviewLocked", "checkinLocked"} : pc' = [pc EXCEPT ![q] = label]
        /\ req' = req /\ activityLock' = activityLock
    BY <1>6 DEF ReviewLock, CheckInLock, At, Goto
  <2>2. PICK label \in {"reviewLocked", "checkinLocked"} : pc' = [pc EXCEPT ![q] = label]
    BY <2>1
  <2>3. r \in Request
    BY RequestFields DEF TypeOK
  <2>4. \A p \in Request : pc'[p] = IF p = q THEN label ELSE pc[p]
    BY <2>2 DEF TypeOK
  <2>5. \A s \in Request : regLock'[s] = IF s = r THEN q ELSE regLock[s]
    BY <2>1, <2>3 DEF TypeOK
  <2>6. \A p, s \in Request : regLock'[s] = p <=>
          pc'[p] \in {"reviewLocked", "reviewAllowed", "checkinLocked"} /\ req'[p].reg = s
    BY <2>1, <2>3, <2>4, <2>5, SignupAssumption DEF LockInv
  <2>. QED
    BY <2>1, <2>4, <2>6 DEF LockInv
<1>7. ASSUME NEW q \in Request, ReviewLock(q) \/ ReviewCommit(q) \/ CheckInCommit(q) \/ Fail(q)
      PROVE  LockInv'
  <2>1. CASE Refuse(q)
    BY <2>1, RefuseKeepsLockInv
  <2>2. CASE ReviewLock(q) /\ ~Refuse(q)
    BY <2>2, <1>6
  <2>3. CASE ~ReviewLock(q) /\ ~Refuse(q)
    BY <1>7, <2>3, AnswerKeepsLockInv DEF ReviewCommit, CheckInCommit, Fail, Answer, Answered
  <2>. QED
    BY <2>1, <2>2, <2>3
<1>8. ASSUME NEW q \in Request, CheckInLock(q)
      PROVE  LockInv'
  BY <1>6, <1>8, RefuseKeepsLockInv
<1>9. ASSUME NEW a \in Activity, DeadlinePasses(a)
      PROVE  LockInv'
  BY <1>9 DEF DeadlinePasses, LockInv, locks
<1>10. CASE UNCHANGED vars
  BY <1>10 DEF vars, LockInv
<1>. QED
  BY <1>1, <1>2, <1>3, <1>4, <1>5, <1>7, <1>8, <1>9, <1>10, <1>11
     DEF Next, Handle, Create, OfflineCreate, Cancel, Review, CheckIn, Finished

\* Row locks always have exactly the holders LockInv says.
THEOREM LocksCorrect == Spec => []LockInv
<1>1. Init => TypeOK /\ LockInv
  BY InitType, InitLockInv
<1>2. TypeOK /\ LockInv /\ [Next]_vars => (TypeOK /\ LockInv)'
  BY TypeStep, LockStep
<1>. QED
  BY <1>1, <1>2, PTL DEF Spec

\* A request that was answered, refused or failed has left no row locked, so a
\* failed handler cannot block the activity for everybody else.
THEOREM NoLockLeaks == Spec => []NoLeakedLock
<1>1. TypeOK /\ LockInv => NoLeakedLock
  BY DEF TypeOK, LockInv, NoLeakedLock, InFlight
<1>. QED
  BY <1>1, TypeCorrect, LocksCorrect, PTL

(***************************************************************************)
(* What a step may do to the tables.                                       *)
(***************************************************************************)

SignUpStep(q) == CreateCommit(q) /\ ~KeyTaken(q)
OfflineStep(q) == OfflineInsert(q) /\ ~KeyTaken(q)
ReviewStep(q) == ReviewCommit(q) /\ Reviewable(q)
CheckInStep(q) == CheckInCommit(q) /\ CanCheckIn(req[q].reg)

WriteStep(q) ==
  SignUpStep(q) \/ OfflineStep(q) \/ CancelSave(q) \/ ReviewStep(q) \/ CheckInStep(q)

\* Only the last statement of a handler writes, and only when it succeeds.
LEMMA StepKinds ==
  ASSUME [Next]_vars
  PROVE  \/ UNCHANGED <<req, tables>>
         \/ \E q \in Request : WriteStep(q)
<1>1. ASSUME NEW q \in Request, CreateCommit(q) \/ OfflineInsert(q) \/ CancelSave(q)
                                  \/ ReviewCommit(q) \/ CheckInCommit(q)
      PROVE  UNCHANGED <<req, tables>> \/ WriteStep(q)
  BY <1>1 DEF WriteStep, SignUpStep, OfflineStep, ReviewStep, CheckInStep, CreateCommit,
              OfflineInsert, ReviewCommit, CheckInCommit, Refuse, Answer
<1>2. ASSUME NEW q \in Request, CreateLock(q) \/ CreateCheck(q) \/ OfflineRead(q)
        \/ OfflineCount(q) \/ CancelRead(q) \/ ReviewLock(q) \/ ReviewRead(q)
        \/ CheckInFind(q) \/ CheckInLock(q) \/ Fail(q)
      PROVE  UNCHANGED <<req, tables>>
  BY <1>2 DEF CreateLock, CreateCheck, OfflineRead, OfflineCount, CancelRead, ReviewLock,
              ReviewRead, CheckInFind, CheckInLock, Fail, Refuse, Answer
<1>3. ASSUME NEW a \in Activity, DeadlinePasses(a)
      PROVE  UNCHANGED <<req, tables>>
  BY <1>3 DEF DeadlinePasses
<1>4. CASE UNCHANGED vars
  BY <1>4 DEF vars, tables
<1>. QED
  BY <1>1, <1>2, <1>3, <1>4
     DEF Next, Handle, Create, OfflineCreate, Cancel, Review, CheckIn, Finished

\* A step moves the handler of at most one request, never one that has been
\* answered; the labels at which a registration is known are entered only
\* from a state in which it exists.
LEMMA PcStep ==
  ASSUME TypeOK, [Next]_vars
  PROVE  /\ \A p \in Request : pc[p] \in Answered => pc'[p] = pc[p]
         /\ \A p \in Request :
              pc'[p] \in {"cancelRead", "reviewLocked", "reviewAllowed", "checkinFound", "checkinLocked"} =>
                \/ Present(req[p].reg)
                \/ pc[p] \in {"cancelRead", "reviewLocked", "reviewAllowed", "checkinFound", "checkinLocked"}
<1>. USE DEF TypeOK, Answered, InFlight
<1>. SUFFICES ASSUME NEW p \in Request
              PROVE  /\ pc[p] \in Answered => pc'[p] = pc[p]
                     /\ pc'[p] \in {"cancelRead", "reviewLocked", "reviewAllowed", "checkinFound", "checkinLocked"} =>
                          \/ Present(req[p].reg)
                          \/ pc[p] \in {"cancelRead", "reviewLocked", "reviewAllowed", "checkinFound", "checkinLocked"}
  OBVIOUS
<1>1. ASSUME NEW q \in Request, Create(q) \/ OfflineCreate(q) \/ Fail(q)
      PROVE  /\ pc[q] \notin Answered
             /\ \E label \in {"createLocked", "createChecked", "offlineRead", "offlineCounted",
                              "ok", "refused", "failed"} : pc' = [pc EXCEPT ![q] = label]
  BY <1>1 DEF Create, CreateLock, CreateCheck, CreateCommit, OfflineCreate, OfflineRead,
              OfflineCount, OfflineInsert, Fail, Refuse, Answer, Goto, At
<1>2. ASSUME NEW q \in Request, Cancel(q) \/ Review(q) \/ CheckIn(q)
      PROVE  /\ pc[q] \notin Answered
             /\ \E label \in {"cancelRead", "reviewLocked", "reviewAllowed", "checkinFound", "checkinLocked",
                              "ok", "refused", "failed"} :
                  /\ pc' = [pc EXCEPT ![q] = label]
                  /\ label \in {"cancelRead", "reviewLocked", "reviewAllowed", "checkinFound", "checkinLocked"} =>
                       Present(req[q].reg) \/ pc[q] \in {"reviewLocked", "checkinFound"}
  <2>1. CASE Cancel(q)
    BY <2>1 DEF Cancel, CancelRead, CancelSave, Refuse, Answer, Goto, At, Present
  <2>2. CASE Review(q)
    BY <2>2 DEF Review, ReviewLock, ReviewRead, ReviewCommit, Refuse, Answer, Goto, At
  <2>3. CASE CheckIn(q)
    BY <2>3 DEF CheckIn, CheckInFind, CheckInLock, CheckInCommit, Refuse, Answer, Goto, At
  <2>. QED
    BY <1>2, <2>1, <2>2, <2>3
<1>3. ASSUME NEW a \in Activity, DeadlinePasses(a)
      PROVE  pc' = pc
  BY <1>3 DEF DeadlinePasses
<1>4. CASE UNCHANGED vars
  BY <1>4 DEF vars
<1>5. ASSUME NEW q \in Request, Create(q) \/ OfflineCreate(q) \/ Fail(q)
      PROVE  /\ pc[p] \in Answered => pc'[p] = pc[p]
             /\ pc'[p] \in {"cancelRead", "reviewLocked", "reviewAllowed", "checkinFound", "checkinLocked"} =>
                  pc[p] \in {"cancelRead", "reviewLocked", "reviewAllowed", "checkinFound", "checkinLocked"}
  BY <1>1, <1>5
<1>6. ASSUME NEW q \in Request, Cancel(q) \/ Review(q) \/ CheckIn(q)
      PROVE  /\ pc[p] \in Answered => pc'[p] = pc[p]
             /\ pc'[p] \in {"cancelRead", "reviewLocked", "reviewAllowed", "checkinFound", "checkinLocked"} =>
                  \/ Present(req[p].reg)
                  \/ pc[p] \in {"cancelRead", "reviewLocked", "reviewAllowed", "checkinFound", "checkinLocked"}
  BY <1>2, <1>6
<1>. QED
  BY <1>3, <1>4, <1>5, <1>6 DEF Next, Handle, Finished

(***************************************************************************)
(* Rows of the registrations table.                                        *)
(***************************************************************************)

LEMMA InitRowInv == Init => RowInv
BY DEF Init, RowInv, Present

\* How a write step changes the status of a registration.
LEMMA WriteStatus ==
  ASSUME TypeOK, RowInv, NEW q \in Request, WriteStep(q), NEW r \in Request
  PROVE  \/ registration'[r] = registration[r]
         \/ /\ r = q /\ pc[q] \in {"createChecked", "offlineCounted"} /\ pc'[q] = "ok"
            /\ req[q].op \in {"create", "offline"}
            /\ ~Present(r) /\ registration'[r].status = "registered"
         \/ /\ CancelSave(q) /\ r = req[q].reg /\ Present(r)
            /\ registration'[r].status = "cancelled"
         \/ /\ ReviewStep(q) /\ r = req[q].reg
            /\ registration'[r].status = registration[r].status
            /\ registration'[r].review = req[q].decision
         \/ /\ CheckInStep(q) /\ r = req[q].reg
            /\ registration[r].status = "registered"
            /\ registration'[r].status = "checked_in"
            /\ registration'[r].review = "approved"
<1>. USE DEF TypeOK
<1>1. CASE SignUpStep(q) \/ OfflineStep(q)
  <2>1. /\ pc[q] \in {"createChecked", "offlineCounted"}
        /\ req[q].op \in {"create", "offline"}
        /\ pc' = [pc EXCEPT ![q] = "ok"]
        /\ \E v \in {"pending", "approved"} :
             registration' = [registration EXCEPT ![q] = [status |-> "registered", review |-> v]]
    BY <1>1 DEF SignUpStep, OfflineStep, CreateCommit, OfflineInsert, Insert, Answer, Goto, At
  <2>2. ~Present(q)
    BY <2>1 DEF RowInv
  <2>. QED
    BY <2>1, <2>2
<1>2. CASE CancelSave(q)
  <2>1. /\ pc[q] = "cancelRead"
        /\ registration' = [registration EXCEPT ![req[q].reg] =
                              [status |-> "cancelled", review |-> local[q].review]]
    BY <1>2 DEF CancelSave, At
  <2>. QED
    BY <1>2, <2>1 DEF RowInv
<1>3. CASE ReviewStep(q)
  <2>1. registration' = [registration EXCEPT ![req[q].reg].review = req[q].decision]
    BY <1>3 DEF ReviewStep, ReviewCommit, Refuse
  <2>. QED
    BY <1>3, <2>1 DEF RegistrationRow
<1>4. CASE CheckInStep(q)
  <2>1. /\ registration' = [registration EXCEPT ![req[q].reg].status = "checked_in"]
        /\ registration[req[q].reg] = [status |-> "registered", review |-> "approved"]
    BY <1>4 DEF CheckInStep, CheckInCommit, CanCheckIn
  <2>. QED
    BY <1>4, <2>1 DEF RegistrationRow
<1>. QED
  BY <1>1, <1>2, <1>3, <1>4 DEF WriteStep

\* The columns and tables other than registrations that a write step changes.
LEMMA WriteEffect ==
  ASSUME NEW q \in Request, WriteStep(q)
  PROVE  /\ req' = req /\ activity' = activity
         /\ notified' \subseteq notified \cup {q}
         /\ \/ CheckInStep(q) /\ checkIn' = checkIn \cup {q}
            \/ ~CheckInStep(q) /\ checkIn' = checkIn
<1>1. CASE CheckInStep(q)
  BY <1>1 DEF CheckInStep, CheckInCommit, Answer
<1>2. CASE ~CheckInStep(q)
  BY <1>2 DEF WriteStep, SignUpStep, OfflineStep, ReviewStep, CreateCommit, OfflineInsert,
              CancelSave, ReviewCommit, Refuse, Answer
<1>. QED
  BY <1>1, <1>2

\* A step that writes answers its request with success.
LEMMA WriteAnswers ==
  ASSUME TypeOK, NEW q \in Request, WriteStep(q)
  PROVE  pc'[q] = "ok"
BY DEF TypeOK, WriteStep, SignUpStep, OfflineStep, ReviewStep, CheckInStep, CreateCommit,
       OfflineInsert, CancelSave, ReviewCommit, CheckInCommit, Refuse, Answer, Goto

LEMMA RowStep ==
  ASSUME TypeOK, RowInv, [Next]_vars
  PROVE  RowInv'
<1>1. CASE UNCHANGED <<req, tables>>
  BY <1>1, PcStep DEF RowInv, Present, tables, Answered, TypeOK
<1>2. ASSUME NEW q \in Request, WriteStep(q)
      PROVE  RowInv'
  <2>1. req' = req
    BY <1>2 DEF WriteStep, SignUpStep, OfflineStep, ReviewStep, CheckInStep, CreateCommit,
                OfflineInsert, CancelSave, ReviewCommit, CheckInCommit, Refuse, Answer
  <2>2. \A r \in Request : Present(r) => registration'[r].status # "absent"
    BY <1>2, WriteStatus DEF Present
  <2>3. \A r \in Request : registration'[r].status # "absent" =>
          pc'[r] = "ok" /\ req[r].op \in {"create", "offline"}
    BY <1>2, WriteStatus, PcStep DEF Present, RowInv, Answered
  <2>4. \A p \in Request : req[p].reg \in Request
    BY RequestFields DEF TypeOK
  <2>5. pc'[q] = "ok"
    BY <1>2, WriteAnswers
  <2>6. checkIn' \cup notified' \subseteq checkIn \cup notified \cup {q}
    BY <1>2, WriteEffect
  <2>7. \A p \in checkIn' \cup notified' : pc'[p] = "ok"
    BY <2>5, <2>6, PcStep DEF RowInv, Answered, TypeOK
  <2>. QED
    BY <2>1, <2>2, <2>3, <2>4, <2>7, PcStep DEF RowInv, Present
<1>. QED
  BY <1>1, <1>2, StepKinds

(***************************************************************************)
(* Cancellations and released places are final.                            *)
(***************************************************************************)

LEMMA CancelledStep ==
  ASSUME TypeOK, RowInv, [Next]_vars, NEW r \in Request, registration[r].status = "cancelled"
  PROVE  registration'[r].status = "cancelled"
BY StepKinds, WriteStatus DEF tables, Present

LEMMA ReleasedStep ==
  ASSUME TypeOK, RowInv, [Next]_vars, NEW r \in Request, Present(r), ~Counts(r)
  PROVE  ~Counts(r)'
<1>1. CASE UNCHANGED <<req, tables>>
  BY <1>1 DEF tables, Counts
<1>2. ASSUME NEW q \in Request, WriteStep(q)
      PROVE  ~Counts(r)'
  <2>1. ASSUME ReviewStep(q), r = req[q].reg
        PROVE  registration[r].review = "pending"
    BY <2>1 DEF ReviewStep, Reviewable
  <2>2. ASSUME CheckInStep(q), r = req[q].reg
        PROVE  registration[r].review = "approved"
    BY <2>2 DEF CheckInStep, CanCheckIn
  <2>. QED
    BY <1>2, <2>1, <2>2, WriteStatus DEF Counts, Present
<1>. QED
  BY <1>1, <1>2, StepKinds

\* No interleaving, stale save included, brings a cancelled registration back.
THEOREM CancellationIsFinal == Spec => CancelledForGood
<1>1. TypeOK /\ RowInv /\ [Next]_vars =>
        [\A r \in Request : registration[r].status = "cancelled"
                              => registration'[r].status = "cancelled"]_vars
  BY CancelledStep
<1>2. Init => TypeOK /\ RowInv
  BY InitType, InitRowInv
<1>3. TypeOK /\ RowInv /\ [Next]_vars => (TypeOK /\ RowInv)'
  BY TypeStep, RowStep
<1>. QED
  BY <1>1, <1>2, <1>3, PTL DEF Spec, CancelledForGood

\* A registration that was cancelled or rejected never takes a place again.
THEOREM PlaceIsReleasedForGood == Spec => PlaceReleasedForGood
<1>1. TypeOK /\ RowInv /\ [Next]_vars =>
        [\A r \in Request : Present(r) /\ ~Counts(r) => ~Counts(r)']_vars
  BY ReleasedStep
<1>2. Init => TypeOK /\ RowInv
  BY InitType, InitRowInv
<1>3. TypeOK /\ RowInv /\ [Next]_vars => (TypeOK /\ RowInv)'
  BY TypeStep, RowStep
<1>. QED
  BY <1>1, <1>2, <1>3, PTL DEF Spec, PlaceReleasedForGood

(***************************************************************************)
(* Check-in.                                                               *)
(***************************************************************************)

CheckInInv == OneCheckInPerRegistration /\ CheckInConsistent

LEMMA InitCheckInInv == Init => CheckInInv
BY DEF Init, CheckInInv, OneCheckInPerRegistration, CheckInConsistent

LEMMA CheckInInvStep ==
  ASSUME TypeOK, RowInv, CheckInInv, [Next]_vars
  PROVE  CheckInInv'
<1>. USE DEF CheckInInv, OneCheckInPerRegistration, CheckInConsistent
<1>1. CASE UNCHANGED <<req, tables>>
  BY <1>1 DEF tables
<1>2. ASSUME NEW q \in Request, WriteStep(q)
      PROVE  CheckInInv'
  <2>1. req' = req /\ checkIn \subseteq checkIn' /\ checkIn' \subseteq checkIn \cup {q}
    BY <1>2, WriteEffect
  <2>2. \A p \in checkIn : p \in Request /\ req[p].reg \in Request
    BY RequestFields DEF TypeOK
  <2>3. ASSUME CheckInStep(q)
        PROVE  /\ registration[req[q].reg].status = "registered"
               /\ registration'[req[q].reg].status = "checked_in"
               /\ registration'[req[q].reg].review = "approved"
               /\ q \in checkIn'
    <3>1. /\ registration[req[q].reg] = [status |-> "registered", review |-> "approved"]
          /\ registration' = [registration EXCEPT ![req[q].reg].status = "checked_in"]
          /\ q \in checkIn'
      BY <2>3 DEF CheckInStep, CheckInCommit, CanCheckIn
    <3>. QED
      BY <3>1, RequestFields DEF TypeOK, RegistrationRow
  <2>4. ASSUME NEW r \in Request, registration'[r].status = "checked_in"
        PROVE  registration'[r].review = "approved" /\ \E p \in checkIn' : req[p].reg = r
    <3>1. CASE registration'[r] = registration[r]
      BY <2>1, <2>4, <3>1
    <3>2. CASE CheckInStep(q) /\ r = req[q].reg
      BY <2>3, <3>2
    <3>3. CASE ReviewStep(q) /\ r = req[q].reg
      <4>1. registration[r].status # "checked_in"
        BY <3>3 DEF ReviewStep, Reviewable
      <4>. QED
        BY <1>2, <2>4, <3>1, <3>2, <3>3, <4>1, WriteStatus
    <3>. QED
      BY <1>2, <2>4, <3>1, <3>2, <3>3, WriteStatus
  <2>5. ASSUME NEW p \in checkIn
        PROVE  registration'[req[p].reg].status \in {"checked_in", "cancelled"}
    BY <1>2, <2>2, WriteStatus DEF Present
  <2>6. checkIn' = checkIn \/ CheckInStep(q)
    BY <1>2, WriteEffect
  <2>7. \A p \in checkIn' : registration'[req[p].reg].status \in {"checked_in", "cancelled"}
    BY <2>1, <2>3, <2>5, <2>6
  <2>8. \A p, s \in checkIn' : req[p].reg = req[s].reg => p = s
    BY <2>1, <2>3, <2>6
  <2>. QED
    BY <2>1, <2>4, <2>7, <2>8
<1>. QED
  BY <1>1, <1>2, StepKinds

\* A registration never has two check-in records, although no unique index
\* forbids it and a cancellation may overwrite the status checked_in.
THEOREM AtMostOneCheckIn == Spec => []OneCheckInPerRegistration
<1>1. Init => TypeOK /\ RowInv /\ CheckInInv
  BY InitType, InitRowInv, InitCheckInInv
<1>2. TypeOK /\ RowInv /\ CheckInInv /\ [Next]_vars => (TypeOK /\ RowInv /\ CheckInInv)'
  BY TypeStep, RowStep, CheckInInvStep
<1>3. CheckInInv => OneCheckInPerRegistration
  BY DEF CheckInInv
<1>. QED
  BY <1>1, <1>2, <1>3, PTL DEF Spec

\* Registrations shown as checked in were approved and have their record, and
\* a registration with a record is never open for check-in again.
THEOREM AttendanceConsistent == Spec => []CheckInConsistent
<1>1. Init => TypeOK /\ RowInv /\ CheckInInv
  BY InitType, InitRowInv, InitCheckInInv
<1>2. TypeOK /\ RowInv /\ CheckInInv /\ [Next]_vars => (TypeOK /\ RowInv /\ CheckInInv)'
  BY TypeStep, RowStep, CheckInInvStep
<1>3. CheckInInv => CheckInConsistent
  BY DEF CheckInInv
<1>. QED
  BY <1>1, <1>2, <1>3, PTL DEF Spec

(***************************************************************************)
(* Signups and the capacity.                                               *)
(***************************************************************************)

\* How a request comes to be, or stays, inside the section of Create that
\* holds the activity row.
LEMMA CreateSection ==
  ASSUME TypeOK, [Next]_vars, NEW p \in Request, pc'[p] \in {"createLocked", "createChecked"}
  PROVE  \/ /\ pc'[p] = "createLocked"
            /\ local'[p].capacity = activity[req[p].act].capacity
            /\ activity[req[p].act].status = "published"
         \/ /\ pc[p] = "createLocked" /\ pc'[p] = "createChecked" /\ local'[p] = local[p]
            /\ ~Full(p) /\ ~FindByActivityAndUser(p)
         \/ pc'[p] = pc[p] /\ local'[p] = local[p]
<1>. USE DEF TypeOK
<1>1. ASSUME NEW q \in Request, CreateLock(q), ~Refuse(q)
      PROVE  /\ pc' = [pc EXCEPT ![q] = "createLocked"]
             /\ local' = [local EXCEPT ![q].capacity = activity[req[q].act].capacity]
             /\ activity[req[q].act].status = "published"
  BY <1>1 DEF CreateLock, Goto, SignupOpen
<1>2. ASSUME NEW q \in Request, CreateCheck(q), ~Refuse(q)
      PROVE  /\ pc[q] = "createLocked" /\ pc' = [pc EXCEPT ![q] = "createChecked"]
             /\ local' = local /\ ~Full(q) /\ ~FindByActivityAndUser(q)
  BY <1>2 DEF CreateCheck, Goto, At
<1>3. ASSUME NEW q \in Request, OfflineRead(q) \/ CancelRead(q), ~Refuse(q)
      PROVE  /\ \E label \in {"offlineRead", "cancelRead"} : pc' = [pc EXCEPT ![q] = label]
             /\ \/ local' = [local EXCEPT ![q].capacity = activity[req[q].act].capacity]
                \/ local' = [local EXCEPT ![q].review = registration[req[q].reg].review]
  BY <1>3 DEF OfflineRead, CancelRead, Goto
<1>4. ASSUME NEW q \in Request,
             \/ Refuse(q) \/ CreateCommit(q) \/ OfflineCount(q) \/ OfflineInsert(q)
             \/ CancelSave(q) \/ Review(q) \/ CheckIn(q) \/ Fail(q)
      PROVE  /\ \E label \in {"ok", "refused", "failed", "offlineCounted", "reviewLocked",
                              "reviewAllowed", "checkinFound", "checkinLocked"} : pc' = [pc EXCEPT ![q] = label]
             /\ local' = local
  <2>1. CASE Refuse(q) \/ CreateCommit(q) \/ OfflineCount(q) \/ OfflineInsert(q)
               \/ CancelSave(q) \/ Fail(q)
    BY <2>1 DEF Refuse, CreateCommit, OfflineCount, OfflineInsert, CancelSave, Fail, Answer, Goto
  <2>2. CASE Review(q) \/ CheckIn(q)
    BY <2>2 DEF Review, ReviewLock, ReviewRead, ReviewCommit, CheckIn, CheckInFind, CheckInLock,
                CheckInCommit, Refuse, Answer, Goto
  <2>. QED
    BY <1>4, <2>1, <2>2
<1>5. CASE UNCHANGED <<pc, local>>
  BY <1>5
<1>6. ASSUME NEW q \in Request, CreateLock(q), ~Refuse(q)
      PROVE  \/ /\ pc'[p] = "createLocked"
                /\ local'[p].capacity = activity[req[p].act].capacity
                /\ activity[req[p].act].status = "published"
             \/ pc'[p] = pc[p] /\ local'[p] = local[p]
  BY <1>1, <1>6
<1>7. ASSUME NEW q \in Request, CreateCheck(q), ~Refuse(q)
      PROVE  \/ /\ pc[p] = "createLocked" /\ pc'[p] = "createChecked" /\ local'[p] = local[p]
                /\ ~Full(p) /\ ~FindByActivityAndUser(p)
             \/ pc'[p] = pc[p] /\ local'[p] = local[p]
  <2>1. CASE p = q
    BY <1>2, <1>7, <2>1
  <2>2. CASE p # q
    BY <1>2, <1>7, <2>2
  <2>. QED
    BY <2>1, <2>2
<1>8. ASSUME NEW q \in Request, OfflineRead(q) \/ CancelRead(q), ~Refuse(q)
      PROVE  pc'[p] = pc[p] /\ local'[p] = local[p]
  BY <1>3, <1>8
<1>9. ASSUME NEW q \in Request,
             \/ Refuse(q) \/ CreateCommit(q) \/ OfflineCount(q) \/ OfflineInsert(q)
             \/ CancelSave(q) \/ Review(q) \/ CheckIn(q) \/ Fail(q)
      PROVE  pc'[p] = pc[p] /\ local'[p] = local[p]
  BY <1>4, <1>9
<1>10. ASSUME NEW a \in Activity, DeadlinePasses(a)
       PROVE  UNCHANGED <<pc, local>>
  BY <1>10 DEF DeadlinePasses
<1>11. ASSUME UNCHANGED vars
       PROVE  UNCHANGED <<pc, local>>
  BY <1>11 DEF vars
<1>. QED
  BY <1>5, <1>6, <1>7, <1>8, <1>9, <1>10, <1>11
     DEF Next, Handle, Create, OfflineCreate, Cancel, Finished

\* The set of online registrations that count grows by a committed signup for
\* the activity, and by nothing else.
LEMMA OnlineGrowth ==
  ASSUME TypeOK, RowInv, NEW q \in Request, WriteStep(q), NEW a \in Activity
  PROVE  /\ OnlineCounted(a)' \subseteq OnlineCounted(a) \cup {q}
         /\ ~(SignUpStep(q) /\ req[q].act = a) => OnlineCounted(a)' \subseteq OnlineCounted(a)
<1>. SUFFICES ASSUME NEW r \in OnlineCounted(a)'
              PROVE  \/ r \in OnlineCounted(a)
                     \/ r = q /\ SignUpStep(q) /\ req[q].act = a
  OBVIOUS
<1>1. /\ r \in Request /\ req[r].op = "create" /\ req[r].act = a
      /\ registration'[r].status \notin {"absent", "cancelled"}
      /\ registration'[r].review # "rejected"
  BY WriteEffect DEF OnlineCounted, Counts
<1>2. CASE registration'[r] = registration[r]
  BY <1>1, <1>2 DEF OnlineCounted, Counts
<1>3. CASE r = q /\ ~Present(r)
  <2>1. ~OfflineStep(q)
    BY <1>1, <1>3 DEF OfflineStep, OfflineInsert, At
  <2>2. SignUpStep(q)
    BY <1>1, <1>3, <2>1 DEF WriteStep, CancelSave, ReviewStep, ReviewCommit, CheckInStep,
                            CheckInCommit, At
  <2>. QED
    BY <1>1, <1>3, <2>2
<1>4. CASE ReviewStep(q) /\ r = req[q].reg /\ registration'[r].status = registration[r].status
  <2>1. registration[r].review = "pending"
    BY <1>4 DEF ReviewStep, Reviewable
  <2>. QED
    BY <1>1, <1>4, <2>1 DEF OnlineCounted, Counts
<1>5. CASE CheckInStep(q) /\ r = req[q].reg
  <2>1. registration[r] = [status |-> "registered", review |-> "approved"]
    BY <1>5 DEF CheckInStep, CanCheckIn
  <2>. QED
    BY <1>1, <2>1 DEF OnlineCounted, Counts
<1>. QED
  BY <1>1, <1>2, <1>3, <1>4, <1>5, WriteStatus

\* Rows of online registrations appear by a committed signup only.
LEMMA OnlineRows ==
  ASSUME TypeOK, RowInv, NEW q \in Request, WriteStep(q), NEW r \in Request,
         req[r].op = "create", registration'[r].status # "absent", ~Present(r)
  PROVE  r = q /\ SignUpStep(q)
<1>1. r = q
  BY WriteStatus DEF Present
<1>2. ~OfflineStep(q)
  BY <1>1 DEF OfflineStep, OfflineInsert, At
<1>. QED
  BY <1>1, <1>2 DEF WriteStep, CancelSave, ReviewStep, ReviewCommit, CheckInStep,
                    CheckInCommit, At

LEMMA OnlineCountedFinite ==
  ASSUME NEW a \in Activity
  PROVE  /\ IsFiniteSet(OnlineCounted(a)) /\ Cardinality(OnlineCounted(a)) \in Nat
         /\ Cardinality(OnlineCounted(a)) <= CountRegistered(a)
         /\ CountRegistered(a) \in Nat
<1>. DEFINE C == {r \in Request : req[r].act = a /\ Counts(r)}
<1>1. IsFiniteSet(C)
  BY SignupAssumption, FS_Subset
<1>2. OnlineCounted(a) \subseteq C
  BY DEF OnlineCounted
<1>3. IsFiniteSet(OnlineCounted(a)) /\ Cardinality(OnlineCounted(a)) <= Cardinality(C)
  BY <1>1, <1>2, FS_Subset
<1>. QED
  BY <1>1, <1>3, FS_CardinalityType DEF CountRegistered

\* The invariants that concern signups, and the two they rest on.
SignupInv == CheckedInv /\ OnlineWithinCapacity /\ OneSignupPerUser
BaseInv == TypeOK /\ LockInv /\ RowInv

LEMMA InitSignupInv == Init => SignupInv
<1>. SUFFICES ASSUME Init
              PROVE  SignupInv
  OBVIOUS
<1>1. \A a \in Activity : OnlineCounted(a) = {}
  BY DEF Init, OnlineCounted, Counts
<1>2. \A a \in Activity : activity[a].capacity \in Nat
  BY InitType DEF TypeOK, ActivityRow
<1>3. Cardinality({}) = 0
  BY FS_EmptySet
<1>4. OnlineWithinCapacity
  <2>. SUFFICES ASSUME NEW a \in Activity, activity[a].capacity > 0
                PROVE  Cardinality(OnlineCounted(a)) <= activity[a].capacity
    BY DEF OnlineWithinCapacity, WithinCapacity
  <2>1. Cardinality(OnlineCounted(a)) = 0
    BY <1>1, <1>3
  <2>. QED
    BY <1>2, <2>1
<1>5. CheckedInv /\ OneSignupPerUser
  BY DEF Init, CheckedInv, OneSignupPerUser, Present
<1>. QED
  BY <1>4, <1>5 DEF SignupInv

\* The two parts of CheckedInv, for one request.
CapacityKnown(p) == /\ local[p].capacity = activity[req[p].act].capacity
                    /\ activity[req[p].act].status = "published"
RoomChecked(p) ==
  /\ local[p].capacity > 0 => Cardinality(OnlineCounted(req[p].act)) < local[p].capacity
  /\ \A r \in Request :
       Present(r) /\ req[r].op = "create" /\ req[r].act = req[p].act => req[r].by # req[p].by

LEMMA CheckedInvSplit ==
  CheckedInv <=> \A p \in Request :
    /\ pc[p] \in {"createLocked", "createChecked"} => CapacityKnown(p)
    /\ pc[p] = "createChecked" => RoomChecked(p)
BY DEF CheckedInv, CapacityKnown, RoomChecked

\* The count and the duplicate check establish what the insert relies on.
LEMMA CheckEstablishesRoom ==
  ASSUME TypeOK, NEW p \in Request, ~Full(p), ~FindByActivityAndUser(p)
  PROVE  RoomChecked(p)
<1>1. req[p].act \in Activity /\ local[p].capacity \in Nat
  BY RequestFields DEF TypeOK
<1>2. local[p].capacity > 0 => CountRegistered(req[p].act) < local[p].capacity
  BY <1>1, OnlineCountedFinite DEF Full
<1>. QED
  BY <1>1, <1>2, OnlineCountedFinite DEF FindByActivityAndUser, RoomChecked

\* A write of another request takes no place of the activity that p has locked.
LEMMA OthersLeaveRoom ==
  ASSUME BaseInv, NEW p \in Request, NEW q \in Request, p # q, WriteStep(q),
         pc[p] \in {"createLocked", "createChecked"}, RoomChecked(p), local'[p] = local[p]
  PROVE  RoomChecked(p)'
<1>1. PICK a \in Activity : a = req[p].act
  BY RequestFields DEF BaseInv, TypeOK
<1>2. ~(SignUpStep(q) /\ req[q].act = a)
  BY <1>1 DEF BaseInv, LockInv, SignUpStep, CreateCommit, At
<1>3. OnlineCounted(a)' \subseteq OnlineCounted(a)
  BY <1>2, OnlineGrowth DEF BaseInv
<1>4. /\ Cardinality(OnlineCounted(a)') <= Cardinality(OnlineCounted(a))
      /\ Cardinality(OnlineCounted(a)') \in Nat /\ Cardinality(OnlineCounted(a)) \in Nat
  BY <1>3, OnlineCountedFinite, FS_Subset, FS_CardinalityType
<1>5. req' = req
  BY WriteEffect
<1>6. \A r \in Request : registration'[r].status # "absent" /\ req[r].op = "create"
                           /\ req[r].act = a => Present(r)
  BY <1>2, OnlineRows DEF BaseInv
<1>7. \A r \in Request : Present(r)' /\ req'[r].op = "create" /\ req'[r].act = req'[p].act
                           => req'[r].by # req'[p].by
  BY <1>1, <1>5, <1>6 DEF RoomChecked, Present
<1>8. local[p].capacity \in Nat
  BY DEF BaseInv, TypeOK
<1>9. local'[p].capacity > 0 => Cardinality(OnlineCounted(a)') < local'[p].capacity
  BY <1>1, <1>4, <1>8 DEF RoomChecked
<1>10. OnlineCounted(req[p].act)' = OnlineCounted(a)'
  BY <1>1, <1>5 DEF OnlineCounted
<1>. QED
  BY <1>7, <1>9, <1>10 DEF RoomChecked

LEMMA CheckedInvStep ==
  ASSUME BaseInv, CheckedInv, [Next]_vars
  PROVE  CheckedInv'
<1>1. req' = req /\ activity' = activity
  BY StepKinds, WriteEffect DEF tables
<1>2. ASSUME NEW p \in Request, pc'[p] \in {"createLocked", "createChecked"}
      PROVE  CapacityKnown(p)'
  <2>1. CASE /\ local'[p].capacity = activity[req[p].act].capacity
             /\ activity[req[p].act].status = "published"
    BY <1>1, <2>1 DEF CapacityKnown
  <2>2. CASE pc[p] \in {"createLocked", "createChecked"} /\ local'[p] = local[p]
    BY <1>1, <2>2, CheckedInvSplit DEF CapacityKnown
  <2>. QED
    BY <1>2, <2>1, <2>2, CreateSection DEF BaseInv
<1>3. ASSUME NEW p \in Request, pc'[p] = "createChecked"
      PROVE  RoomChecked(p)'
  <2>1. RoomChecked(p) /\ local'[p] = local[p] /\ pc[p] \in {"createLocked", "createChecked"}
    BY <1>3, CreateSection, CheckEstablishesRoom, CheckedInvSplit DEF BaseInv
  <2>2. CASE UNCHANGED <<req, tables>>
    BY <2>1, <2>2 DEF RoomChecked, OnlineCounted, Counts, Present, tables
  <2>3. ASSUME NEW q \in Request, WriteStep(q)
        PROVE  RoomChecked(p)'
    <3>1. p # q
      BY <1>3, <2>3, WriteAnswers DEF BaseInv
    <3>. QED
      BY <2>1, <2>3, <3>1, OthersLeaveRoom
  <2>. QED
    BY <2>2, <2>3, StepKinds
<1>. QED
  BY <1>2, <1>3 DEF CheckedInv, CapacityKnown, RoomChecked

\* No step takes a place of an activity beyond its capacity.
LEMMA CapacityStep ==
  ASSUME BaseInv, CheckedInv, [Next]_vars, NEW a \in Activity, WithinCapacity(a)
  PROVE  WithinCapacity(a)'
<1>1. req' = req /\ activity' = activity
  BY StepKinds, WriteEffect DEF tables
<1>. SUFFICES ASSUME activity[a].capacity > 0
              PROVE  Cardinality(OnlineCounted(a)') <= activity[a].capacity
  BY <1>1 DEF WithinCapacity
<1>2. /\ Cardinality(OnlineCounted(a)) <= activity[a].capacity
      /\ activity[a].capacity \in Nat
      /\ IsFiniteSet(OnlineCounted(a)) /\ Cardinality(OnlineCounted(a)) \in Nat
  BY OnlineCountedFinite DEF WithinCapacity, BaseInv, TypeOK, ActivityRow
<1>3. CASE OnlineCounted(a)' \subseteq OnlineCounted(a)
  <2>1. /\ Cardinality(OnlineCounted(a)') <= Cardinality(OnlineCounted(a))
        /\ Cardinality(OnlineCounted(a)') \in Nat
    BY <1>2, <1>3, FS_Subset, FS_CardinalityType
  <2>. QED
    BY <1>2, <2>1
<1>4. ASSUME NEW q \in Request, SignUpStep(q), req[q].act = a,
             OnlineCounted(a)' \subseteq OnlineCounted(a) \cup {q}
      PROVE  Cardinality(OnlineCounted(a)') <= activity[a].capacity
  <2>1. pc[q] = "createChecked"
    BY <1>4 DEF SignUpStep, CreateCommit, At
  <2>2. Cardinality(OnlineCounted(a)) < activity[a].capacity
    BY <1>4, <2>1 DEF CheckedInv
  <2>3. /\ IsFiniteSet(OnlineCounted(a) \cup {q})
        /\ Cardinality(OnlineCounted(a) \cup {q}) <= Cardinality(OnlineCounted(a)) + 1
        /\ Cardinality(OnlineCounted(a) \cup {q}) \in Nat
    <3>1. /\ IsFiniteSet(OnlineCounted(a) \cup {q})
          /\ \/ Cardinality(OnlineCounted(a) \cup {q}) = Cardinality(OnlineCounted(a))
             \/ Cardinality(OnlineCounted(a) \cup {q}) = Cardinality(OnlineCounted(a)) + 1
      BY <1>2, FS_AddElement
    <3>. QED
      BY <1>2, <3>1
  <2>4. /\ Cardinality(OnlineCounted(a)') <= Cardinality(OnlineCounted(a) \cup {q})
        /\ Cardinality(OnlineCounted(a)') \in Nat
    BY <1>4, <2>3, FS_Subset, FS_CardinalityType
  <2>. QED
    BY <1>2, <2>2, <2>3, <2>4
<1>5. CASE UNCHANGED <<req, tables>>
  <2>1. OnlineCounted(a)' = OnlineCounted(a)
    BY <1>5 DEF tables, OnlineCounted, Counts
  <2>. QED
    BY <1>3, <2>1
<1>6. ASSUME NEW q \in Request, WriteStep(q)
      PROVE  Cardinality(OnlineCounted(a)') <= activity[a].capacity
  BY <1>3, <1>4, <1>6, OnlineGrowth DEF BaseInv
<1>. QED
  BY <1>5, <1>6, StepKinds

LEMMA OneSignupStep ==
  ASSUME BaseInv, CheckedInv, OneSignupPerUser, [Next]_vars
  PROVE  OneSignupPerUser'
<1>1. CASE UNCHANGED <<req, tables>>
  BY <1>1 DEF OneSignupPerUser, Present, tables
<1>2. ASSUME NEW q \in Request, WriteStep(q)
      PROVE  OneSignupPerUser'
  <2>1. req' = req
    BY <1>2, WriteEffect
  <2>. SUFFICES ASSUME NEW r \in Request, NEW s \in Request,
                       registration'[r].status # "absent", req[r].op = "create",
                       registration'[s].status # "absent", req[s].op = "create",
                       req[r].act = req[s].act, req[r].by = req[s].by
                PROVE  r = s
    BY <2>1 DEF OneSignupPerUser, Present
  <2>2. CASE Present(r) /\ Present(s)
    BY <2>2 DEF OneSignupPerUser
  <2>3. ASSUME ~Present(r), Present(s)
        PROVE  FALSE
    <3>1. r = q /\ SignUpStep(q)
      BY <1>2, <2>3, OnlineRows DEF BaseInv
    <3>. QED
      BY <2>3, <3>1 DEF CheckedInv, SignUpStep, CreateCommit, At
  <2>4. ASSUME ~Present(s), Present(r)
        PROVE  FALSE
    <3>1. s = q /\ SignUpStep(q)
      BY <1>2, <2>4, OnlineRows DEF BaseInv
    <3>. QED
      BY <2>4, <3>1 DEF CheckedInv, SignUpStep, CreateCommit, At
  <2>5. CASE ~Present(r) /\ ~Present(s)
    BY <1>2, <2>5, OnlineRows DEF BaseInv
  <2>. QED
    BY <2>2, <2>3, <2>4, <2>5
<1>. QED
  BY <1>1, <1>2, StepKinds

(***************************************************************************)
(* The targets of cancellations and check-ins.                             *)
(***************************************************************************)

LEMMA InitTargetInv == Init => TargetInv
BY DEF Init, TargetInv

LEMMA TargetStep ==
  ASSUME TypeOK, TargetInv, [Next]_vars
  PROVE  TargetInv'
<1>. DEFINE OwnerOk(p) == req[p].by \in Admin \/ req[p].by = req[req[p].reg].by
            ActivityOk(p) == req[req[p].reg].act = req[p].act
            ManagerOk(p) == CanManage(req[p].by, req[req[p].reg].act)
<1>. SUFFICES ASSUME NEW p \in Request
              PROVE  /\ pc'[p] = "cancelRead" => OwnerOk(p)
                     /\ pc'[p] = "reviewAllowed" => ManagerOk(p)
                     /\ pc'[p] \in {"checkinFound", "checkinLocked"} => ActivityOk(p)
  <2>1. req' = req
    BY StepKinds, WriteEffect
  <2>. QED
    BY <2>1 DEF TargetInv, CanManage
<1>1. ASSUME NEW q \in Request, Create(q) \/ OfflineCreate(q) \/ Fail(q)
      PROVE  \E label \in {"createLocked", "createChecked", "offlineRead", "offlineCounted",
                           "ok", "refused", "failed"} :
               pc' = [pc EXCEPT ![q] = label]
  BY <1>1 DEF Create, CreateLock, CreateCheck, CreateCommit, OfflineCreate, OfflineRead,
              OfflineCount, OfflineInsert, Fail, Refuse, Answer, Goto
<1>6. ASSUME NEW q \in Request, Review(q)
      PROVE  \E label \in {"reviewLocked", "reviewAllowed", "ok", "refused"} :
               pc' = [pc EXCEPT ![q] = label] /\ (label = "reviewAllowed" => ManagerOk(q))
  BY <1>6 DEF Review, ReviewLock, ReviewRead, ReviewCommit, Refuse, Answer, Goto
<1>2. ASSUME NEW q \in Request, Cancel(q)
      PROVE  \E label \in {"cancelRead", "ok", "refused"} :
               pc' = [pc EXCEPT ![q] = label] /\ (label = "cancelRead" => OwnerOk(q))
  BY <1>2 DEF Cancel, CancelRead, CancelSave, Refuse, Answer, Goto
<1>3. ASSUME NEW q \in Request, CheckIn(q)
      PROVE  \E label \in {"checkinFound", "checkinLocked", "ok", "refused"} :
               /\ pc' = [pc EXCEPT ![q] = label]
               /\ label = "checkinFound" => ActivityOk(q)
               /\ label = "checkinLocked" => pc[q] = "checkinFound"
  BY <1>3 DEF CheckIn, CheckInFind, CheckInLock, CheckInCommit, Refuse, Answer, Goto, At
<1>4. CASE pc' = pc
  BY <1>4 DEF TargetInv
<1>5. ASSUME NEW q \in Request, Handle(q) \/ Fail(q)
      PROVE  /\ pc'[p] = "cancelRead" => OwnerOk(p)
             /\ pc'[p] = "reviewAllowed" => ManagerOk(p)
             /\ pc'[p] \in {"checkinFound", "checkinLocked"} => ActivityOk(p)
  <2>1. CASE p # q
    <3>1. pc'[p] = pc[p]
      BY <1>1, <1>2, <1>3, <1>5, <1>6, <2>1 DEF Handle, TypeOK
    <3>. QED
      BY <3>1 DEF TargetInv
  <2>2. CASE p = q
    BY <1>1, <1>2, <1>3, <1>5, <1>6, <2>2 DEF Handle, TypeOK, TargetInv
  <2>. QED
    BY <2>1, <2>2
<1>. QED
  BY <1>4, <1>5 DEF Next, DeadlinePasses, Finished, vars

(***************************************************************************)
(* The inductive invariant and what follows from it.                       *)
(***************************************************************************)

LEMMA InductiveInit == Init => Inductive
BY InitType, InitLockInv, InitRowInv, InitTargetInv, InitCheckInInv, InitSignupInv
   DEF Inductive, SignupInv, CheckInInv

LEMMA InductiveStep == Inductive /\ [Next]_vars => Inductive'
<1>. SUFFICES ASSUME Inductive, [Next]_vars
              PROVE  Inductive'
  OBVIOUS
<1>1. TypeOK' /\ LockInv' /\ RowInv' /\ TargetInv'
  BY TypeStep, LockStep, RowStep, TargetStep DEF Inductive
<1>2. CheckInInv'
  BY CheckInInvStep DEF Inductive, CheckInInv
<1>3. CheckedInv' /\ OnlineWithinCapacity' /\ OneSignupPerUser'
  BY CheckedInvStep, CapacityStep, OneSignupStep DEF Inductive, BaseInv, OnlineWithinCapacity
<1>. QED
  BY <1>1, <1>2, <1>3 DEF Inductive, CheckInInv

\* Inductive holds in every reachable state.
THEOREM InductiveCorrect == Spec => []Inductive
BY InductiveInit, InductiveStep, PTL DEF Spec

\* However many requests run concurrently, and whatever cancellations, reviews,
\* check-ins and offline entries do, online signups never exceed the capacity.
THEOREM QuotaKept == Spec => []OnlineWithinCapacity
<1>1. Inductive => OnlineWithinCapacity
  BY DEF Inductive
<1>. QED
  BY <1>1, InductiveCorrect, PTL

\* No user ever holds two online registrations for the same activity, in the
\* schema without the unique index as well.
THEOREM NoDuplicateSignup == Spec => []OneSignupPerUser
<1>1. Inductive => OneSignupPerUser
  BY DEF Inductive
<1>. QED
  BY <1>1, InductiveCorrect, PTL

(***************************************************************************)
(* Signup implements SignupPromise.                                        *)
(***************************************************************************)

LEMMA SignUpRefines ==
  ASSUME TypeOK, RowInv, CheckedInv, NEW q \in Request, SignUpStep(q)
  PROVE  Promise!SignUp(q)
<1>1. /\ req[q].op = "create" /\ pc[q] = "createChecked"
      /\ registration' = [registration EXCEPT ![q] = [status |-> "registered", review |-> "pending"]]
      /\ notified' = notified \cup {q}
      /\ UNCHANGED <<req, activity, checkIn>>
  BY DEF SignUpStep, CreateCommit, At, Insert, Answer
<1>2. registration[q].status = "absent"
  BY <1>1 DEF RowInv, Present
<1>3. PICK a \in Activity : a = req[q].act
  BY RequestFields DEF TypeOK
<1>4. Promise!TakingPlace(a) = OnlineCounted(a)
  BY DEF Promise!TakingPlace, Promise!Online, OnlineCounted, Counts
<1>5. /\ local[q].capacity = activity[a].capacity /\ activity[a].status = "published"
      /\ local[q].capacity > 0 => Cardinality(OnlineCounted(a)) < local[q].capacity
      /\ \A r \in Promise!Online(a) : req[r].by # req[q].by
  BY <1>1, <1>3 DEF CheckedInv, Promise!Online, Present
<1>6. activity[a].capacity > 0 => Cardinality(Promise!TakingPlace(a)) < activity[a].capacity
  BY <1>4, <1>5
<1>7. activity[a].capacity > 0
        => Promise!Cardinality(Promise!TakingPlace(a)) < activity[a].capacity
  <2>1. ASSUME NEW S PROVE Promise!Cardinality(S) = Cardinality(S)
    BY DEF Promise!Cardinality, Cardinality
  <2>. QED
    BY <1>6, <2>1
<1>. QED
  BY <1>1, <1>2, <1>3, <1>5, <1>7 DEF Promise!SignUp

\* Every write is a step of SignupPromise.  The quota is not needed for it.
LEMMA WriteRefines ==
  ASSUME TypeOK, RowInv, TargetInv, CheckedInv, NEW q \in Request, WriteStep(q)
  PROVE  Promise!Next
<1>1. CASE SignUpStep(q)
  BY <1>1, SignUpRefines DEF Promise!Next
<1>2. CASE OfflineStep(q)
  <2>1. registration[q].status = "absent"
    BY <1>2 DEF OfflineStep, OfflineInsert, At, RowInv, Present
  <2>2. Promise!EnterOffline(q)
    BY <1>2, <2>1 DEF Promise!EnterOffline, OfflineStep, OfflineInsert, At, Insert, Answer, locks
  <2>. QED
    BY <2>2 DEF Promise!Next
<1>3. CASE CancelSave(q)
  <2>1. Present(req[q].reg) /\ local[q].review \in {"pending", "approved", "rejected"}
    BY <1>3 DEF CancelSave, At, RowInv, TypeOK, ReviewStatus
  <2>2. req[q].by \in Admin \/ req[q].by = req[req[q].reg].by
    BY <1>3 DEF CancelSave, At, TargetInv
  <2>3. Promise!CancelRegistration(q)
    BY <1>3, <2>1, <2>2 DEF Promise!CancelRegistration, CancelSave, At, Present, Answer
  <2>. QED
    BY <2>3 DEF Promise!Next
<1>4. CASE ReviewStep(q)
  <2>1. /\ req[q].op = "review" /\ pc[q] = "reviewAllowed"
        /\ registration' = [registration EXCEPT ![req[q].reg].review = req[q].decision]
        /\ notified' = notified \cup {q}
        /\ UNCHANGED <<req, activity, checkIn>>
    BY <1>4 DEF ReviewStep, ReviewCommit, At, Answer
  <2>2. q \notin notified
    BY <2>1 DEF RowInv
  <2>3. /\ req[q].by \in Admin \/ req[q].by = OrganizerOf[req[req[q].reg].act]
        /\ registration[req[q].reg].review = "pending"
        /\ registration[req[q].reg].status # "checked_in"
    BY <1>4, <2>1 DEF ReviewStep, Reviewable, TargetInv, CanManage
  <2>4. registration[req[q].reg].status \in {"registered", "cancelled"}
    <3>1. Present(req[q].reg)
      BY <2>1 DEF RowInv
    <3>2. registration[req[q].reg].status \in RegistrationStatus
      BY RequestFields DEF TypeOK, RegistrationRow
    <3>. QED
      BY <2>3, <3>1, <3>2 DEF Present, RegistrationStatus
  <2>5. Promise!Decide(q)
    BY <2>1, <2>2, <2>3, <2>4 DEF Promise!Decide
  <2>. QED
    BY <2>5 DEF Promise!Next
<1>5. CASE CheckInStep(q)
  <2>1. /\ req[q].op = "checkin" /\ pc[q] = "checkinLocked"
        /\ registration[req[q].reg] = [status |-> "registered", review |-> "approved"]
        /\ checkIn' = checkIn \cup {q}
        /\ registration' = [registration EXCEPT ![req[q].reg].status = "checked_in"]
        /\ notified' = notified \cup {q}
        /\ UNCHANGED <<req, activity>>
    BY <1>5 DEF CheckInStep, CheckInCommit, CanCheckIn, At, Answer
  <2>2. q \notin checkIn /\ req[req[q].reg].act = req[q].act
    BY <2>1 DEF RowInv, TargetInv
  <2>3. Promise!Attend(q)
    BY <2>1, <2>2 DEF Promise!Attend
  <2>. QED
    BY <2>3 DEF Promise!Next
<1>. QED
  BY <1>1, <1>2, <1>3, <1>4, <1>5 DEF WriteStep

\* Every behaviour of the handlers is one of the atomic registration desk: each
\* statement is a step of SignupPromise or changes none of its variables.
THEOREM SignupImplementsPromise == Spec => ImplementsPromise
<1>1. Init => Promise!Init
  BY DEF Init, Promise!Init
<1>2. Inductive /\ [Next]_vars => [Promise!Next]_(Promise!vars)
  BY StepKinds, WriteRefines DEF Inductive, Promise!vars, tables
<1>. QED
  BY <1>1, <1>2, InductiveCorrect, PTL DEF Spec, ImplementsPromise, Promise!Spec
(***************************************************************************)
(* SignupPromise is worth implementing: its steps alone keep the quota,    *)
(* the one signup of a user and the one check-in of a registration.        *)
(***************************************************************************)

LEMMA PromiseRows == Promise!RowsOK /\ [Promise!Next]_(Promise!vars) => Promise!RowsOK'
<1>. SUFFICES ASSUME Promise!RowsOK, [Promise!Next]_(Promise!vars) PROVE Promise!RowsOK'
  OBVIOUS
<1>. USE DEF Promise!RowsOK
<1>1. ASSUME NEW q \in Request
      PROVE  req[q].reg \in Request /\ req[q].decision \in {"approved", "rejected"}
  BY RequestFields
<1>2. ASSUME NEW q \in Request, Promise!SignUp(q) PROVE Promise!RowsOK'
  BY <1>2 DEF Promise!SignUp
<1>3. ASSUME NEW q \in Request, Promise!EnterOffline(q) PROVE Promise!RowsOK'
  BY <1>3 DEF Promise!EnterOffline
<1>4. ASSUME NEW q \in Request, Promise!CancelRegistration(q) PROVE Promise!RowsOK'
  BY <1>1, <1>4 DEF Promise!CancelRegistration
<1>5. ASSUME NEW q \in Request, Promise!Decide(q) PROVE Promise!RowsOK'
  BY <1>1, <1>5 DEF Promise!Decide
<1>6. ASSUME NEW q \in Request, Promise!Attend(q) PROVE Promise!RowsOK'
  BY <1>1, <1>6 DEF Promise!Attend
<1>. QED
  BY <1>2, <1>3, <1>4, <1>5, <1>6 DEF Promise!Next, Promise!vars

\* The quota of the promise is that of the handlers.
LEMMA PromisedQuota == Promise!QuotaKept <=> OnlineWithinCapacity
<1>1. ASSUME NEW a PROVE Promise!TakingPlace(a) = OnlineCounted(a)
  BY DEF Promise!TakingPlace, Promise!Online, OnlineCounted, Counts
<1>2. ASSUME NEW S PROVE Promise!Cardinality(S) = Cardinality(S)
  BY DEF Promise!Cardinality, Cardinality
<1>. QED
  BY <1>1, <1>2 DEF Promise!QuotaKept, OnlineWithinCapacity, WithinCapacity

\* A row that a step of the promise changes was absent and is inserted by a
\* signup or an offline entry, or is decided, attended or cancelled.
LEMMA PromiseEffect ==
  ASSUME Promise!RowsOK, NEW q \in Request, NEW r \in Request,
         \/ Promise!SignUp(q) \/ Promise!EnterOffline(q) \/ Promise!CancelRegistration(q)
         \/ Promise!Decide(q) \/ Promise!Attend(q)
  PROVE  /\ req' = req /\ activity' = activity
         /\ \/ registration'[r] = registration[r]
            \/ /\ r = q /\ registration[r].status = "absent"
               /\ Promise!SignUp(q) \/ (Promise!EnterOffline(q) /\ req[q].op = "offline")
               /\ registration'[r].status = "registered"
            \/ Promise!CancelRegistration(q) /\ registration[r].status # "absent"
               /\ registration'[r].status = "cancelled"
            \/ /\ Promise!Decide(q) /\ registration[r].review = "pending"
               /\ registration[r].status \in {"registered", "cancelled"}
               /\ registration'[r].status = registration[r].status
            \/ /\ Promise!Attend(q) /\ r = req[q].reg
               /\ registration[r] = [status |-> "registered", review |-> "approved"]
               /\ registration'[r] = [status |-> "checked_in", review |-> "approved"]
<1>. USE DEF Promise!RowsOK
<1>1. req[q].reg \in Request /\ registration[r] \in [status : {"absent", "registered", "cancelled", "checked_in"},
                                                     review : {"pending", "approved", "rejected"}]
  BY RequestFields
<1>2. CASE Promise!SignUp(q)
  <2>1. /\ registration[q].status = "absent" /\ req' = req /\ activity' = activity
        /\ registration'[r] = IF r = q THEN [status |-> "registered", review |-> "pending"]
                                     ELSE registration[r]
    BY <1>2 DEF Promise!SignUp
  <2>. QED
    BY <1>2, <2>1
<1>3. CASE Promise!EnterOffline(q)
  <2>1. /\ registration[q].status = "absent" /\ req' = req /\ activity' = activity
        /\ req[q].op = "offline"
        /\ registration'[r] = IF r = q THEN [status |-> "registered", review |-> "approved"]
                                     ELSE registration[r]
    BY <1>3 DEF Promise!EnterOffline
  <2>. QED
    BY <1>3, <2>1
<1>4. CASE Promise!CancelRegistration(q)
  <2>1. /\ registration[req[q].reg].status # "absent" /\ req' = req /\ activity' = activity
        /\ r = req[q].reg => registration'[r].status = "cancelled"
        /\ r # req[q].reg => registration'[r] = registration[r]
    BY <1>1, <1>4 DEF Promise!CancelRegistration
  <2>. QED
    BY <1>4, <2>1
<1>5. CASE Promise!Decide(q)
  BY <1>1, <1>5 DEF Promise!Decide
<1>6. CASE Promise!Attend(q)
  BY <1>1, <1>6 DEF Promise!Attend
<1>. QED
  BY <1>2, <1>3, <1>4, <1>5, <1>6

LEMMA PromisedQuotaStep ==
  ASSUME Promise!RowsOK, OnlineWithinCapacity, [Promise!Next]_(Promise!vars)
  PROVE  OnlineWithinCapacity'
<1>. SUFFICES ASSUME NEW a \in Activity, activity'[a].capacity > 0
              PROVE  Cardinality(OnlineCounted(a)') <= activity'[a].capacity
  BY DEF OnlineWithinCapacity, WithinCapacity
<1>1. CASE UNCHANGED Promise!vars
  <2>1. OnlineCounted(a)' = OnlineCounted(a) /\ activity' = activity
    BY <1>1 DEF Promise!vars, OnlineCounted, Counts
  <2>. QED
    BY <2>1 DEF OnlineWithinCapacity, WithinCapacity
<1>2. ASSUME NEW q \in Request,
             \/ Promise!SignUp(q) \/ Promise!EnterOffline(q) \/ Promise!CancelRegistration(q)
             \/ Promise!Decide(q) \/ Promise!Attend(q)
      PROVE  Cardinality(OnlineCounted(a)') <= activity'[a].capacity
  <2>1. req' = req /\ activity' = activity
    BY <1>2, PromiseEffect
  <2>2. /\ activity[a].capacity \in Nat
        /\ IsFiniteSet(OnlineCounted(a)) /\ Cardinality(OnlineCounted(a)) \in Nat
        /\ Cardinality(OnlineCounted(a)) <= activity[a].capacity
    <3>1. activity[a].capacity \in Nat
      BY SignupAssumption DEF Promise!RowsOK, ActivityRow
    <3>. QED
      BY <2>1, <3>1, OnlineCountedFinite DEF OnlineWithinCapacity, WithinCapacity
  <2>3. /\ OnlineCounted(a)' \subseteq OnlineCounted(a) \cup {q}
        /\ ~(Promise!SignUp(q) /\ req[q].act = a) => OnlineCounted(a)' \subseteq OnlineCounted(a)
    <3>. SUFFICES ASSUME NEW r \in OnlineCounted(a)'
                  PROVE  r \in OnlineCounted(a) \/ (r = q /\ Promise!SignUp(q) /\ req[q].act = a)
      OBVIOUS
    <3>1. /\ r \in Request /\ req[r].op = "create" /\ req[r].act = a
          /\ registration'[r].status \notin {"absent", "cancelled"}
          /\ registration'[r].review # "rejected"
      BY <2>1 DEF OnlineCounted, Counts
    <3>. QED
      BY <1>2, <3>1, PromiseEffect DEF OnlineCounted, Counts
  <2>4. CASE OnlineCounted(a)' \subseteq OnlineCounted(a)
    <3>1. /\ Cardinality(OnlineCounted(a)') <= Cardinality(OnlineCounted(a))
          /\ Cardinality(OnlineCounted(a)') \in Nat
      BY <2>2, <2>4, FS_Subset, FS_CardinalityType
    <3>. QED
      BY <2>1, <2>2, <3>1
  <2>5. CASE Promise!SignUp(q) /\ req[q].act = a
    <3>1. Promise!TakingPlace(a) = OnlineCounted(a)
      BY DEF Promise!TakingPlace, Promise!Online, OnlineCounted, Counts
    <3>2. Promise!Cardinality(OnlineCounted(a)) = Cardinality(OnlineCounted(a))
      BY DEF Promise!Cardinality, Cardinality
    <3>3. Cardinality(OnlineCounted(a)) < activity[a].capacity
      BY <2>1, <2>5, <3>1, <3>2 DEF Promise!SignUp
    <3>4. /\ IsFiniteSet(OnlineCounted(a) \cup {q})
          /\ \/ Cardinality(OnlineCounted(a) \cup {q}) = Cardinality(OnlineCounted(a))
             \/ Cardinality(OnlineCounted(a) \cup {q}) = Cardinality(OnlineCounted(a)) + 1
      BY <2>2, FS_AddElement
    <3>5. /\ Cardinality(OnlineCounted(a)') <= Cardinality(OnlineCounted(a) \cup {q})
          /\ Cardinality(OnlineCounted(a)') \in Nat
      BY <2>3, <3>4, FS_Subset, FS_CardinalityType
    <3>. QED
      BY <2>1, <2>2, <3>3, <3>4, <3>5
  <2>. QED
    BY <2>3, <2>4, <2>5
<1>. QED
  BY <1>1, <1>2 DEF Promise!Next

LEMMA PromisedSignupStep ==
  ASSUME Promise!RowsOK, Promise!OneSignup, [Promise!Next]_(Promise!vars)
  PROVE  Promise!OneSignup'
<1>1. CASE UNCHANGED Promise!vars
  BY <1>1 DEF Promise!vars, Promise!OneSignup, Promise!Online
<1>2. ASSUME NEW q \in Request,
             \/ Promise!SignUp(q) \/ Promise!EnterOffline(q) \/ Promise!CancelRegistration(q)
             \/ Promise!Decide(q) \/ Promise!Attend(q)
      PROVE  Promise!OneSignup'
  <2>. SUFFICES ASSUME NEW a \in Activity, NEW r \in Promise!Online(a)', NEW s \in Promise!Online(a)',
                       req'[r].by = req'[s].by
                PROVE  r = s
    BY DEF Promise!OneSignup
  <2>1. req' = req
    BY <1>2, PromiseEffect
  <2>2. ASSUME NEW t \in Promise!Online(a)'
        PROVE  t \in Promise!Online(a) \/ (t = q /\ Promise!SignUp(q) /\ req[q].act = a)
    <3>1. t \in Request /\ req[t].op = "create" /\ req[t].act = a /\ registration'[t].status # "absent"
      BY <2>1, <2>2 DEF Promise!Online
    <3>. QED
      BY <1>2, <3>1, PromiseEffect DEF Promise!Online
  <2>3. Promise!SignUp(q) /\ req[q].act = a => \A t \in Promise!Online(a) : req[t].by # req[q].by
    BY DEF Promise!SignUp
  <2>. QED
    BY <2>1, <2>2, <2>3 DEF Promise!OneSignup
<1>. QED
  BY <1>1, <1>2 DEF Promise!Next

LEMMA PromisedAttendanceStep ==
  ASSUME Promise!RowsOK, Promise!OneAttendance, [Promise!Next]_(Promise!vars)
  PROVE  Promise!OneAttendance'
<1>1. CASE UNCHANGED Promise!vars
  BY <1>1 DEF Promise!vars, Promise!OneAttendance
<1>2. ASSUME NEW q \in Request, Promise!Attend(q)
      PROVE  Promise!OneAttendance'
  <2>1. /\ req[q].reg \in Request /\ req' = req /\ checkIn' = checkIn \cup {q}
        /\ registration[req[q].reg] = [status |-> "registered", review |-> "approved"]
        /\ registration' = [registration EXCEPT ![req[q].reg].status = "checked_in"]
    BY <1>2, RequestFields DEF Promise!Attend, Promise!RowsOK
  <2>2. \A p \in checkIn : req[p].reg # req[q].reg
    BY <2>1 DEF Promise!OneAttendance
  <2>3. \A p \in checkIn' : req[p].reg \in Request
    BY <2>1, RequestFields DEF Promise!RowsOK
  <2>4. /\ registration'[req[q].reg] = [status |-> "checked_in", review |-> "approved"]
        /\ \A r \in Request \ {req[q].reg} : registration'[r] = registration[r]
    BY <2>1 DEF Promise!RowsOK
  <2>5. \A p, t \in checkIn' : req[p].reg = req[t].reg => p = t
    BY <2>1, <2>2 DEF Promise!OneAttendance
  <2>6. \A p \in checkIn' : registration'[req[p].reg].status \in {"checked_in", "cancelled"}
    BY <2>1, <2>3, <2>4 DEF Promise!OneAttendance
  <2>7. \A r \in Request : registration'[r].status = "checked_in" =>
          registration'[r].review = "approved" /\ \E p \in checkIn' : req[p].reg = r
    BY <2>1, <2>4 DEF Promise!OneAttendance
  <2>. QED
    BY <2>1, <2>5, <2>6, <2>7 DEF Promise!OneAttendance
<1>3. ASSUME NEW q \in Request,
             \/ Promise!SignUp(q) \/ Promise!EnterOffline(q) \/ Promise!CancelRegistration(q)
             \/ Promise!Decide(q)
      PROVE  Promise!OneAttendance'
  <2>1. checkIn' = checkIn /\ req' = req
    BY <1>3 DEF Promise!SignUp, Promise!EnterOffline, Promise!CancelRegistration, Promise!Decide
  <2>2. \A p \in checkIn : req[p].reg \in Request
    BY RequestFields DEF Promise!RowsOK
  <2>3. \A r \in Request :
          \/ registration'[r] = registration[r]
          \/ registration[r].status = "absent" /\ registration'[r].status = "registered"
          \/ registration'[r].status = "cancelled"
          \/ registration'[r].status = registration[r].status /\ registration[r].status # "checked_in"
    <3>1. ~Promise!Attend(q) \/ checkIn' = checkIn \cup {q}
      BY DEF Promise!Attend
    <3>2. Promise!Attend(q) => q \notin checkIn
      BY DEF Promise!Attend
    <3>. QED
      BY <1>3, <2>1, <3>1, <3>2, PromiseEffect
  <2>. QED
    BY <2>1, <2>2, <2>3 DEF Promise!OneAttendance
<1>. QED
  BY <1>1, <1>2, <1>3 DEF Promise!Next

\* Every behaviour of the atomic desk keeps the quota, one signup per user and
\* activity, and one check-in per registration: that a handler implements the
\* promise is all that the rest of the system needs to know of it.
THEOREM PromiseSuffices == Promise!Spec => [](Promise!Guarantee)
<1>1. Promise!Init => Promise!Guarantee
  <2>. SUFFICES ASSUME Promise!Init PROVE Promise!Guarantee
    OBVIOUS
  <2>1. registration = [r \in Request |-> [status |-> "absent", review |-> "pending"]] /\ checkIn = {}
    BY DEF Promise!Init
  <2>2. Promise!RowsOK
    BY <2>1 DEF Promise!Init, Promise!RowsOK
  <2>3. OnlineWithinCapacity
    <3>1. ASSUME NEW a \in Activity PROVE OnlineCounted(a) = {} /\ activity[a].capacity \in Nat
      BY <2>1, <2>2, SignupAssumption DEF OnlineCounted, Counts, Promise!RowsOK, ActivityRow
    <3>2. Cardinality({}) = 0
      BY FS_EmptySet
    <3>3. ASSUME NEW a \in Activity PROVE WithinCapacity(a)
      BY <3>1, <3>2 DEF WithinCapacity
    <3>. QED
      BY <3>3 DEF OnlineWithinCapacity
  <2>4. Promise!OneSignup /\ Promise!OneAttendance
    BY <2>1 DEF Promise!OneSignup, Promise!Online, Promise!OneAttendance
  <2>. QED
    BY <2>2, <2>3, <2>4, PromisedQuota DEF Promise!Guarantee
<1>2. Promise!QuotaKept' <=> OnlineWithinCapacity'
  BY PromisedQuota, PTL
<1>3. Promise!Guarantee /\ [Promise!Next]_(Promise!vars) => Promise!Guarantee'
  BY <1>2, PromisedQuota, PromiseRows, PromisedQuotaStep, PromisedSignupStep, PromisedAttendanceStep
     DEF Promise!Guarantee
<1>. QED
  BY <1>1, <1>3, PTL DEF Promise!Spec

\* In particular no step of the desk takes a cancellation or a rejection back.
THEOREM PromiseGivesUpForGood == Promise!Spec => Promise!GivenUpForGood
<1>1. ASSUME Promise!Guarantee, Promise!Next
      PROVE  \A r \in Request :
               /\ registration[r].status = "cancelled" => registration'[r].status = "cancelled"
               /\ registration[r].status # "absent" /\ registration[r].review = "rejected" =>
                    registration'[r].status = "cancelled" \/ registration'[r].review = "rejected"
  <2>. SUFFICES ASSUME NEW r \in Request
                PROVE  /\ registration[r].status = "cancelled" => registration'[r].status = "cancelled"
                       /\ registration[r].status # "absent" /\ registration[r].review = "rejected" =>
                            registration'[r].status = "cancelled" \/ registration'[r].review = "rejected"
    OBVIOUS
  <2>1. PICK q \in Request :
          \/ Promise!SignUp(q) \/ Promise!EnterOffline(q) \/ Promise!CancelRegistration(q)
          \/ Promise!Decide(q) \/ Promise!Attend(q)
    BY <1>1 DEF Promise!Next
  <2>2. Promise!RowsOK
    BY <1>1 DEF Promise!Guarantee
  <2>. QED
    BY <2>1, <2>2, PromiseEffect
<1>. QED
  BY <1>1, PromiseSuffices, PTL DEF Promise!Spec, Promise!GivenUpForGood
=============================================================================
