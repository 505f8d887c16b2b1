----------------------------- MODULE ListingProofs -----------------------------
(***************************************************************************)
(* Proofs about Listing and Statistics, for every page size, every order   *)
(* of creation times and every set of requests and reports.                *)
(***************************************************************************)
EXTENDS Listing, SignupProofs

(***************************************************************************)
(* The handlers of Signup go on undisturbed by those who read.             *)
(***************************************************************************)

LEMMA ListingRefinesSignup == ListNext => [Next]_vars
BY DEF ListNext, SignupStep, AllDone, Next, Finished

LEMMA ListingStep == [ListNext]_listingVars => [Next]_vars
BY ListingRefinesSignup DEF listingVars, vars

(***************************************************************************)
(* Statistics: every attendant has a registration of his own.              *)
(***************************************************************************)

LEMMA AttendableFinite ==
  ASSUME NEW a, NEW M \in SUBSET Request
  PROVE  /\ IsFiniteSet(Attendable(a)) /\ IsFiniteSet(M)
         /\ IsFiniteSet(Attendable(a) \ M)
         /\ Cardinality(Attendable(a) \ M) \in Nat /\ Cardinality(M) \in Nat
<1>1. Attendable(a) \subseteq Request /\ Attendable(a) \ M \subseteq Request
  BY DEF Attendable, Overwritten
<1> QED
  BY <1>1, FS_Subset, FS_CardinalityType, SignupAssumption

LEMMA RecordsCounted ==
  ASSUME Inductive, NEW a \in Activity, NEW M \in SUBSET Request
  PROVE  Cardinality(Records(a)) <= Cardinality(Attendable(a) \ M) + Cardinality(M)
<1> DEFINE C == Attendable(a) \ M
           f == [q \in Records(a) |-> req[q].reg]
<1>1. IsFiniteSet(C) /\ IsFiniteSet(M)
  BY AttendableFinite
<1>2. \A q \in Records(a) : req[q].reg \in C \cup M
  <2> SUFFICES ASSUME NEW q \in Records(a) PROVE req[q].reg \in Attendable(a)
    OBVIOUS
  <2>1. q \in checkIn /\ q \in Request /\ req[req[q].reg].act = a
    BY DEF Records, Inductive, TypeOK
  <2>2. req[q].reg \in Request
    BY <2>1, RequestFields DEF Inductive, TypeOK
  <2>3. registration[req[q].reg].status \in {"checked_in", "cancelled"}
    BY <2>1 DEF Inductive, CheckInConsistent
  <2>4. CASE registration[req[q].reg].status = "checked_in"
    <3>1. registration[req[q].reg].review = "approved"
      BY <2>2, <2>4 DEF Inductive, CheckInConsistent
    <3> QED
      BY <2>1, <2>2, <2>4, <3>1 DEF Counts, Attendable
  <2>5. CASE registration[req[q].reg].status = "cancelled"
    BY <2>1, <2>2, <2>5 DEF Overwritten, Attendable
  <2> QED
    BY <2>3, <2>4, <2>5
<1>3. f \in Injection(Records(a), C \cup M)
  <2>1. f \in [Records(a) -> C \cup M]
    BY <1>2
  <2>2. Records(a) \subseteq checkIn
    BY DEF Records
  <2>3. ASSUME NEW p \in Records(a), NEW q \in Records(a), f[p] = f[q]
        PROVE  p = q
    BY <2>2, <2>3 DEF Inductive, OneCheckInPerRegistration
  <2> QED
    BY <2>1, <2>3 DEF Injection, IsInjective
<1>4. /\ IsFiniteSet(C \cup M)
      /\ Cardinality(C \cup M) = Cardinality(C) + Cardinality(M) - Cardinality(C \cap M)
      /\ Cardinality(C) \in Nat /\ Cardinality(M) \in Nat /\ Cardinality(C \cap M) \in Nat
  BY <1>1, FS_Union, FS_Subset, FS_CardinalityType
<1>5. /\ IsFiniteSet(Records(a))
      /\ Cardinality(Records(a)) <= Cardinality(C \cup M)
  BY <1>3, <1>4, FS_Injection
<1>6. Cardinality(Records(a)) \in Nat
  BY <1>5, FS_CardinalityType
<1> QED
  BY <1>4, <1>5, <1>6

(***************************************************************************)
(* Type correctness.                                                       *)
(***************************************************************************)

\* No step takes a notification away.
LEMMA NotifiedGrows ==
  ASSUME [Next]_vars
  PROVE  notified \subseteq notified'
<1>1. CASE UNCHANGED <<req, tables>>
  BY <1>1 DEF tables
<1>2. ASSUME NEW q \in Request, WriteStep(q)
      PROVE  notified \subseteq notified'
  BY <1>2 DEF WriteStep, SignUpStep, OfflineStep, ReviewStep, CheckInStep, CreateCommit,
              OfflineInsert, CancelSave, ReviewCommit, CheckInCommit, Refuse, Answer
<1> QED
  BY <1>1, <1>2, StepKinds

LEMMA RequestsFixed ==
  ASSUME [Next]_vars
  PROVE  req' = req
BY StepKinds, WriteEffect

LEMMA RowsFinite ==
  ASSUME NEW p
  PROVE  /\ Rows(p) \subseteq Request /\ IsFiniteSet(Rows(p))
         /\ Cardinality(Rows(p)) \in Nat
<1>1. Rows(p) \subseteq Request
  BY DEF Rows
<1> QED
  BY <1>1, SignupAssumption, FS_Subset, FS_CardinalityType

LEMMA RecordsNumber == ASSUME TypeOK, NEW a PROVE Cardinality(Records(a)) \in Nat
<1>1. Records(a) \subseteq Request
  BY DEF Records, TypeOK
<1> QED
  BY <1>1, SignupAssumption, FS_Subset, FS_CardinalityType

LEMMA RegisteredNumber == ASSUME NEW a PROVE CountRegistered(a) \in Nat
<1>1. IsFiniteSet({r \in Request : req[r].act = a /\ Counts(r)})
  BY SignupAssumption, FS_Subset
<1> QED
  BY <1>1, FS_CardinalityType DEF CountRegistered

LEMMA ReportTypeInit == ListInit => ReportTypeOK
BY DEF ListInit, StatInit, ReportTypeOK

LEMMA ReportTypeStep ==
  ASSUME TypeOK, ReportTypeOK, [ListNext]_listingVars
  PROVE  ReportTypeOK'
<1> USE DEF ReportTypeOK
<1>1. ASSUME NEW p \in Report, Stats(p), UNCHANGED listVars, UNCHANGED vars
      PROVE  ReportTypeOK'
  <2> USE DEF listVars, walkVars, historyVars, vars, Advance, Answered
  <2>1. CASE Find(p)
    BY <1>1, <2>1 DEF Find
  <2>2. CASE CountRegistrations(p)
    <3>1. missed' \in [Report -> SUBSET Request]
      BY <2>2 DEF CountRegistrations, Overwritten
    <3> QED
      BY <1>1, <2>2, <3>1, RegisteredNumber DEF CountRegistrations
  <2>3. CASE CountCheckedIn(p)
    BY <1>1, <2>3, RecordsNumber DEF CountCheckedIn
  <2> QED
    BY <1>1, <2>1, <2>2, <2>3 DEF Stats
<1>2. ASSUME NEW p \in Report, CountRows(p), UNCHANGED vars
      PROVE  ReportTypeOK'
  <2>1. /\ Rows(p) \in SUBSET Request /\ Cardinality(Rows(p)) \in Nat
    BY RowsFinite
  <2> QED
    BY <1>2, <2>1 DEF CountRows, TotalOf, Advance, vars, Answered
<1>3. ASSUME NEW p \in Report, ShowRows(p), UNCHANGED vars
      PROVE  ReportTypeOK'
  <2>1. shown' \in [Report -> SUBSET Request]
    <3>1. PICK s \in Ordered(Rows(p)) : shown' = [shown EXCEPT ![p] = @ \cup PageOf(p, s)]
      BY <1>3 DEF ShowRows
    <3>2. s \in [1..Cardinality(Rows(p)) -> Rows(p)]
      BY <3>1 DEF Ordered, SetToSeqs
    <3>3. PageOf(p, s) \subseteq Request
      BY <3>2, RowsFinite DEF PageOf
    <3> QED
      BY <3>1, <3>3
  <2>2. /\ stage' \in [Report -> {"start", "found", "counted", "turned", "seen"} \cup Answered]
        /\ page' \in [Report -> Nat \ {0}]
    BY <1>3 DEF ShowRows, Advance, Answered
  <2> QED
    BY <1>3, <2>1, <2>2 DEF ShowRows, Advance, vars, historyVars
<1>4. ASSUME NEW p \in Report, MarkRead(p) \/ MarkAllRead(p), UNCHANGED vars
      PROVE  ReportTypeOK'
  BY <1>4 DEF MarkRead, MarkAllRead, ReadByUser, NotificationsOf, Advance, vars, walkVars,
              historyVars, Answered
<1>5. ASSUME NEW p \in Report, FailReport(p), UNCHANGED vars
      PROVE  ReportTypeOK'
  BY <1>5 DEF FailReport, Advance, vars, listVars, walkVars, historyVars, Answered
<1>6. CASE SignupStep
  <2>1. [Next]_vars
    BY <1>6 DEF SignupStep, Next
  <2>2. isRead' \subseteq notified'
    BY <1>6, <2>1, NotifiedGrows DEF SignupStep
  <2>3. steady' \in [Report -> SUBSET Request]
    BY <1>6 DEF SignupStep
  <2>4. left' \in [Report -> BOOLEAN]
    BY <1>6, Zenon DEF SignupStep
  <2>5. late' \in [Report -> BOOLEAN]
    BY <1>6, Zenon DEF SignupStep
  <2>6. missed' \in [Report -> SUBSET Request]
    BY <1>6 DEF SignupStep, Misses
  <2> QED
    BY <1>6, <2>2, <2>3, <2>4, <2>5, <2>6 DEF SignupStep, walkVars
<1>7. CASE UNCHANGED listingVars
  BY <1>7 DEF listingVars, vars, statVars, listVars, walkVars, historyVars
<1>8. CASE AllDone
  BY <1>7, <1>8 DEF AllDone, Finished, listingVars
<1> QED
  BY <1>1, <1>2, <1>3, <1>4, <1>5, <1>6, <1>7, <1>8 DEF ListNext, ReportStep

LEMMA ListingSafe == ListSpec => [](Inductive /\ ReportTypeOK)
<1>1. ListInit => Inductive /\ ReportTypeOK
  BY InductiveInit, ReportTypeInit DEF ListInit
<1>2. Inductive /\ ReportTypeOK /\ [ListNext]_listingVars => (Inductive /\ ReportTypeOK)'
  BY InductiveStep, ListingStep, ReportTypeStep DEF Inductive
<1> QED
  BY <1>1, <1>2, PTL DEF ListSpec

\* Every variable of the readers keeps its type; only notifications that exist
\* are marked as read (notification_repository.go:52).
THEOREM ReportsTyped == ListSpec => []ReportTypeOK
BY ListingSafe, PTL

(***************************************************************************)
(* The two counts of statistics.                                           *)
(***************************************************************************)

\* No step lets a registration have a record that could have none before,
\* except by inserting it.
LEMMA AttendableStep ==
  ASSUME Inductive, [Next]_vars, NEW a, NEW r \in Attendable(a)', r \notin Attendable(a)
  PROVE  r \in Request /\ req[r].act = a /\ ~Present(r) /\ Present(r)'
<1>1. r \in Request /\ req' = req /\ req[r].act = a
  BY RequestsFixed DEF Attendable, Overwritten
<1>2. ~Counts(r) /\ r \notin Overwritten(a)
  BY <1>1 DEF Attendable
<1>3. Counts(r)' \/ r \in Overwritten(a)'
  BY DEF Attendable
<1>4. CASE Counts(r)'
  <2>1. ~Present(r)
    BY <1>1, <1>2, <1>4, ReleasedStep DEF Inductive
  <2> QED
    BY <1>1, <1>4, <2>1 DEF Counts, Present
<1>5. ASSUME r \in Overwritten(a)'
      PROVE  FALSE
  <2>1. PICK q \in checkIn' : req[q].reg = r
    BY <1>1, <1>5 DEF Overwritten
  <2>2. registration'[r].status = "cancelled"
    BY <1>5 DEF Overwritten
  <2>3. CASE q \in checkIn
    <3>1. registration[r].status \in {"checked_in", "cancelled"}
      BY <2>1, <2>3 DEF Inductive, CheckInConsistent
    <3>2. registration[r].status = "checked_in" => Counts(r)
      BY <1>1 DEF Inductive, CheckInConsistent, Counts
    <3> QED
      BY <1>1, <1>2, <2>1, <2>3, <3>1, <3>2 DEF Overwritten
  <2>4. CASE q \notin checkIn
    <3>1. PICK x \in Request : WriteStep(x)
      BY <2>1, <2>4, StepKinds DEF tables
    <3>2. CheckInStep(x) /\ x = q
      BY <2>1, <2>4, <3>1, WriteEffect
    <3>3. registration' = [registration EXCEPT ![r].status = "checked_in"]
      BY <2>1, <3>2 DEF CheckInStep, CheckInCommit, Refuse, Answer
    <3>4. registration \in [Request -> RegistrationRow]
      BY DEF Inductive, TypeOK
    <3>5. registration'[r].status = "checked_in"
      BY <1>1, <3>3, <3>4 DEF RegistrationRow
    <3> QED
      BY <2>2, <3>5
  <2> QED
    BY <2>3, <2>4
<1> QED
  BY <1>1, <1>3, <1>4, <1>5

LEMMA CountStep ==
  ASSUME Inductive, ReportTypeOK, StageInv, CountInv, SkewBounded, [ListNext]_listingVars
  PROVE  CountInv' /\ SkewBounded'
<1> SUFFICES ASSUME NEW x \in Report
             PROVE  /\ Counting(x)' =>
                         Cardinality((Attendable(report[x].act) \ missed[x])') <= registered'[x]
                    /\ report'[x].op = "stats" /\ stage'[x] = "ok" =>
                         checked'[x] <= registered'[x] + Cardinality(missed'[x])
  BY DEF CountInv, SkewBounded
<1> DEFINE a == report[x].act
<1>1. report' = report
  BY DEF ListNext, ReportStep, Stats, Find, CountRegistrations, CountCheckedIn, CountRows,
         ShowRows, MarkRead, MarkAllRead, FailReport, Advance, SignupStep, AllDone, listingVars,
         statVars
<1>2. ASSUME UNCHANGED <<vars, stage[x], registered[x], checked[x], missed[x]>>
      PROVE  /\ Counting(x)' =>
                  Cardinality((Attendable(report[x].act) \ missed[x])') <= registered'[x]
             /\ report'[x].op = "stats" /\ stage'[x] = "ok" =>
                  checked'[x] <= registered'[x] + Cardinality(missed'[x])
  <2>1. (Attendable(report[x].act) \ missed[x])' = Attendable(a) \ missed[x]
    BY <1>1, <1>2 DEF vars, Attendable, Counts, Overwritten
  <2> QED
    BY <1>1, <1>2, <2>1 DEF CountInv, SkewBounded, Counting
<1>3. CASE SignupStep
  <2>1. missed'[x] = missed[x] \cup Misses(x) /\ UNCHANGED <<stage, registered, checked>>
    BY <1>3 DEF SignupStep
  <2>2. ASSUME Counting(x)
        PROVE  Cardinality((Attendable(report[x].act) \ missed[x])') <= registered'[x]
    <3>1. Attendable(a)' \ missed'[x] \subseteq Attendable(a) \ missed[x]
      BY <2>1, <2>2, <1>3, AttendableStep DEF Misses, SignupStep, Next
    <3>2. missed[x] \in SUBSET Request
      BY DEF ReportTypeOK
    <3>3. /\ Cardinality(Attendable(a)' \ missed'[x]) <= Cardinality(Attendable(a) \ missed[x])
          /\ Cardinality(Attendable(a)' \ missed'[x]) \in Nat
      BY <3>1, <3>2, AttendableFinite, FS_Subset, FS_CardinalityType
    <3>4. /\ Cardinality(Attendable(a) \ missed[x]) <= registered[x]
          /\ Cardinality(Attendable(a) \ missed[x]) \in Nat /\ registered[x] \in Nat
      BY <2>2, <3>2, AttendableFinite DEF CountInv, ReportTypeOK
    <3> QED
      BY <1>1, <2>1, <3>3, <3>4
  <2>3. stage[x] = "ok" => missed'[x] = missed[x]
    BY <2>1 DEF Misses, Counting
  <2> QED
    BY <1>1, <2>1, <2>2, <2>3 DEF Counting, SkewBounded
<1>4. ASSUME NEW p \in Report, ReportStep(p), UNCHANGED vars
      PROVE  /\ Counting(x)' =>
                  Cardinality((Attendable(report[x].act) \ missed[x])') <= registered'[x]
             /\ report'[x].op = "stats" /\ stage'[x] = "ok" =>
                  checked'[x] <= registered'[x] + Cardinality(missed'[x])
  <2>1. CASE p # x
    <3>1. UNCHANGED <<stage[x], registered[x], checked[x], missed[x]>>
      BY <1>4, <2>1 DEF ReportStep, Stats, Find, CountRegistrations, CountCheckedIn, CountRows,
            ShowRows, MarkRead, MarkAllRead, FailReport, Advance, ReportTypeOK
    <3> QED
      BY <1>2, <1>4, <3>1
  <2>2. CASE p = x /\ CountRegistrations(x)
    <3>1. /\ Counting(x)' /\ stage'[x] # "ok"
          /\ registered'[x] = CountRegistered(a) /\ missed'[x] = Overwritten(a)
      BY <2>2 DEF CountRegistrations, Advance, ReportTypeOK, Counting
    <3>2. Attendable(a)' = Attendable(a)
      BY <1>1, <1>4 DEF vars, Attendable, Counts, Overwritten
    <3> DEFINE C == {r \in Request : req[r].act = a /\ Counts(r)}
    <3>3. Attendable(a) \ Overwritten(a) \subseteq C
      BY DEF Attendable
    <3>4. IsFiniteSet(C) /\ Cardinality(C) = CountRegistered(a)
      BY SignupAssumption, FS_Subset DEF CountRegistered
    <3>5. Cardinality(Attendable(a) \ Overwritten(a)) <= CountRegistered(a)
      BY <3>3, <3>4, FS_Subset
    <3> QED
      BY <1>1, <3>1, <3>2, <3>5
  <2>3. CASE p = x /\ CountCheckedIn(x)
    <3>1. /\ ~Counting(x)' /\ Counting(x) /\ UNCHANGED <<registered, missed>>
          /\ checked'[x] = Cardinality(Records(a))
      BY <2>3 DEF CountCheckedIn, Advance, ReportTypeOK, Counting
    <3>2. a \in Activity /\ missed[x] \in SUBSET Request
      BY <3>1, StatisticsAssumption DEF Counting, ReportTypeOK
    <3>3. Cardinality(Records(a)) <= Cardinality(Attendable(a) \ missed[x]) + Cardinality(missed[x])
      BY <3>2, RecordsCounted
    <3>4. /\ Cardinality(Attendable(a) \ missed[x]) <= registered[x]
          /\ Cardinality(Attendable(a) \ missed[x]) \in Nat /\ Cardinality(missed[x]) \in Nat
          /\ registered[x] \in Nat /\ Cardinality(Records(a)) \in Nat
      BY <3>1, <3>2, AttendableFinite, RecordsNumber DEF CountInv, ReportTypeOK, Inductive
    <3> QED
      BY <3>1, <3>3, <3>4
  <2>4. CASE p = x /\ ~CountRegistrations(x) /\ ~CountCheckedIn(x)
    <3>1. /\ ~Counting(x)'
          /\ ~(report[x].op = "stats" /\ stage'[x] = "ok")
      BY <1>4, <2>4 DEF ReportStep, Stats, Find, CountRows, ShowRows, MarkRead, MarkAllRead,
            FailReport, Advance, ReportTypeOK, StageInv, IsList, Counting
    <3> QED
      BY <1>1, <3>1
  <2> QED
    BY <2>1, <2>2, <2>3, <2>4
<1>5. CASE UNCHANGED listingVars
  BY <1>2, <1>5 DEF listingVars, statVars
<1>6. CASE AllDone
  BY <1>5, <1>6 DEF AllDone, Finished, listingVars
<1> QED
  BY <1>3, <1>4, <1>5, <1>6 DEF ListNext

(***************************************************************************)
(* A page skips no row that has a younger one for each earlier place.      *)
(***************************************************************************)

\* An ORDER BY of n rows puts each of them at one of the places 1..n.
LEMMA OrderedPlaces ==
  ASSUME NEW p, NEW s \in Ordered(Rows(p))
  PROVE  /\ s \in [1..Cardinality(Rows(p)) -> Rows(p)]
         /\ \A i, j \in 1..Cardinality(Rows(p)) : s[i] = s[j] => i = j
         /\ \A i, j \in 1..Cardinality(Rows(p)) : i < j => created[s[i]] >= created[s[j]]
         /\ \A r \in Rows(p) : \E i \in 1..Cardinality(Rows(p)) : s[i] = r
<1> DEFINE n == Cardinality(Rows(p))
           D == 1..n
<1>1. s \in [D -> Rows(p)] /\ \A i, j \in D : s[i] = s[j] => i = j
  BY DEF Ordered, SetToSeqs
<1>2. \A i, j \in D : i < j => created[s[i]] >= created[s[j]]
  BY <1>1 DEF Ordered
<1>3. n \in Nat /\ IsFiniteSet(Rows(p))
  BY RowsFinite
<1>4. Cardinality(D) = n
  BY <1>3, FS_Interval
<1>5. s \in Injection(D, Rows(p))
  BY <1>1 DEF Injection, IsInjective
<1>6. s \in Surjection(D, Rows(p))
  BY <1>3, <1>4, <1>5, FS_Injection
<1> QED
  BY <1>1, <1>2, <1>6 DEF Surjection

\* The places of the younger rows are as many as these.
LEMMA YoungerPlaces ==
  ASSUME NEW p, NEW s \in Ordered(Rows(p)), NEW r
  PROVE  LET P == {i \in 1..Cardinality(Rows(p)) : created[s[i]] > created[r]} IN
         /\ IsFiniteSet(P) /\ IsFiniteSet(Younger(p, r))
         /\ Cardinality(P) = Cardinality(Younger(p, r)) /\ Cardinality(P) \in Nat
<1> DEFINE D == 1..Cardinality(Rows(p))
           P == {i \in D : created[s[i]] > created[r]}
           f == [i \in P |-> s[i]]
<1>0. /\ s \in [D -> Rows(p)]
      /\ \A i, j \in D : s[i] = s[j] => i = j
      /\ \A x \in Rows(p) : \E i \in D : s[i] = x
  BY OrderedPlaces
<1>1. IsFiniteSet(P)
  <2>1. IsFiniteSet(D)
    BY RowsFinite, FS_Interval
  <2>2. P \in SUBSET D
    OBVIOUS
  <2> QED
    BY <2>1, <2>2, FS_Subset
<1>2. f \in [P -> Younger(p, r)]
  <2>1. \A i \in P : s[i] \in Younger(p, r)
    BY <1>0 DEF Younger
  <2> QED
    BY <2>1
<1>3. f \in Injection(P, Younger(p, r))
  BY <1>0, <1>2 DEF Injection, IsInjective
<1>4. f \in Surjection(P, Younger(p, r))
  <2>1. ASSUME NEW y \in Younger(p, r) PROVE \E i \in P : f[i] = y
    <3>1. PICK i \in D : s[i] = y
      BY <1>0 DEF Younger
    <3>2. i \in P
      BY <3>1 DEF Younger
    <3> QED
      BY <3>1, <3>2
  <2> QED
    BY <1>2, <2>1 DEF Surjection
<1>5. ExistsBijection(P, Younger(p, r))
  BY <1>3, <1>4 DEF ExistsBijection, Bijection
<1> QED
  BY <1>1, <1>5, FS_Bijection, FS_CardinalityType

\* K rows come before the page: when as many are younger than r, and the page
\* has neither r nor another row of its millisecond, so do the whole page's.
LEMMA PageSkipsNone ==
  ASSUME ReportTypeOK, NEW p \in Report, NEW s \in Ordered(Rows(p)), NEW r \in Rows(p),
         NEW K \in Nat, K <= Cardinality(Younger(p, r)),
         \A i \in 1..Cardinality(Rows(p)) :
           i > K /\ i <= K + PageSize => created[s[i]] # created[r]
  PROVE  K + PageSize <= Cardinality(Younger(p, r))
<1> DEFINE n == Cardinality(Rows(p))
           P == {i \in 1..n : created[s[i]] > created[r]}
           m == Cardinality(Younger(p, r))
<1>1. n \in Nat /\ PageSize \in Nat /\ PageSize >= 1
  BY RowsFinite, ListingAssumption
<1>2. \A x \in Rows(p) : created[x] \in Nat
  BY ListingAssumption, RowsFinite DEF ReportTypeOK
<1>3. /\ \A i \in 1..n : s[i] \in Rows(p)
      /\ \A i, j \in 1..n : i < j => created[s[i]] >= created[s[j]]
  <2>1. s \in [1..n -> Rows(p)]
    BY OrderedPlaces
  <2>2. \A i, j \in 1..n : i < j => created[s[i]] >= created[s[j]]
    BY OrderedPlaces
  <2> QED
    BY <2>1, <2>2
<1>4. PICK place \in 1..n : s[place] = r
  BY OrderedPlaces
<1>5. IsFiniteSet(P) /\ Cardinality(P) = m /\ m \in Nat
  BY YoungerPlaces
<1>6. \A i \in P : i < place
  BY <1>2, <1>3, <1>4
<1>7. m <= place - 1
  <2>1. P \subseteq 1..(place - 1)
    BY <1>1, <1>6
  <2>2. IsFiniteSet(1..(place - 1)) /\ Cardinality(1..(place - 1)) = place - 1
    <3>1. place - 1 \in Int /\ place - 1 >= 0
      BY <1>1
    <3> QED
      BY <3>1, FS_Interval
  <2> QED
    BY <1>5, <2>1, <2>2, FS_Subset
<1>8. place > K + PageSize
  BY <1>1, <1>4, <1>5, <1>7
<1>9. created[s[K + PageSize]] > created[r] /\ K + PageSize \in 1..n
  <2>1. K + PageSize \in 1..n /\ K + PageSize > K
    BY <1>1, <1>8
  <2>2. created[s[K + PageSize]] >= created[r] /\ created[s[K + PageSize]] # created[r]
    BY <1>1, <1>3, <1>4, <1>8, <2>1
  <2> QED
    BY <1>2, <1>3, <2>1, <2>2
<1>10. 1..(K + PageSize) \subseteq P
  BY <1>1, <1>2, <1>3, <1>9
<1>11. Cardinality(1..(K + PageSize)) = K + PageSize
  BY <1>1, FS_Interval
<1>12. Cardinality(1..(K + PageSize)) <= Cardinality(P)
  BY <1>5, <1>10, FS_Subset
<1> QED
  BY <1>5, <1>11, <1>12

(***************************************************************************)
(* A client who turns the pages of a whole list.                           *)
(***************************************************************************)

\* What the invariants say of a client depends on his own fields and list.
ClientInv(p) == PlaceInv(p) /\ ShownAll(p)

LEMMA OthersUndisturbed ==
  ASSUME NEW p \in Report, ClientInv(p), Rows(p)' = Rows(p),
         UNCHANGED <<report, created, req>>,
         stage'[p] = stage[p], page'[p] = page[p], total'[p] = total[p], shown'[p] = shown[p],
         steady'[p] = steady[p], left'[p] = left[p], late'[p] = late[p]
  PROVE  ClientInv(p)'
<1>1. \A r : Younger(p, r)' = Younger(p, r)
  BY DEF Younger
<1>2. \A r : Hidden(p, r)' <=> Hidden(p, r)
  BY DEF Hidden
<1>3. Walking(p)' <=> Walking(p)
  BY DEF Walking, IsList
<1>4. PlaceInv(p)'
  BY <1>1, <1>2, <1>3 DEF ClientInv, PlaceInv
<1>5. ShownAll(p)'
  BY DEF ClientInv, ShownAll, Excused, IsList
<1> QED
  BY <1>4, <1>5 DEF ClientInv

\* A list depends on the tables and on what its client asks for.
LEMMA ListUnchanged ==
  ASSUME NEW p, UNCHANGED <<vars, report>>
  PROVE  Rows(p)' = Rows(p)
BY DEF vars, Rows, Matches, Present, NotificationsOf, Addressee

\* The COUNT of a page.
LEMMA CountKeepsPlace ==
  ASSUME TypeOK, ReportTypeOK, StageInv, NEW p \in Report, CountRows(p), ClientInv(p),
         UNCHANGED vars
  PROVE  ClientInv(p)'
<1>1. Rows(p)' = Rows(p)
  BY ListUnchanged DEF CountRows, Advance
<1>2. /\ total'[p] = Cardinality(Rows(p)) /\ stage'[p] = "counted"
      /\ UNCHANGED <<report, created, page, shown, left>>
  BY DEF CountRows, TotalOf, Advance, ReportTypeOK
<1>3. \A r : Younger(p, r)' = Younger(p, r)
  BY <1>1, <1>2 DEF Younger
<1>4. CASE stage[p] = "start"
  <2>1. steady'[p] = Rows(p)
    BY <1>4 DEF CountRows, Advance, ReportTypeOK
  <2>2. (page[p] - 1) * PageSize = 0
    BY <1>4, ListingAssumption DEF StageInv
  <2>3. \A r \in Request : Cardinality(Younger(p, r)) \in Nat
    BY RowsFinite, FS_Subset, FS_CardinalityType DEF Younger
  <2>4. PlaceInv(p)'
    BY <1>1, <1>2, <1>3, <2>1, <2>2, <2>3 DEF PlaceInv
  <2> QED
    BY <1>2, <2>4 DEF ClientInv, ShownAll
<1>5. CASE stage[p] = "turned"
  <2>1. steady' = steady
    BY <1>5 DEF CountRows, Advance
  <2>2. \A r : Hidden(p, r)' <=> Hidden(p, r)
    BY <1>2, <2>1 DEF Hidden
  <2>3. Walking(p)
    BY <1>5 DEF CountRows, Walking
  <2>4. PlaceInv(p)'
    BY <1>1, <1>2, <1>3, <2>1, <2>2, <2>3 DEF ClientInv, PlaceInv
  <2> QED
    BY <1>2, <2>4 DEF ClientInv, ShownAll
<1> QED
  BY <1>4, <1>5 DEF CountRows, Advance

\* The SELECT of a page: what it does not show has a younger row for each of
\* its places, so on the last page nothing is left to hide.
LEMMA ShowKeepsPlace ==
  ASSUME TypeOK, ReportTypeOK, StageInv, NEW p \in Report, ShowRows(p), ClientInv(p),
         UNCHANGED vars
  PROVE  ClientInv(p)'
<1> DEFINE K == (page[p] - 1) * PageSize
           n == Cardinality(Rows(p))
<1>1. Rows(p)' = Rows(p)
  BY ListUnchanged DEF ShowRows, Advance
<1>2. /\ UNCHANGED <<report, created, req, total, steady, left, late>>
      /\ stage[p] = "counted" /\ stage'[p] \in {"turned", "seen", "ok"}
  BY DEF ShowRows, Advance, ReportTypeOK, historyVars, vars
<1>3. PICK s \in Ordered(Rows(p)) : shown' = [shown EXCEPT ![p] = @ \cup PageOf(p, s)]
  BY DEF ShowRows
<1>4. shown'[p] = shown[p] \cup PageOf(p, s)
  BY <1>3 DEF ReportTypeOK
<1>5. K \in Nat /\ K + PageSize = page[p] * PageSize /\ PageSize \in Nat
  BY ListingAssumption DEF ReportTypeOK
<1>6. Walking(p)
  BY <1>2 DEF ShowRows, Walking
<1>7. \A r : Younger(p, r)' = Younger(p, r)
  BY <1>1, <1>2 DEF Younger
<1>8. ASSUME NEW r \in Request, Hidden(p, r)'
      PROVE  r \in Rows(p) /\ K + PageSize <= Cardinality(Younger(p, r))
  <2>1. Hidden(p, r)
    BY <1>2, <1>4, <1>8 DEF Hidden
  <2>2. r \in Rows(p) /\ K <= Cardinality(Younger(p, r))
    BY <1>6, <2>1 DEF ClientInv, PlaceInv, Hidden
  <2>3. \A x \in PageOf(p, s) : created[x] # created[r]
    BY <1>2, <1>4, <1>8 DEF Hidden
  <2>4. \A i \in 1..n : i > K /\ i <= K + PageSize => s[i] \in PageOf(p, s)
    <3>1. DOMAIN s = 1..n
      BY OrderedPlaces
    <3> QED
      BY <1>5, <3>1 DEF PageOf
  <2> QED
    BY <1>5, <2>2, <2>3, <2>4, PageSkipsNone
<1>9. CASE page[p] * PageSize < total[p]
  <2>1. stage'[p] = "turned" /\ page'[p] = page[p] + 1
    BY <1>9 DEF ShowRows, Advance, ReportTypeOK
  <2>2. (page'[p] - 1) * PageSize = K + PageSize
    BY <1>5, <2>1 DEF ReportTypeOK
  <2>3. PlaceInv(p)'
    BY <1>1, <1>2, <1>6, <1>7, <1>8, <2>1, <2>2 DEF ClientInv, PlaceInv
  <2> QED
    BY <2>1, <2>3 DEF ClientInv, ShownAll
<1>10. CASE ~(page[p] * PageSize < total[p])
  <2>1. stage'[p] \in {"seen", "ok"}
    BY <1>10 DEF ShowRows, Advance, ReportTypeOK
  <2>2. ASSUME NEW r \in Request, Hidden(p, r)', ~late[p]
        PROVE  FALSE
    <3>1. total[p] = n /\ n \in Nat
      BY <1>2, <1>6, <2>2, RowsFinite DEF ClientInv, PlaceInv, Hidden
    <3>2. r \in Rows(p) /\ K + PageSize <= Cardinality(Younger(p, r))
      BY <1>8, <2>2
    <3>3. Younger(p, r) \subseteq Rows(p) \ {r}
      <4>1. created[r] \in Nat
        BY ListingAssumption DEF ReportTypeOK
      <4> QED
        BY <4>1 DEF Younger
    <3>4. IsFiniteSet(Rows(p) \ {r}) /\ Cardinality(Rows(p) \ {r}) = n - 1
      BY <3>2, RowsFinite, FS_RemoveElement
    <3>5. Cardinality(Younger(p, r)) <= n - 1 /\ Cardinality(Younger(p, r)) \in Nat
      BY <3>3, <3>4, FS_Subset, FS_CardinalityType
    <3>6. page[p] * PageSize >= n
      BY <1>5, <1>10, <3>1
    <3> QED
      BY <1>5, <3>1, <3>2, <3>5, <3>6
  <2>3. ShownAll(p)'
    BY <1>2, <2>2 DEF ShownAll, Excused, Hidden
  <2>4. PlaceInv(p)'
    BY <2>1 DEF PlaceInv, Walking
  <2> QED
    BY <2>3, <2>4 DEF ClientInv
<1> QED
  BY <1>9, <1>10

\* A step of Signup: as long as nothing leaves the list, rows only gain
\* younger ones.
LEMMA SignupKeepsPlace ==
  ASSUME TypeOK, ReportTypeOK, SignupStep, NEW p \in Report, ClientInv(p)
  PROVE  ClientInv(p)'
<1>1. /\ UNCHANGED <<report, created, stage, page, total, shown>> /\ req' = req
      /\ [Next]_vars
  BY RequestsFixed DEF SignupStep, walkVars, Next
<1>2. Walking(p)' <=> Walking(p)
  BY <1>1 DEF Walking, IsList
<1>3. CASE Walking(p)
  <2>1. /\ steady'[p] = steady[p] \cap Rows(p)'
        /\ left'[p] <=> (left[p] \/ Rows(p) \ Rows(p)' # {})
        /\ late'[p] <=> (late[p] \/ Rows(p)' \ Rows(p) # {})
    BY <1>3 DEF SignupStep
  <2>2. ASSUME NEW r \in Request, Hidden(p, r)'
        PROVE  (page[p] - 1) * PageSize <= Cardinality(Younger(p, r)')
    <3>1. Hidden(p, r) /\ Rows(p) \subseteq Rows(p)'
      BY <1>1, <2>1, <2>2 DEF Hidden
    <3>2. (page[p] - 1) * PageSize <= Cardinality(Younger(p, r))
      BY <1>3, <3>1 DEF ClientInv, PlaceInv
    <3>3. Younger(p, r) \subseteq Younger(p, r)'
      BY <1>1, <3>1 DEF Younger
    <3>4. Younger(p, r)' \subseteq Request
      BY DEF Younger, Rows
    <3>5. IsFiniteSet(Younger(p, r)')
      BY <3>4, SignupAssumption, FS_Subset
    <3>6. /\ Cardinality(Younger(p, r)) <= Cardinality(Younger(p, r)')
          /\ Cardinality(Younger(p, r)) \in Nat /\ Cardinality(Younger(p, r)') \in Nat
      BY <3>3, <3>5, FS_Subset, FS_CardinalityType
    <3>7. (page[p] - 1) * PageSize \in Nat
      BY ListingAssumption DEF ReportTypeOK
    <3> QED
      BY <3>2, <3>6, <3>7
  <2>3. ASSUME stage[p] = "counted", ~left'[p], ~late'[p]
        PROVE  total[p] = Cardinality(Rows(p)')
    <3>1. ~left[p] /\ ~late[p] /\ Rows(p)' = Rows(p)
      BY <2>1, <2>3
    <3> QED
      BY <1>3, <2>3, <3>1 DEF ClientInv, PlaceInv
  <2>4. PlaceInv(p)'
    BY <1>1, <2>1, <2>2, <2>3 DEF PlaceInv
  <2>5. ShownAll(p)'
    BY <1>1, <1>3 DEF Walking, ShownAll
  <2> QED
    BY <2>4, <2>5 DEF ClientInv
<1>4. CASE ~Walking(p)
  <2>1. PlaceInv(p)'
    BY <1>2, <1>4 DEF PlaceInv
  <2>2. /\ steady'[p] = steady[p]
        /\ left'[p] <=> left[p]
        /\ late'[p] <=> late[p]
    BY <1>4 DEF SignupStep
  <2>3. ShownAll(p)'
    BY <1>1, <2>2 DEF ClientInv, ShownAll, Excused, IsList
  <2> QED
    BY <2>1, <2>3 DEF ClientInv
<1> QED
  BY <1>3, <1>4

\* Steps of a request that show it no rows.
LEMMA OtherStepsKeepPlace ==
  ASSUME TypeOK, ReportTypeOK, StageInv, NEW p \in Report, ClientInv(p), UNCHANGED vars,
         \/ Stats(p) /\ UNCHANGED listVars
         \/ MarkRead(p) \/ MarkAllRead(p) \/ FailReport(p)
  PROVE  ClientInv(p)'
<1>1. UNCHANGED <<report, created, page, total, shown, steady, left, late>>
  BY DEF Stats, Find, CountRegistrations, CountCheckedIn, MarkRead, MarkAllRead, FailReport,
         Advance, listVars, walkVars, historyVars
<1>2. \/ ~IsList(p)
      \/ stage[p] = "seen" /\ stage'[p] = "ok"
      \/ stage'[p] = "failed"
  BY DEF Stats, Find, CountRegistrations, CountCheckedIn, MarkRead, MarkAllRead, FailReport,
         Advance, IsList, ReportTypeOK
<1>3. PlaceInv(p)'
  BY <1>1, <1>2 DEF PlaceInv, Walking, IsList
<1>4. ShownAll(p)'
  BY <1>1, <1>2 DEF ClientInv, ShownAll, Excused, IsList
<1> QED
  BY <1>3, <1>4 DEF ClientInv

\* A step of one request leaves the fields of the others alone.
LEMMA StepIsOwn ==
  ASSUME ReportTypeOK, NEW p \in Report, ReportStep(p), UNCHANGED vars
  PROVE  /\ UNCHANGED <<report, created>>
         /\ \A x \in Report \ {p} :
              /\ stage'[x] = stage[x] /\ page'[x] = page[x] /\ total'[x] = total[x]
              /\ shown'[x] = shown[x] /\ steady'[x] = steady[x]
              /\ left'[x] = left[x] /\ late'[x] = late[x]
<1>1. CASE Stats(p) /\ UNCHANGED listVars
  BY <1>1 DEF Stats, Find, CountRegistrations, CountCheckedIn, Advance, listVars, walkVars,
              historyVars, ReportTypeOK
<1>2. CASE CountRows(p)
  BY <1>2 DEF CountRows, Advance, ReportTypeOK
<1>3. CASE ShowRows(p)
  BY <1>3 DEF ShowRows, Advance, historyVars, ReportTypeOK
<1>4. CASE MarkRead(p) \/ MarkAllRead(p) \/ FailReport(p)
  BY <1>4 DEF MarkRead, MarkAllRead, FailReport, Advance, listVars, walkVars, historyVars,
              ReportTypeOK
<1> QED
  BY <1>1, <1>2, <1>3, <1>4 DEF ReportStep

LEMMA StageStep ==
  ASSUME ReportTypeOK, StageInv, [ListNext]_listingVars
  PROVE  StageInv'
<1>1. ASSUME NEW p \in Report, ReportStep(p), UNCHANGED vars
      PROVE  StageInv'
  <2>1. /\ stage'[p] # "start"
        /\ stage'[p] = "seen" => report[p].op = "notifications"
    BY <1>1 DEF ReportStep, Stats, Find, CountRegistrations, CountCheckedIn, CountRows,
                ShowRows, MarkRead, MarkAllRead, FailReport, Advance, ReportTypeOK
  <2> QED
    BY <1>1, <2>1, StepIsOwn DEF StageInv
<1>2. CASE UNCHANGED <<report, stage, page>>
  BY <1>2 DEF StageInv
<1> QED
  BY <1>1, <1>2 DEF ListNext, SignupStep, AllDone, listingVars, statVars, listVars, walkVars

LEMMA WalkStep ==
  ASSUME TypeOK, ReportTypeOK, StageInv, WalkInv, WalkShowsAll, [ListNext]_listingVars
  PROVE  WalkInv' /\ WalkShowsAll'
<1> SUFFICES ASSUME NEW x \in Report PROVE ClientInv(x)'
  BY DEF WalkInv, WalkShowsAll, ClientInv
<1>1. ClientInv(x)
  BY DEF WalkInv, WalkShowsAll, ClientInv
<1>2. ASSUME NEW p \in Report, ReportStep(p), UNCHANGED vars
      PROVE  ClientInv(x)'
  <2>1. CASE x = p
    BY <1>1, <1>2, <2>1, CountKeepsPlace, ShowKeepsPlace, OtherStepsKeepPlace DEF ReportStep
  <2>2. CASE x # p
    <3>1. Rows(x)' = Rows(x) /\ req' = req
      BY <1>2, StepIsOwn, ListUnchanged DEF vars
    <3> QED
      BY <1>1, <1>2, <2>2, <3>1, StepIsOwn, OthersUndisturbed
  <2> QED
    BY <2>1, <2>2
<1>3. CASE SignupStep
  BY <1>1, <1>3, SignupKeepsPlace
<1>4. CASE UNCHANGED listingVars
  <2>1. Rows(x)' = Rows(x) /\ req' = req
    BY <1>4, ListUnchanged DEF listingVars, statVars, vars
  <2> QED
    BY <1>1, <1>4, <2>1, OthersUndisturbed
       DEF listingVars, statVars, listVars, walkVars, historyVars
<1>5. CASE AllDone
  BY <1>4, <1>5 DEF AllDone, Finished, listingVars
<1> QED
  BY <1>2, <1>3, <1>4, <1>5 DEF ListNext

(***************************************************************************)
(* Notifications are read by those they are for, and rarely unseen.        *)
(***************************************************************************)

\* The request that accounts for a notification marked as read.
Reader(p, q) ==
  /\ stage[p] = "ok" /\ report[p].by = Addressee(q)
  /\ \/ report[p].op = "read" /\ report[p].of = q
     \/ report[p].op = "notifications" /\ (q \in shown[p] \/ Excused(p, q))

LEMMA ReaderStays ==
  ASSUME TypeOK, ReportTypeOK, [ListNext]_listingVars, NEW p \in Report, NEW q, Reader(p, q)
  PROVE  Reader(p, q)'
<1>1. req' = req /\ Addressee(q)' = Addressee(q)
  BY RequestsFixed, ListingStep DEF Addressee
<1>2. ASSUME UNCHANGED <<report, created>>, stage'[p] = stage[p], shown'[p] = shown[p],
             steady'[p] = steady[p], left'[p] <=> left[p], late'[p] <=> late[p]
      PROVE  Reader(p, q)'
  BY <1>1, <1>2 DEF Reader, Excused
<1>3. ASSUME NEW x \in Report, ReportStep(x), UNCHANGED vars
      PROVE  Reader(p, q)'
  <2>1. x # p
    BY <1>3 DEF Reader, ReportStep, Stats, Find, CountRegistrations, CountCheckedIn, CountRows,
                ShowRows, MarkRead, MarkAllRead, FailReport, Advance
  <2> QED
    BY <1>2, <1>3, <2>1, StepIsOwn
<1>4. CASE SignupStep
  <2>1. ~Walking(p)
    BY DEF Reader, Walking
  <2>2. /\ UNCHANGED <<report, created, stage, shown>>
        /\ steady'[p] = steady[p] /\ (left'[p] <=> left[p]) /\ (late'[p] <=> late[p])
    BY <1>4, <2>1 DEF SignupStep, walkVars
  <2> QED
    BY <1>2, <2>2
<1>5. CASE UNCHANGED <<statVars, listVars>>
  BY <1>2, <1>5 DEF statVars, listVars, walkVars, historyVars
<1> QED
  BY <1>3, <1>4, <1>5 DEF ListNext, AllDone, listingVars

\* What a step marks as read is accounted for by the request that marks it.
LEMMA NewlyRead ==
  ASSUME TypeOK, ReportTypeOK, StageInv, WalkShowsAll, [ListNext]_listingVars,
         NEW q \in isRead' \ isRead
  PROVE  \E p \in Report : Reader(p, q)'
<1>1. PICK p \in Report : (MarkRead(p) \/ MarkAllRead(p)) /\ UNCHANGED vars
  BY DEF ListNext, ReportStep, SignupStep, AllDone, CountRows, ShowRows, FailReport, listVars,
         listingVars
<1>2. /\ Addressee(q)' = Addressee(q) /\ stage'[p] = "ok"
      /\ UNCHANGED <<report, created, shown, steady, left, late>>
  BY <1>1 DEF MarkRead, MarkAllRead, Advance, walkVars, historyVars, vars, Addressee, ReportTypeOK
<1>3. CASE MarkRead(p)
  <2>1. q = report[p].of /\ Addressee(q) = report[p].by /\ report[p].op = "read"
    BY <1>3 DEF MarkRead, ReadByUser, NotificationsOf
  <2> QED
    BY <1>2, <2>1 DEF Reader
<1>4. CASE MarkAllRead(p)
  <2>1. q \in notified /\ Addressee(q) = report[p].by /\ stage[p] = "seen"
    BY <1>4 DEF MarkAllRead, NotificationsOf, Advance
  <2>2. report[p].op = "notifications" /\ q \in Request
    BY <2>1 DEF StageInv, TypeOK
  <2>3. q \in shown[p] \/ Excused(p, q)
    BY <2>1, <2>2 DEF WalkShowsAll, ShownAll, IsList
  <2>4. q \in shown'[p] \/ Excused(p, q)'
    BY <1>2, <2>3 DEF Excused
  <2> QED
    BY <1>2, <2>1, <2>2, <2>4 DEF Reader
<1> QED
  BY <1>1, <1>3, <1>4

LEMMA ReadStep ==
  ASSUME TypeOK, ReportTypeOK, StageInv, WalkShowsAll, ReadKnowingly, [ListNext]_listingVars
  PROVE  ReadKnowingly'
<1>1. ASSUME NEW q \in isRead' PROVE \E p \in Report : Reader(p, q)'
  <2>1. CASE q \in isRead
    <3>1. PICK p \in Report : Reader(p, q)
      BY <2>1 DEF ReadKnowingly, Reader
    <3> QED
      BY <3>1, ReaderStays
  <2> QED
    BY <1>1, <2>1, NewlyRead
<1> QED
  BY <1>1 DEF ReadKnowingly, Reader

(***************************************************************************)
(* The theorems.                                                           *)
(***************************************************************************)

LEMMA ListingInductiveInit == ListInit => ListingInductive
<1> SUFFICES ASSUME ListInit PROVE ListingInductive
  OBVIOUS
<1>1. ReportTypeOK
  BY ReportTypeInit
<1>2. stage = [p \in Report |-> "start"] /\ page = [p \in Report |-> 1] /\ isRead = {}
  BY DEF ListInit, StatInit
<1> QED
  BY <1>1, <1>2 DEF ListingInductive, CountInv, Counting, SkewBounded, StageInv, WalkInv, PlaceInv,
                    Walking, WalkShowsAll, ShownAll, ReadKnowingly

\* The invariants behind the walk through a list and the reading of
\* notifications are inductive, given those of Signup.
THEOREM ListingInductiveCorrect == ListSpec => []ListingInductive
<1>1. Inductive /\ ListingInductive /\ [ListNext]_listingVars => ListingInductive'
  BY ReportTypeStep, CountStep, StageStep, WalkStep, ReadStep DEF Inductive, ListingInductive
<1> QED
  BY <1>1, ListingInductiveInit, ListingSafe, PTL DEF ListSpec

\* For every interleaving with signups, stale cancellations, reviews and
\* check-ins, the two numbers that statistics show invert by no more than the
\* registrations that were made between the two counts or overwritten before
\* the first (activity_service.go:202).
THEOREM SkewIsBounded == ListSpec => []SkewBounded
<1>1. ListingInductive => SkewBounded
  BY DEF ListingInductive
<1> QED
  BY <1>1, ListingInductiveCorrect, PTL

\* However rows are committed and ordered, a client who reads a list to its
\* last page has seen what was there all the time, unless something left it,
\* joined between the two statements of a page, or shared a millisecond
\* (registration_repository.go:108).
THEOREM WalksShowAll == ListSpec => []WalkShowsAll
<1>1. ListingInductive => WalkShowsAll
  BY DEF ListingInductive
<1> QED
  BY <1>1, ListingInductiveCorrect, PTL

\* Nobody's notifications are marked as read by another user, and none is
\* marked that its user was not shown, for any other reason than those
\* (notification_repository.go:52).
THEOREM ReadsAreKnowing == ListSpec => []ReadKnowingly
<1>1. ListingInductive => ReadKnowingly
  BY DEF ListingInductive
<1> QED
  BY <1>1, ListingInductiveCorrect, PTL
(***************************************************************************)
(* What Signup promises is true next to the readers.                       *)
(***************************************************************************)

\* Whoever lists, counts or marks notifications takes no lock and writes none
\* of the tables of registration and check-in: to those handlers, a behaviour
\* with readers is one without (registration_repository.go:85-111).
THEOREM ReadersUndisturbing == ListSpec => Spec
<1>1. ListInit => Init
  BY DEF ListInit
<1> QED
  BY <1>1, ListingStep, PTL DEF ListSpec, Spec

\* So the lists a user pages through are those of the atomic registration
\* desk, in which the quota, the one signup of a user and the one check-in of
\* a registration hold.
THEOREM ListsOfThePromise ==
  ListSpec => /\ ImplementsPromise /\ PlaceReleasedForGood /\ CancelledForGood
              /\ [](/\ OnlineWithinCapacity /\ OneSignupPerUser
                    /\ OneCheckInPerRegistration /\ CheckInConsistent /\ NoLeakedLock)
BY ReadersUndisturbing, SignupImplementsPromise, PlaceIsReleasedForGood, CancellationIsFinal,
   QuotaKept, NoDuplicateSignup, AtMostOneCheckIn, AttendanceConsistent, NoLockLeaks, PTL
=============================================================================
