--------------------------- MODULE ActivitiesProofs ---------------------------
(***************************************************************************)
(* Proofs about Activities, for any number of requests, any accounts and   *)
(* any contents: rows show only what accepted requests asked for, what was *)
(* ended or deleted stays so once earlier readers are through, and the     *)
(* handlers implement the atomic edits of ActivityTable.                   *)
(***************************************************************************)
EXTENDS ActivityHistory, TLAPS

USE ActivitiesAssumption

LEMMA InitInductive == Init => Inductive
  BY DEF Init, ChangeInit, Inductive, TypeOK, RowOnRequest, CopyInv, FreshInv, StatusAsked,
         CapacityAsked, Exists, Quiet, CreatePending, ActivityRow, ChangeContent, Done

\* What Edited does to the status and to the capacity of the row it is given.
LEMMA EditedFields ==
  ASSUME TypeOK, NEW c \in Change, NEW row \in ActivityRow
  PROVE  /\ Edited(c, row) \in ActivityRow
         /\ Edited(c, row).status = IF change[c].op = "publish" THEN "published"
                                    ELSE IF change[c].op = "end" THEN "ended"
                                    ELSE row.status
         /\ \/ Edited(c, row).capacity = row.capacity
            \/ change[c].op = "update" /\ change[c].capacity = Edited(c, row).capacity
<1>1. change[c] \in ChangeContent
  BY DEF TypeOK
<1> QED
  BY <1>1 DEF Edited, StatusAfter, ActivityRow, ActivityStatus, ChangeContent

\* A step keeps the types.
LEMMA StepType == TypeOK /\ [Next]_vars => TypeOK'
<1> SUFFICES ASSUME TypeOK, [Next]_vars PROVE TypeOK'
  OBVIOUS
<1> USE DEF TypeOK, Done
<1>1. ASSUME NEW c \in Change, CreateActivity(c) PROVE TypeOK'
  <2>1. change[c] \in ChangeContent /\ change[c].capacity \in Nat
    BY <1>1 DEF CreateActivity
  <2>2. [status |-> change[c].status, capacity |-> change[c].capacity] \in ActivityRow
    BY <2>1 DEF ActivityRow, ChangeContent
  <2> QED
    BY <1>1, <2>1, <2>2 DEF CreateActivity, Move, ChangeContent
<1>2. ASSUME NEW c \in Change, ReadRow(c) PROVE TypeOK'
  <2>1. change[c].act \in Activity
    BY DEF ChangeContent
  <2>2. Edited(c, activity[change[c].act]) \in ActivityRow
    BY <2>1, EditedFields
  <2> QED
    BY <1>2, <2>2 DEF ReadRow, Move
<1>3. ASSUME NEW c \in Change, SaveRow(c) PROVE TypeOK'
  BY <1>3 DEF SaveRow, Move
<1>4. ASSUME NEW c \in Change, DeleteRow(c) PROVE TypeOK'
  <2>1. [status |-> "absent", capacity |-> 0] \in ActivityRow
    BY DEF ActivityRow
  <2> QED
    BY <1>4, <2>1 DEF DeleteRow, Move
<1>5. ASSUME NEW c \in Change, FailChange(c) PROVE TypeOK'
  BY <1>5 DEF FailChange, Move
<1>6. CASE UNCHANGED vars
  BY <1>6 DEF vars, changeVars
<1> QED
  BY <1>1, <1>2, <1>3, <1>4, <1>5, <1>6 DEF Next, HandleChange, Finished

\* What was asked for once has been asked for ever: contents are constant and
\* an accepted request stays accepted.
LEMMA AskedStays ==
  ASSUME TypeOK, [Next]_vars, NEW a \in Activity
  PROVE  /\ change' = change
         /\ \A op, status : StatusAsked(a, op, status) => StatusAsked(a, op, status)'
         /\ \A v : CapacityAsked(a, v) => CapacityAsked(a, v)'
<1>1. /\ change' = change
      /\ \A d \in Change : step[d] = "ok" => step'[d] = "ok"
  BY DEF Next, HandleChange, FailChange, Finished, CreateActivity, ReadRow, SaveRow, DeleteRow, Move,
         vars, changeVars, TypeOK
<1> QED
  BY <1>1 DEF StatusAsked, CapacityAsked, Accepted

-----------------------------------------------------------------------------

\* An id that a pending create request is about to use is untouched: only its
\* own creation can put a row there, and only then can the row be read.
LEMMA StepFresh == TypeOK /\ FreshInv /\ [Next]_vars => FreshInv'
<1> SUFFICES ASSUME TypeOK, FreshInv, [Next]_vars,
                    NEW d \in Change, NEW a \in Activity, CreatePending(d, a)'
             PROVE  (Quiet(a) /\ ~Exists(a))'
  BY DEF FreshInv
<1>1. /\ change' = change /\ CreatePending(d, a) /\ Quiet(a) /\ ~Exists(a)
      /\ change[d].op = "create" /\ change[d].act = a
  BY DEF CreatePending, FreshInv, Next, HandleChange, FailChange, Finished, CreateActivity, ReadRow,
         SaveRow, DeleteRow, Move, vars, changeVars, TypeOK
<1>2. \A c \in Change : change[c].op = "create" /\ change[c].act = a => c = d
  BY <1>1 DEF TypeOK
<1>3. ASSUME NEW c \in Change, CreateActivity(c) PROVE (Quiet(a) /\ ~Exists(a))'
  <2>1. c # d
    BY <1>3 DEF CreateActivity, CreatePending, Move, TypeOK
  <2>2. change[c].act # a
    BY <1>2, <1>3, <2>1 DEF CreateActivity
  <2> QED
    BY <1>1, <1>3, <2>2 DEF CreateActivity, Move, Quiet, Exists, TypeOK
<1>4. ASSUME NEW c \in Change, ReadRow(c) PROVE (Quiet(a) /\ ~Exists(a))'
  BY <1>1, <1>4 DEF ReadRow, Allowed, Move, Quiet, Exists, TypeOK
<1>5. ASSUME NEW c \in Change, SaveRow(c) PROVE (Quiet(a) /\ ~Exists(a))'
  BY <1>1, <1>5 DEF SaveRow, Move, Quiet, Exists, TypeOK
<1>6. ASSUME NEW c \in Change, DeleteRow(c) PROVE (Quiet(a) /\ ~Exists(a))'
  BY <1>1, <1>6 DEF DeleteRow, Move, Quiet, Exists, TypeOK
<1>7. ASSUME NEW c \in Change, FailChange(c) PROVE (Quiet(a) /\ ~Exists(a))'
  BY <1>1, <1>7 DEF FailChange, Move, Quiet, Exists, TypeOK
<1>8. CASE UNCHANGED vars
  BY <1>1, <1>8 DEF vars, changeVars, Quiet, Exists
<1> QED
  BY <1>3, <1>4, <1>5, <1>6, <1>7, <1>8 DEF Next, HandleChange, Finished

\* What a copy says was asked for, or is what its own handler was asked for.
CopyOnRequest(c) ==
  LET a == change[c].act IN
  /\ change[c].op # "create"
  /\ copy[c].status = "published" =>
       change[c].op = "publish" \/ StatusAsked(a, "publish", "published")
  /\ copy[c].status = "ended" => change[c].op = "end" \/ StatusAsked(a, "end", "ended")
  /\ \/ CapacityAsked(a, copy[c].capacity)
     \/ change[c].op = "update" /\ change[c].capacity = copy[c].capacity

LEMMA StepCopy == TypeOK /\ RowOnRequest /\ CopyInv /\ [Next]_vars => CopyInv'
<1> SUFFICES ASSUME TypeOK, RowOnRequest, CopyInv, [Next]_vars,
                    NEW d \in Change, step'[d] = "read"
             PROVE  CopyOnRequest(d)'
  BY DEF CopyInv, CopyOnRequest
<1>1. change[d] \in ChangeContent /\ change[d].act \in Activity
  BY DEF TypeOK, ChangeContent
<1>2. /\ change' = change
      /\ \A op, status : StatusAsked(change[d].act, op, status)
                            => StatusAsked(change[d].act, op, status)'
      /\ \A v : CapacityAsked(change[d].act, v) => CapacityAsked(change[d].act, v)'
  BY <1>1, AskedStays
<1>3. CASE step[d] = "read"
  <2>1. CopyOnRequest(d)
    BY <1>3 DEF CopyInv, CopyOnRequest
  <2>2. copy'[d] = copy[d]
    BY <1>3 DEF Next, HandleChange, FailChange, Finished, CreateActivity, ReadRow, SaveRow, DeleteRow,
                vars, changeVars, TypeOK
  <2> QED
    BY <1>2, <2>1, <2>2 DEF CopyOnRequest
<1>4. CASE step[d] # "read"
  <2>1. ReadRow(d) /\ Allowed(d) /\ change[d].op # "create"
    BY <1>4 DEF Next, HandleChange, FailChange, Finished, CreateActivity, ReadRow, SaveRow, DeleteRow,
                Move, vars, changeVars, TypeOK
  <2>2. copy'[d] = Edited(d, activity[change[d].act])
    BY <1>4, <2>1 DEF ReadRow, Move, TypeOK
  <2>3. activity[change[d].act] \in ActivityRow /\ Exists(change[d].act)
    BY <1>1, <2>1 DEF TypeOK, Allowed
  <2>4. CopyOnRequest(d)'
    BY <1>1, <1>2, <2>1, <2>2, <2>3, EditedFields DEF CopyOnRequest, RowOnRequest
  <2> QED
    BY <2>4
<1> QED
  BY <1>3, <1>4

\* The row of activity a shows only what was asked for.
RowShown(a) ==
  /\ activity[a].status = "published" => StatusAsked(a, "publish", "published")
  /\ activity[a].status = "ended" => StatusAsked(a, "end", "ended")
  /\ Exists(a) => CapacityAsked(a, activity[a].capacity)

\* Rows are written by inserts, which carry what was asked for, and by saves of
\* copies of which CopyInv says the same.
LEMMA StepRow == TypeOK /\ RowOnRequest /\ CopyInv /\ [Next]_vars => RowOnRequest'
<1> SUFFICES ASSUME TypeOK, RowOnRequest, CopyInv, [Next]_vars, NEW a \in Activity
             PROVE  RowShown(a)'
  BY DEF RowOnRequest, RowShown
<1>1. /\ change' = change
      /\ \A op, status : StatusAsked(a, op, status) => StatusAsked(a, op, status)'
      /\ \A v : CapacityAsked(a, v) => CapacityAsked(a, v)'
  BY AskedStays
<1>2. RowShown(a)
  BY DEF RowOnRequest, RowShown
<1>3. ASSUME NEW c \in Change, change[c].act = a, CreateActivity(c) PROVE RowShown(a)'
  <2>1. activity'[a] = [status |-> change[c].status, capacity |-> change[c].capacity]
    BY <1>3 DEF CreateActivity, TypeOK
  <2>2. Accepted(c, "create", a)'
    BY <1>1, <1>3 DEF CreateActivity, Move, Accepted, TypeOK
  <2> QED
    BY <1>1, <2>1, <2>2 DEF RowShown, StatusAsked, CapacityAsked
<1>4. ASSUME NEW c \in Change, change[c].act = a, SaveRow(c) PROVE RowShown(a)'
  <2>1. activity'[a] = copy[c] /\ Accepted(c, change[c].op, a)'
    BY <1>1, <1>4 DEF SaveRow, Move, Accepted, TypeOK
  <2>2. /\ copy[c].status = "published" =>
             change[c].op = "publish" \/ StatusAsked(a, "publish", "published")
        /\ copy[c].status = "ended" => change[c].op = "end" \/ StatusAsked(a, "end", "ended")
        /\ \/ CapacityAsked(a, copy[c].capacity)
           \/ change[c].op = "update" /\ change[c].capacity = copy[c].capacity
    BY <1>4 DEF SaveRow, CopyInv
  <2>3. /\ \A op, status : change[c].op = op => StatusAsked(a, op, status)'
        /\ \A v : change[c].op = "update" /\ change[c].capacity = v => CapacityAsked(a, v)'
    BY <1>1, <2>1 DEF StatusAsked, CapacityAsked
  <2>4. /\ copy[c].status = "published" => StatusAsked(a, "publish", "published")'
        /\ copy[c].status = "ended" => StatusAsked(a, "end", "ended")'
    BY <1>1, <2>2, <2>3
  <2>5. \A v : v = copy[c].capacity => CapacityAsked(a, v)'
    BY <1>1, <2>2, <2>3
  <2> QED
    BY <2>1, <2>4, <2>5 DEF RowShown
<1>5. ASSUME NEW c \in Change, change[c].act = a, DeleteRow(c) PROVE RowShown(a)'
  <2>1. activity'[a].status = "absent"
    BY <1>5 DEF DeleteRow, TypeOK
  <2> QED
    BY <2>1 DEF RowShown, Exists
<1>6. CASE activity'[a] = activity[a]
  BY <1>1, <1>2, <1>6 DEF RowShown, Exists
<1>7. \/ activity'[a] = activity[a]
      \/ \E c \in Change : change[c].act = a /\ (CreateActivity(c) \/ SaveRow(c) \/ DeleteRow(c))
  BY DEF Next, HandleChange, FailChange, Finished, CreateActivity, ReadRow, SaveRow, DeleteRow,
         vars, changeVars, TypeOK
<1> QED
  BY <1>3, <1>4, <1>5, <1>6, <1>7

\* The inductive invariant of the handlers holds in every reachable state.
THEOREM InductiveCorrect == Spec => []Inductive
<1>1. Inductive /\ [Next]_vars => Inductive'
  BY StepType, StepFresh, StepCopy, StepRow DEF Inductive
<1> QED
  BY <1>1, InitInductive, PTL DEF Spec

\* Rows of the activities table carry legal values, and what a handler saves is
\* a row (activity_service.go:92,112,132).
THEOREM TypeCorrect == Spec => []TypeOK
<1>1. Inductive => TypeOK
  BY DEF Inductive
<1> QED
  BY <1>1, InductiveCorrect, PTL

\* No stale copy ever shows a status or a capacity that was never asked for.
THEOREM RowsOnRequest == Spec => []RowOnRequest
<1>1. Inductive => RowOnRequest
  BY DEF Inductive
<1> QED
  BY <1>1, InductiveCorrect, PTL

-----------------------------------------------------------------------------

\* Activity a has ended for good: every copy still to be saved says so too.
Settled(a) ==
  /\ activity[a].status \in {"ended", "absent"}
  /\ \A c \in Change : ~CreatePending(c, a)
  /\ \A c \in Change : change[c].act = a /\ step[c] = "read"
                         => change[c].op = "delete" \/ copy[c].status = "ended"

\* Activity a has been deleted for good: nobody holds a copy of it.
Gone(a) == ~Exists(a) /\ Quiet(a) /\ \A c \in Change : ~CreatePending(c, a)

LEMMA NoNewCreate ==
  ASSUME [Next]_vars, TypeOK, NEW a \in Activity, \A c \in Change : ~CreatePending(c, a)
  PROVE  /\ change' = change
         /\ \A c \in Change : ~CreatePending(c, a)'
         /\ \A c \in Change : CreateActivity(c) => change[c].act # a
<1>1. /\ change' = change
      /\ \A c \in Change : step'[c] = step[c] \/ step'[c] # "start"
  <2>1. \/ UNCHANGED <<change, step>>
        \/ \E c \in Change, label \in {"read", "ok", "refused", "failed"} :
             Move(c, label) /\ change' = change
    BY DEF Next, HandleChange, FailChange, Finished, CreateActivity, ReadRow, SaveRow,
           DeleteRow, vars, changeVars
  <2> QED
    BY <2>1 DEF Move, TypeOK
<1>2. \A c \in Change : ~CreatePending(c, a)'
  BY <1>1 DEF CreatePending
<1>3. \A c \in Change : CreateActivity(c) => change[c].act # a
  BY DEF CreatePending, CreateActivity
<1> QED
  BY <1>1, <1>2, <1>3

LEMMA StepSettled ==
  ASSUME TypeOK, [Next]_vars, NEW a \in Activity, Settled(a) PROVE Settled(a)'
<1> DEFINE Copies == \A c \in Change : change[c].act = a /\ step[c] = "read"
                                         => change[c].op = "delete" \/ copy[c].status = "ended"
           Over == activity[a].status \in {"ended", "absent"}
<1>1. /\ change' = change
      /\ \A c \in Change : ~CreatePending(c, a)'
      /\ \A c \in Change : CreateActivity(c) => change[c].act # a
  BY NoNewCreate DEF Settled
<1>2. Over /\ Copies
  BY DEF Settled
<1>3. ASSUME NEW c \in Change, CreateActivity(c) PROVE (Over /\ Copies)'
  BY <1>1, <1>2, <1>3 DEF CreateActivity, Move, TypeOK
<1>4. ASSUME NEW c \in Change, ReadRow(c) PROVE (Over /\ Copies)'
  <2>1. CASE change[c].act = a /\ Allowed(c)
    <3>1. /\ activity[a].status = "ended" /\ change[c].op \in {"update", "delete"}
          /\ activity[a] \in ActivityRow
      BY <1>2, <1>4, <2>1 DEF Allowed, StatusAllows, Exists, ReadRow, TypeOK, ChangeContent, ChangeOp
    <3>2. Edited(c, activity[a]).status = "ended"
      BY <3>1, EditedFields
    <3> QED
      BY <1>2, <1>4, <2>1, <3>2 DEF ReadRow, Move, TypeOK
  <2>2. CASE ~(change[c].act = a /\ Allowed(c))
    BY <1>2, <1>4, <2>2 DEF ReadRow, Move, TypeOK
  <2> QED
    BY <2>1, <2>2
<1>5. ASSUME NEW c \in Change, SaveRow(c) PROVE (Over /\ Copies)'
  BY <1>2, <1>5 DEF SaveRow, Move, TypeOK
<1>6. ASSUME NEW c \in Change, DeleteRow(c) PROVE (Over /\ Copies)'
  BY <1>2, <1>6 DEF DeleteRow, Move, TypeOK
<1>7. ASSUME NEW c \in Change, FailChange(c) PROVE (Over /\ Copies)'
  BY <1>2, <1>7 DEF FailChange, Move, TypeOK
<1>8. ASSUME UNCHANGED vars PROVE (Over /\ Copies)'
  BY <1>2, <1>8 DEF vars, changeVars
<1>9. (Over /\ Copies)'
  BY <1>3, <1>4, <1>5, <1>6, <1>7, <1>8 DEF Next, HandleChange, Finished
<1> QED
  BY <1>1, <1>9 DEF Settled

LEMMA StepGone ==
  ASSUME TypeOK, [Next]_vars, NEW a \in Activity, Gone(a) PROVE Gone(a)'
<1>1. /\ change' = change
      /\ \A c \in Change : ~CreatePending(c, a)'
      /\ \A c \in Change : CreateActivity(c) => change[c].act # a
  BY NoNewCreate DEF Gone
<1>2. ~Exists(a) /\ Quiet(a)
  BY DEF Gone
<1>3. ASSUME NEW c \in Change, HandleChange(c) \/ FailChange(c) PROVE (~Exists(a) /\ Quiet(a))'
  BY <1>1, <1>2, <1>3 DEF HandleChange, FailChange, CreateActivity, ReadRow, SaveRow, DeleteRow,
                          Move, Allowed, Exists, Quiet, TypeOK
<1>4. ASSUME UNCHANGED vars PROVE (~Exists(a) /\ Quiet(a))'
  BY <1>2, <1>4 DEF vars, changeVars, Exists, Quiet
<1>5. (~Exists(a) /\ Quiet(a))'
  BY <1>3, <1>4 DEF Next, Finished
<1> QED
  BY <1>1, <1>5 DEF Gone

\* Once the handlers that read an activity before it ended are through, it is
\* never open again, whatever is requested afterwards.
THEOREM EndedForGood == Spec => EndSettles
<1>1. ASSUME NEW a \in Activity
      PROVE  Spec => [](Quiet(a) /\ activity[a].status = "ended"
                          => [](activity[a].status \in {"ended", "absent"}))
  <2>1. Inductive /\ Quiet(a) /\ activity[a].status = "ended" => Settled(a)
    BY DEF Inductive, FreshInv, Exists, Quiet, Settled
  <2>2. Inductive /\ Settled(a) /\ [Next]_vars => Settled(a)'
    BY StepSettled DEF Inductive
  <2>3. Settled(a) => activity[a].status \in {"ended", "absent"}
    BY DEF Settled
  <2> QED
    BY <2>1, <2>2, <2>3, InductiveCorrect, PTL DEF Spec
<1> QED
  BY <1>1 DEF EndSettles

\* Likewise a deleted activity is never found again.
THEOREM DeletedForGood == Spec => DeleteSettles
<1>1. ASSUME NEW a \in Activity
      PROVE  Spec => [](/\ Quiet(a) /\ ~Exists(a)
                        /\ \A c \in Change : ~CreatePending(c, a)
                        => []~Exists(a))
  <2>1. Quiet(a) /\ ~Exists(a) /\ (\A c \in Change : ~CreatePending(c, a)) => Gone(a)
    BY DEF Gone
  <2>2. Inductive /\ Gone(a) /\ [Next]_vars => Gone(a)'
    BY StepGone DEF Inductive
  <2>3. Gone(a) => ~Exists(a)
    BY DEF Gone
  <2> QED
    BY <2>1, <2>2, <2>3, InductiveCorrect, PTL DEF Spec
<1> QED
  BY <1>1 DEF DeleteSettles

-----------------------------------------------------------------------------
(* The stale saves are the atomic edits of ActivityTable.                  *)

LEMMA HistorySteps == [HistoryNext]_historyVars => [Next]_vars
  BY DEF HistoryNext, historyVars, Next, Finished

\* The versions of a row only become more, by the row that a step leaves.
LEMMA StepVersions ==
  ASSUME TypeOK, HistoryInv, [HistoryNext]_historyVars
  PROVE  /\ VersionsType'
         /\ \A a \in Activity : versions'[a] = versions[a] \cup {activity'[a]}
         /\ \A a \in Activity : activity'[a] = activity[a] => versions'[a] = versions[a]
<1>1. TypeOK'
  BY StepType, HistorySteps
<1>2. \A a \in Activity : activity[a] \in versions[a]
  BY DEF HistoryInv
<1>3. \A a \in Activity : versions[a] = versions[a] \cup {activity[a]}
  BY <1>2
<1>4. VersionsType
  BY DEF HistoryInv
<1>5. CASE versions' = [a \in Activity |-> versions[a] \cup {activity'[a]}]
  <2>1. \A a \in Activity : versions'[a] = versions[a] \cup {activity'[a]}
    BY <1>5
  <2>2. VersionsType'
    BY <1>1, <1>4, <1>5 DEF VersionsType, TypeOK
  <2>3. \A a \in Activity : activity'[a] = activity[a] => versions'[a] = versions[a]
    BY <1>3, <2>1
  <2> QED
    BY <2>1, <2>2, <2>3
<1>6. CASE UNCHANGED <<activity, versions>>
  BY <1>3, <1>4, <1>6 DEF VersionsType
<1> QED
  BY <1>5, <1>6 DEF HistoryNext, historyVars, Remember, Finished, vars

\* What a handler reads was there, allows its operation, and stays a version.
LEMMA StepSource ==
  ASSUME Inductive, HistoryInv, [HistoryNext]_historyVars, NEW d \in Change, step'[d] = "read"
  PROVE  RequireManager(d)' /\ Source(d)' # {}
<1> USE DEF Inductive, HistoryInv
<1>1. /\ change[d] \in ChangeContent /\ change[d].act \in Activity
      /\ [Next]_vars
  BY HistorySteps DEF TypeOK, ChangeContent
<1>2. change' = change
  BY <1>1, AskedStays
<1>3. \A row \in Existed(change[d].act) : row \in Existed(change[d].act)'
  BY <1>1, <1>2, StepVersions DEF Existed
<1>4. CASE step[d] = "read"
  <2>1. copy'[d] = copy[d]
    BY <1>1, <1>4 DEF Next, HandleChange, FailChange, Finished, CreateActivity, ReadRow, SaveRow,
                      DeleteRow, vars, changeVars, TypeOK
  <2>2. PICK row \in Source(d) : TRUE
    BY <1>4
  <2>3. row \in Source(d)'
    BY <1>2, <1>3, <2>1, <2>2 DEF Source, Edited, StatusAfter
  <2> QED
    BY <1>2, <1>4, <2>3 DEF RequireManager
<1>5. CASE step[d] # "read"
  <2>1. ReadRow(d) /\ Allowed(d) /\ change[d].op # "create"
    BY <1>1, <1>5 DEF Next, HandleChange, FailChange, Finished, CreateActivity, ReadRow, SaveRow,
                      DeleteRow, Move, vars, changeVars, TypeOK
  <2>2. copy'[d] = Edited(d, activity[change[d].act])
    BY <1>5, <2>1 DEF ReadRow, Move, TypeOK
  <2>3. activity[change[d].act] \in Existed(change[d].act)
    BY <1>1, <2>1 DEF Existed, Allowed, Exists
  <2>4. activity[change[d].act] \in Source(d)'
    BY <1>2, <1>3, <2>1, <2>2, <2>3 DEF Source, Edited, StatusAfter, Allowed, StatusAllows
  <2> QED
    BY <1>2, <2>1, <2>4 DEF Allowed, RequireManager
<1> QED
  BY <1>4, <1>5

\* An id that is still to be assigned has never had a row.
LEMMA StepNeverUsed ==
  ASSUME Inductive, HistoryInv, [HistoryNext]_historyVars,
         NEW d \in Change, NEW a \in Activity, CreatePending(d, a)'
  PROVE  Existed(a)' = {}
<1> USE DEF Inductive
<1>1. FreshInv' /\ change' = change
  BY StepFresh, HistorySteps, AskedStays
<1>2. activity'[a].status = "absent"
  BY <1>1 DEF FreshInv, Exists
<1>3. CreatePending(d, a)
  BY <1>1, HistorySteps DEF CreatePending, Next, HandleChange, FailChange, Finished, CreateActivity,
         ReadRow, SaveRow, DeleteRow, Move, vars, changeVars, TypeOK
<1> QED
  BY <1>2, <1>3, StepVersions DEF HistoryInv, Existed

\* Every copy that is about to be saved is an edit of a version of its row.
THEOREM HistoryCorrect == HistorySpec => []HistoryInductive
<1>1. HistoryInit => HistoryInductive
  <2> SUFFICES ASSUME HistoryInit PROVE HistoryInductive
    OBVIOUS
  <2>1. Inductive
    BY InitInductive DEF HistoryInit
  <2>2. HistoryInv
    BY DEF HistoryInit, Init, ChangeInit, HistoryInv, VersionsType, Existed, CreatePending
  <2> QED
    BY <2>1, <2>2 DEF HistoryInductive
<1>2. HistoryInductive /\ [HistoryNext]_historyVars => HistoryInductive'
  <2> SUFFICES ASSUME HistoryInductive, [HistoryNext]_historyVars PROVE HistoryInductive'
    OBVIOUS
  <2> USE DEF HistoryInductive
  <2>1. Inductive'
    BY HistorySteps, StepType, StepFresh, StepCopy, StepRow DEF Inductive
  <2>2. VersionsType' /\ \A a \in Activity : activity'[a] \in versions'[a]
    BY StepVersions DEF Inductive, HistoryInv
  <2>3. HistoryInv'
    BY <2>2, StepSource, StepNeverUsed DEF HistoryInv
  <2> QED
    BY <2>1, <2>3
<1> QED
  BY <1>1, <1>2, PTL DEF HistorySpec

HistoryAccepted == {c \in Change : step[c] = "ok"}

\* The step of the table for a request that is accepted with row.
LEMMA PutRow ==
  ASSUME TypeOK, HistoryInv, [HistoryNext]_historyVars, NEW c \in Change, NEW row,
         step[c] # "ok", change' = change, Move(c, "ok"),
         activity' = [activity EXCEPT ![change[c].act] = row]
  PROVE  Table!Put(c, row)
<1> DEFINE a == change[c].act
<1>1. a \in Activity
  BY DEF TypeOK, ChangeContent
<1>2. HistoryAccepted' = HistoryAccepted \cup {c} /\ c \notin HistoryAccepted
  BY DEF HistoryAccepted, Move, TypeOK
<1>3. \A b \in Activity \ {a} : versions'[b] = versions[b]
  BY StepVersions DEF TypeOK
<1>4. versions'[a] = versions[a] \cup {row}
  BY <1>1, StepVersions DEF TypeOK
<1>5. VersionsType /\ VersionsType'
  BY StepVersions DEF HistoryInv
<1>6. versions' = [versions EXCEPT ![a] = versions[a] \cup {row}]
  BY <1>3, <1>4, <1>5 DEF VersionsType
<1> QED
  BY <1>2, <1>6 DEF Table!Put, HistoryAccepted

\* Create is the only writer that edits no version.
LEMMA CreateRefines ==
  ASSUME HistoryInductive, [HistoryNext]_historyVars, NEW c \in Change, CreateActivity(c)
  PROVE  Table!Add(c)
<1>1. TypeOK /\ HistoryInv
  BY DEF HistoryInductive, Inductive
<1>2. change[c].by = OrganizerOf[change[c].act] /\ change[c].act \in Activity
  BY <1>1 DEF CreateActivity, TypeOK, ChangeContent
<1>3. Existed(change[c].act) = {}
  BY <1>1, <1>2 DEF CreateActivity, CreatePending, HistoryInv
<1>4. /\ step[c] # "ok" /\ change' = change /\ Move(c, "ok")
      /\ activity' = [activity EXCEPT ![change[c].act] =
                        [status |-> change[c].status, capacity |-> change[c].capacity]]
  BY DEF CreateActivity
<1>5. Table!Put(c, [status |-> change[c].status, capacity |-> change[c].capacity])
  BY <1>1, <1>4, PutRow DEF Table!Put
<1> QED
  BY <1>2, <1>3, <1>5 DEF CreateActivity, Table!Add, Table!Existed, Existed

LEMMA SaveRefines ==
  ASSUME HistoryInductive, [HistoryNext]_historyVars, NEW c \in Change, SaveRow(c)
  PROVE  Table!Amend(c) \/ Table!Advance(c)
<1>1. TypeOK /\ HistoryInv
  BY DEF HistoryInductive, Inductive
<1>2. RequireManager(c) /\ Source(c) # {}
  BY <1>1 DEF SaveRow, HistoryInv
<1>3. PICK old \in Source(c) : TRUE
  BY <1>2
<1>4. /\ old \in Table!Existed(change[c].act) /\ copy[c] = Edited(c, old)
      /\ change[c].op = "publish" => old.status = "draft"
      /\ change[c].op = "end" => old.status = "published"
  BY <1>3 DEF Source, Existed, Table!Existed
<1>5. /\ step[c] # "ok" /\ change' = change /\ Move(c, "ok")
      /\ activity' = [activity EXCEPT ![change[c].act] = copy[c]]
  BY DEF SaveRow
<1>6. Table!Put(c, copy[c])
  BY <1>1, <1>5, PutRow DEF Table!Put
<1>7. Table!MayManage(c)
  BY <1>2 DEF RequireManager, Table!MayManage
<1>8. CASE change[c].op = "update"
  <2>1. copy[c] = [status |-> old.status,
                   capacity |-> IF change[c].capacity = Keep THEN old.capacity
                                ELSE change[c].capacity]
    BY <1>4, <1>8 DEF Edited, StatusAfter
  <2> QED
    BY <1>4, <1>6, <1>7, <1>8, <2>1 DEF Table!Amend, Table!Put
<1>9. CASE change[c].op \in {"publish", "end"}
  <2>1. copy[c] = [status |-> IF change[c].op = "publish" THEN "published" ELSE "ended",
                   capacity |-> old.capacity]
    BY <1>4, <1>9 DEF Edited, StatusAfter
  <2> QED
    BY <1>4, <1>6, <1>7, <1>9, <2>1 DEF Table!Advance, Table!Put
<1> QED
  BY <1>8, <1>9 DEF SaveRow

LEMMA DeleteRefines ==
  ASSUME HistoryInductive, [HistoryNext]_historyVars, NEW c \in Change, DeleteRow(c)
  PROVE  Table!Remove(c)
<1>1. TypeOK /\ HistoryInv
  BY DEF HistoryInductive, Inductive
<1>2. RequireManager(c) /\ Existed(change[c].act) # {}
  BY <1>1 DEF DeleteRow, Source, HistoryInv
<1>3. /\ step[c] # "ok" /\ change' = change /\ Move(c, "ok")
      /\ activity' = [activity EXCEPT ![change[c].act] = [status |-> "absent", capacity |-> 0]]
  BY DEF DeleteRow
<1>4. Table!Put(c, [status |-> "absent", capacity |-> 0])
  BY <1>1, <1>3, PutRow
<1> QED
  BY <1>2, <1>4 DEF DeleteRow, Table!Remove, RequireManager, Table!MayManage, Existed, Table!Existed

\* Every behaviour of the handlers is one of the table of atomic edits: a write
\* is a step of it, and what comes before the write changes nothing there.
THEOREM ActivitiesImplementTable == HistorySpec => ImplementsTable
<1>1. HistoryInit => Table!Init
  BY DEF HistoryInit, Init, ChangeInit, Table!Init
<1>2. ASSUME HistoryInductive, [HistoryNext]_historyVars
      PROVE  [Table!Next]_(Table!vars)
  <2>1. ASSUME NEW c \in Change, ReadRow(c) \/ FailChange(c)
        PROVE  UNCHANGED <<change, activity, versions, HistoryAccepted>>
    <3>1. UNCHANGED <<change, activity>> /\ step[c] # "ok"
      BY <2>1 DEF ReadRow, FailChange, Done
    <3>2. \E label \in {"read", "refused", "failed"} : Move(c, label)
      BY <2>1 DEF ReadRow, FailChange
    <3>3. TypeOK /\ HistoryInv
      BY <1>2 DEF HistoryInductive, Inductive
    <3>4. HistoryAccepted' = HistoryAccepted
      BY <3>1, <3>2, <3>3 DEF HistoryAccepted, Move, TypeOK
    <3>5. \A a \in Activity : versions'[a] = versions[a]
      BY <1>2, <3>1, <3>3, StepVersions
    <3>6. VersionsType /\ VersionsType'
      BY <1>2, <3>3, StepVersions DEF HistoryInv
    <3>7. versions' = versions
      BY <3>5, <3>6 DEF VersionsType
    <3> QED
      BY <3>1, <3>4, <3>7
  <2>2. CASE UNCHANGED historyVars
    BY <2>2 DEF historyVars, vars, changeVars, Table!vars
  <2>3. ASSUME NEW c \in Change, HandleChange(c) \/ FailChange(c)
        PROVE  [Table!Next]_(Table!vars)
    BY <1>2, <2>1, <2>3, CreateRefines, SaveRefines, DeleteRefines
       DEF HandleChange, Table!Next, Table!vars, HistoryAccepted
  <2> QED
    BY <1>2, <2>2, <2>3 DEF HistoryNext, Finished, historyVars
<1> QED
  BY <1>1, <1>2, HistoryCorrect, PTL DEF HistorySpec, ImplementsTable, Table!Spec

(* ActivityTable is worth implementing: its steps alone bring no status and *)
(* no capacity into a row that nobody entitled to it has asked for.        *)

TableType ==
  /\ change \in ChangeWorkload
  /\ activity \in [Activity -> ActivityRow]
  /\ VersionsType

\* What row the step for request c may leave.
PutBy(c, row) ==
  LET versionsOfIt == versions[change[c].act] IN
  \/ /\ change[c].op = "create"
     /\ row.status = change[c].status /\ row.capacity = change[c].capacity
  \/ /\ change[c].op = "delete" /\ row.status = "absent"
  \/ \E old \in versionsOfIt :
       /\ old.status # "absent"
       /\ \/ /\ change[c].op = "update" /\ row.status = old.status
             /\ row.capacity \in {old.capacity, change[c].capacity}
          \/ /\ change[c].op = "publish" /\ row.status = "published"
             /\ row.capacity = old.capacity
          \/ /\ change[c].op = "end" /\ row.status = "ended" /\ old.status = "published"
             /\ row.capacity = old.capacity

LEMMA TableEffect ==
  ASSUME TableType, NEW c \in Change,
         Table!Add(c) \/ Table!Amend(c) \/ Table!Advance(c) \/ Table!Remove(c)
  PROVE  /\ Table!MayManage(c) /\ change[c].act \in Activity
         /\ \E row \in ActivityRow : Table!Put(c, row) /\ PutBy(c, row)
<1>1. change[c] \in ChangeContent /\ (change[c].op = "create" => change[c].capacity \in Nat)
  BY DEF TableType
<1>2. change[c].act \in Activity
  BY <1>1 DEF ChangeContent
<1>3. \A old \in Table!Existed(change[c].act) : old \in ActivityRow
  BY <1>2 DEF TableType, VersionsType, Table!Existed
<1>4. CASE Table!Add(c)
  <2> DEFINE row == [status |-> change[c].status, capacity |-> change[c].capacity]
  <2>1. row \in ActivityRow
    BY <1>1, <1>4 DEF ActivityRow, ChangeContent, Table!Add
  <2>2. Table!Put(c, row) /\ PutBy(c, row)
    BY <1>4 DEF Table!Add, PutBy
  <2> QED
    BY <1>2, <1>4, <2>1, <2>2 DEF Table!Add, Table!MayManage, Table!Put
<1>5. CASE Table!Amend(c)
  <2>1. PICK old \in Table!Existed(change[c].act) :
          Table!Put(c, [status |-> old.status,
                        capacity |-> IF change[c].capacity = Keep THEN old.capacity
                                     ELSE change[c].capacity])
    BY <1>5 DEF Table!Amend, Table!Put
  <2> DEFINE row == [status |-> old.status,
                     capacity |-> IF change[c].capacity = Keep THEN old.capacity
                                  ELSE change[c].capacity]
  <2>2. row \in ActivityRow
    BY <1>1, <1>3 DEF ActivityRow, ChangeContent
  <2>3. PutBy(c, row)
    BY <1>5 DEF Table!Amend, PutBy, Table!Existed
  <2> QED
    BY <1>2, <1>5, <2>1, <2>2, <2>3 DEF Table!Amend, Table!Put
<1>6. CASE Table!Advance(c)
  <2>1. PICK old \in Table!Existed(change[c].act), status \in {"published", "ended"} :
          /\ status = IF change[c].op = "publish" THEN "published" ELSE "ended"
          /\ change[c].op \in {"publish", "end"}
          /\ change[c].op = "end" => old.status = "published"
          /\ Table!Put(c, [status |-> status, capacity |-> old.capacity])
    BY <1>6 DEF Table!Advance, Table!Put
  <2> DEFINE row == [status |-> status, capacity |-> old.capacity]
  <2>2. row \in ActivityRow
    BY <1>3 DEF ActivityRow, ActivityStatus
  <2>3. PutBy(c, row)
    BY <2>1 DEF PutBy, Table!Existed
  <2> QED
    BY <1>2, <1>6, <2>1, <2>2, <2>3 DEF Table!Advance, Table!Put
<1>7. CASE Table!Remove(c)
  <2> DEFINE row == [status |-> "absent", capacity |-> 0]
  <2>1. row \in ActivityRow
    BY DEF ActivityRow
  <2>2. Table!Put(c, row) /\ PutBy(c, row)
    BY <1>7 DEF Table!Remove, PutBy
  <2> QED
    BY <1>2, <1>7, <2>1, <2>2 DEF Table!Remove
<1> QED
  BY <1>4, <1>5, <1>6, <1>7

LEMMA TableStep ==
  ASSUME TableType, Table!Guarantee, NEW c \in Change, NEW row \in ActivityRow,
         Table!MayManage(c), change[c].act \in Activity, Table!Put(c, row), PutBy(c, row)
  PROVE  TableType' /\ Table!Guarantee'
<1> DEFINE a == change[c].act
<1>1. /\ change' = change /\ HistoryAccepted' = HistoryAccepted \cup {c}
      /\ activity' = [activity EXCEPT ![a] = row]
      /\ versions' = [versions EXCEPT ![a] = versions[a] \cup {row}]
  BY DEF Table!Put, HistoryAccepted
<1>2. TableType'
  BY <1>1 DEF TableType, VersionsType
<1>3. versions'[a] = versions[a] \cup {row} /\ \A b \in Activity \ {a} : versions'[b] = versions[b]
  BY <1>1 DEF TableType, VersionsType
<1>4. Table!Current'
  BY <1>1, <1>3 DEF Table!Guarantee, Table!Current, TableType
<1>5. /\ \A d, op, b : Table!Did(d, op, b) => Table!Did(d, op, b)'
      /\ \A op : change[c].op = op => Table!Did(c, op, a)'
  BY <1>1 DEF Table!Did, Table!MayManage, HistoryAccepted
<1>6. ASSUME NEW b \in Activity, NEW old \in versions[b]
      PROVE  (Table!StatusFounded(b, old) /\ Table!CapacityFounded(b, old))'
  <2>1. Table!StatusFounded(b, old) /\ Table!CapacityFounded(b, old)
    BY DEF Table!Guarantee, Table!VersionsFounded
  <2> QED
    BY <1>1, <1>5, <2>1 DEF Table!StatusFounded, Table!CapacityFounded
<1>7. (Table!StatusFounded(a, row) /\ Table!CapacityFounded(a, row))'
  <2>1. CASE change[c].op = "create"
    BY <1>1, <1>5, <2>1 DEF PutBy, Table!StatusFounded, Table!CapacityFounded
  <2>2. CASE change[c].op = "delete"
    BY <1>1, <1>5, <2>2 DEF PutBy, Table!StatusFounded, Table!CapacityFounded
  <2>3. CASE change[c].op \notin {"create", "delete"}
    BY <1>1, <1>5, <1>6, <2>3 DEF PutBy, Table!StatusFounded, Table!CapacityFounded
  <2> QED
    BY <2>1, <2>2, <2>3
<1>8. Table!VersionsFounded'
  <2> SUFFICES ASSUME NEW b \in Activity, NEW old \in versions'[b]
               PROVE  (Table!StatusFounded(b, old) /\ Table!CapacityFounded(b, old))'
    BY DEF Table!VersionsFounded
  <2>1. CASE old \in versions[b]
    BY <1>6, <2>1
  <2>2. CASE b = a /\ old = row
    BY <1>1, <1>7, <2>2 DEF Table!StatusFounded, Table!CapacityFounded
  <2> QED
    BY <1>3, <2>1, <2>2
<1>9. Table!EndsFollow'
  <2> SUFFICES ASSUME NEW b \in Activity, NEW end \in versions'[b], end.status = "ended"
               PROVE  \/ InitialActivity[b].status = "ended"
                      \/ \E old \in versions'[b] : old.status = "published"
                      \/ \E d \in Change : Table!Did(d, "create", b)' /\ change'[d].status = "ended"
    BY DEF Table!EndsFollow
  <2>1. CASE end \in versions[b]
    BY <1>1, <1>3, <1>5, <2>1 DEF Table!Guarantee, Table!EndsFollow
  <2>2. CASE b = a /\ end = row
    <3>1. CASE change[c].op = "create"
      BY <1>1, <1>5, <2>2, <3>1 DEF PutBy
    <3>2. CASE change[c].op # "create"
      <4>1. PICK old \in versions[a] : old.status \in {"published", "ended"}
        BY <2>2, <3>2 DEF PutBy
      <4> QED
        BY <1>1, <1>3, <1>5, <2>2, <4>1 DEF Table!Guarantee, Table!EndsFollow
    <3> QED
      BY <3>1, <3>2
  <2> QED
    BY <1>3, <2>1, <2>2
<1> QED
  BY <1>2, <1>4, <1>8, <1>9 DEF Table!Guarantee

\* The table of atomic edits guarantees that no version of a row was published,
\* ended, deleted or given a capacity but at an accepted request of its organizer
\* or an admin, and that what was ever ended had been published, or had come into
\* the table as ended.
THEOREM TableSuffices == Table!Spec => []Table!Guarantee
<1>1. Table!Init => TableType /\ Table!Guarantee
  BY DEF Table!Init, TableType, VersionsType, Table!Guarantee, Table!Current,
         Table!VersionsFounded, Table!StatusFounded, Table!CapacityFounded, Table!EndsFollow
<1>2. ASSUME TableType, Table!Guarantee, [Table!Next]_(Table!vars)
      PROVE  TableType' /\ Table!Guarantee'
  <2>1. CASE Table!Next
    <3>1. PICK c \in Change :
            Table!Add(c) \/ Table!Amend(c) \/ Table!Advance(c) \/ Table!Remove(c)
      BY <2>1 DEF Table!Next
    <3> QED
      BY <1>2, <3>1, TableEffect, TableStep
  <2>2. CASE UNCHANGED Table!vars
    <3>1. UNCHANGED <<change, activity, versions, HistoryAccepted>>
      BY <2>2 DEF Table!vars, HistoryAccepted
    <3>2. \A c, op, a : Table!Did(c, op, a)' <=> Table!Did(c, op, a)
      BY <3>1 DEF Table!Did, Table!MayManage, HistoryAccepted
    <3>3. TableType' /\ Table!Current' /\ Table!EndsFollow'
      BY <1>2, <3>1, <3>2 DEF TableType, VersionsType, Table!Guarantee, Table!Current,
             Table!EndsFollow
    <3>4. Table!VersionsFounded'
      BY <1>2, <3>1, <3>2 DEF Table!Guarantee, Table!VersionsFounded, Table!StatusFounded,
             Table!CapacityFounded
    <3> QED
      BY <3>3, <3>4 DEF Table!Guarantee
  <2> QED
    BY <1>2, <2>1, <2>2
<1> QED
  BY <1>1, <1>2, PTL DEF Table!Spec
===============================================================================
