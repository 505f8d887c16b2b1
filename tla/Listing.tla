------------------------------- MODULE Listing -------------------------------
(***************************************************************************)
(* The lists a user pages through, next to the handlers of Signup that     *)
(* change them: registrations by activity and status (repository List),    *)
(* a user's registrations and a user's notifications (ListByUser), which   *)
(* he then marks as read.  A page is two statements, a COUNT and a SELECT  *)
(* with LIMIT and OFFSET; the client asks for the next page as long as the *)
(* total says there is one.                                                *)
(***************************************************************************)
EXTENDS Statistics, SequencesExt

CONSTANTS
  PageSize,  \* page_size of the requests; at least 1 after Normalize
  CreatedAt  \* the assignments of created_at to the rows considered

\* created_at is taken before the INSERT, so rows may become visible in another
\* order than theirs, and rows of one millisecond share it.
ASSUME ListingAssumption ==
  PageSize \in Nat \ {0} /\ CreatedAt \subseteq [Request -> Nat]

VARIABLES
  created,  \* created_at of the rows each request inserts
  isRead,   \* notifications that are marked as read
  page,     \* the page a client is at
  total,    \* the total of that page
  shown,    \* the rows the client has been shown
  steady,   \* history: the rows that were in the list all the time
  left,     \* history: a row has left the list since the first page
  late      \* history: a row has joined the list since the last COUNT

walkVars == <<page, total, shown>>
historyVars == <<steady, left, late>>
listVars == <<created, isRead, walkVars, historyVars>>
listingVars == <<vars, statVars, listVars>>

ReportTypeOK ==
  /\ report \in ReportWorkload /\ created \in CreatedAt
  /\ stage \in [Report -> {"start", "found", "counted", "turned", "seen"} \cup Answered]
  /\ registered \in [Report -> Nat] /\ checked \in [Report -> Nat]
  /\ missed \in [Report -> SUBSET Request]
  /\ isRead \subseteq notified
  /\ page \in [Report -> Nat \ {0}] /\ total \in [Report -> Nat]
  /\ shown \in [Report -> SUBSET Request] /\ steady \in [Report -> SUBSET Request]
  /\ left \in [Report -> BOOLEAN] /\ late \in [Report -> BOOLEAN]

ListInit ==
  /\ Init /\ StatInit
  /\ created \in CreatedAt
  /\ isRead = {}
  /\ page = [p \in Report |-> 1]
  /\ total = [p \in Report |-> 0]
  /\ shown = [p \in Report |-> {}] /\ steady = [p \in Report |-> {}]
  /\ left = [p \in Report |-> FALSE] /\ late = [p \in Report |-> FALSE]

-----------------------------------------------------------------------------
(* Queries.                                                                *)

\* A notification goes to the user of its registration.
Addressee(q) == IF req[q].op = "create" THEN req[q].by ELSE req[req[q].reg].by

NotificationsOf(u) == {q \in notified : Addressee(q) = u}

Matches(p, r) ==
  /\ Present(r)
  /\ report[p].act \in {"any", req[r].act}
  /\ report[p].status \in {"any", registration[r].status}
  /\ report[p].review \in {"any", registration[r].review}

\* The rows that the WHERE clause of a list selects.
Rows(p) ==
  {r \in Request :
     \/ report[p].op = "registrations" /\ Matches(p, r)
     \/ report[p].op = "mine" /\ Present(r) /\ req[r].by = report[p].by
     \/ report[p].op = "notifications" /\ r \in NotificationsOf(report[p].by)}

\* The results ORDER BY created_at DESC may have: rows of one millisecond come
\* in any order, in each statement anew.
Ordered(rows) ==
  {s \in SetToSeqs(rows) :
     \A i, j \in DOMAIN s : i < j => created[s[i]] >= created[s[j]]}

\* Mutant: OFFSET counts pages from zero.
PageOfFromZero(p, s) == {s[i] : i \in {j \in DOMAIN s : j > page[p] * PageSize
                                                   /\ j <= (page[p] + 1) * PageSize}}

\* OFFSET (page - 1) * page_size LIMIT page_size
PageOf(p, s) == {s[i] : i \in {j \in DOMAIN s : j > (page[p] - 1) * PageSize
                                           /\ j <= page[p] * PageSize}}

-----------------------------------------------------------------------------

IsList(p) == report[p].op \in {"registrations", "mine", "notifications"}

\* Mutant: the COUNT is made of the query that has the OFFSET already.
TotalFromOffset(p) == IF page[p] = 1 THEN Cardinality(Rows(p)) ELSE 0

\* The COUNT of the rows, without OFFSET and LIMIT.
TotalOf(p) == Cardinality(Rows(p))

CountRows(p) ==
  /\ IsList(p)
  /\ \/ Advance(p, "start", "counted") /\ steady' = [steady EXCEPT ![p] = Rows(p)]
     \/ Advance(p, "turned", "counted") /\ UNCHANGED steady
  /\ total' = [total EXCEPT ![p] = TotalOf(p)]
  /\ late' = [late EXCEPT ![p] = FALSE]
  /\ UNCHANGED <<registered, checked, missed, created, isRead, page, shown, left>>

\* The client goes on to the next page; after the last one, a user who reads
\* his notifications marks them all as read.
ShowRows(p) ==
  LET more == page[p] * PageSize < total[p]
      inbox == report[p].op = "notifications"
  IN
  /\ IsList(p)
  /\ \E s \in Ordered(Rows(p)) : shown' = [shown EXCEPT ![p] = @ \cup PageOf(p, s)]
  /\ \/ /\ more /\ Advance(p, "counted", "turned")
        /\ page' = [page EXCEPT ![p] = @ + 1]
     \/ ~more /\ inbox /\ Advance(p, "counted", "seen") /\ UNCHANGED page
     \/ ~more /\ ~inbox /\ Advance(p, "counted", "ok") /\ UNCHANGED page
  /\ UNCHANGED <<registered, checked, missed, created, isRead, total, historyVars>>

\* Mutant: the UPDATE names the notification alone.
ReadByAnyone(p) == {report[p].of} \cap notified

\* MarkRead: WHERE id = ? AND user_id = ?, which may find nothing.
ReadByUser(p) == {report[p].of} \cap NotificationsOf(report[p].by)

MarkRead(p) ==
  /\ report[p].op = "read"
  /\ Advance(p, "start", "ok")
  /\ isRead' = isRead \cup ReadByUser(p)
  /\ UNCHANGED <<registered, checked, missed, created, walkVars, historyVars>>

MarkAllRead(p) ==
  /\ Advance(p, "seen", "ok")
  /\ isRead' = isRead \cup NotificationsOf(report[p].by)
  /\ UNCHANGED <<registered, checked, missed, created, walkVars, historyVars>>

FailReport(p) ==
  /\ stage[p] \in {"found", "counted", "turned", "seen"}
  /\ Advance(p, stage[p], "failed")
  /\ UNCHANGED <<registered, checked, missed, listVars>>

ReportStep(p) ==
  \/ Stats(p) /\ UNCHANGED listVars
  \/ CountRows(p) \/ ShowRows(p) \/ MarkRead(p) \/ MarkAllRead(p) \/ FailReport(p)

Walking(p) == IsList(p) /\ stage[p] \in {"counted", "turned"}

\* A step of Signup may change the lists that are being read.  Signups stay
\* open: a deadline only ends them.
SignupStep ==
  /\ \E q \in Request : Handle(q) \/ Fail(q)
  /\ UNCHANGED <<report, stage, registered, checked, created, isRead, walkVars>>
  /\ missed' = [p \in Report |-> missed[p] \cup Misses(p)]
  /\ steady' = [p \in Report |-> IF Walking(p) THEN steady[p] \cap Rows(p)' ELSE steady[p]]
  /\ left' = [p \in Report |-> left[p] \/ (Walking(p) /\ Rows(p) \ Rows(p)' # {})]
  /\ late' = [p \in Report |-> late[p] \/ (Walking(p) /\ Rows(p)' \ Rows(p) # {})]

AllDone == (\A p \in Report : stage[p] \in Answered) /\ Finished /\ UNCHANGED <<statVars, listVars>>

ListNext ==
  \/ (\E p \in Report : ReportStep(p)) /\ UNCHANGED vars
  \/ SignupStep
  \/ AllDone

ListSpec == ListInit /\ [][ListNext]_listingVars

-----------------------------------------------------------------------------

\* What may hide a row from a client who pages through a whole list.
Excused(p, r) ==
  \/ r \notin steady[p]
  \/ left[p]
  \/ late[p]
  \/ \E s \in shown[p] : s # r /\ created[s] = created[r]

ShownAll(p) ==
  IsList(p) /\ stage[p] \in {"seen", "ok"} => \A r \in Request : r \in shown[p] \/ Excused(p, r)

\* A client who reads a list to its last page has seen every row that was
\* there all the time (registration_repository.go:108-111), unless meanwhile a
\* row left the list and the later ones moved up a page, a row joined between
\* the last COUNT and its SELECT, or another of the same millisecond was shown
\* in its place: the pending registrations a manager decides while he pages
\* are the typical case.
WalkShowsAll == \A p \in Report : ShownAll(p)

\* A notification is marked as read only by a request of the user it is for
\* (notification_repository.go:64), who named it, or marked all and was shown
\* it or missed it for one of those reasons: a signup, a decision or a check-in
\* committed after he opened the list is the one that is read unseen.
ReadKnowingly ==
  \A q \in isRead : \E p \in Report :
    /\ stage[p] = "ok" /\ report[p].by = Addressee(q)
    /\ \/ report[p].op = "read" /\ report[p].of = q
       \/ report[p].op = "notifications" /\ (q \in shown[p] \/ Excused(p, q))

(* The inductive invariant behind them, proved in ListingProofs.           *)

Hidden(p, r) ==
  /\ r \in steady[p] \ shown[p] /\ ~left[p]
  /\ \A s \in shown[p] : s # r => created[s] # created[r]

Younger(p, r) == {s \in Rows(p) : created[s] > created[r]}

\* Every client starts at the first page; what is marked at the end are
\* notifications.
StageInv ==
  \A p \in Report :
    /\ stage[p] = "start" => page[p] = 1
    /\ stage[p] = "seen" => report[p].op = "notifications"

\* A row that a client has missed so far has a younger one for each place on
\* the pages he has turned, so no page can skip it; and the total is right as
\* long as nothing joins or leaves.
PlaceInv(p) ==
  Walking(p) =>
    /\ steady[p] \subseteq Rows(p)
    /\ \A r \in Request : Hidden(p, r) =>
         (page[p] - 1) * PageSize <= Cardinality(Younger(p, r))
    /\ stage[p] = "counted" /\ ~left[p] /\ ~late[p] => total[p] = Cardinality(Rows(p))

WalkInv == \A p \in Report : PlaceInv(p)

ListingInductive ==
  ReportTypeOK /\ CountInv /\ SkewBounded /\ StageInv /\ WalkInv /\ WalkShowsAll /\ ReadKnowingly
=============================================================================
