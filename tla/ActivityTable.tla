----------------------------- MODULE ActivityTable -----------------------------
(***************************************************************************)
(* What the organizers' operations promise to the rest of the system: each *)
(* accepted request writes the row of its activity in one atomic step, as  *)
(* an edit of one version that the row has had.  Handlers, their copies    *)
(* and the locks they wait for are gone; ActivityHistory shows that        *)
(* Activities implements this specification.                               *)
(*                                                                         *)
(* The promise is no stronger than the handlers keep: the version that is  *)
(* edited need not be the latest one, so a write may undo others, and may  *)
(* bring back a row that was deleted.                                      *)
(***************************************************************************)

CONSTANTS Change, Admin, Activity, OrganizerOf, InitialActivity, ChangeWorkload, Keep

VARIABLES
  change,    \* what each request asks for
  activity,  \* table activities
  versions,  \* the rows that each activity has had
  done       \* the requests that have been accepted

vars == <<change, activity, versions, done>>

Init ==
  /\ change \in ChangeWorkload
  /\ activity = InitialActivity
  /\ versions = [a \in Activity |-> {InitialActivity[a]}]
  /\ done = {}

Existed(a) == {row \in versions[a] : row.status # "absent"}

MayManage(c) == change[c].by \in Admin \/ change[c].by = OrganizerOf[change[c].act]

\* Request c is accepted, once, with the row it leaves.
Put(c, row) ==
  LET a == change[c].act IN
  /\ c \notin done /\ done' = done \cup {c}
  /\ activity' = [activity EXCEPT ![a] = row]
  /\ versions' = [versions EXCEPT ![a] = @ \cup {row}]
  /\ UNCHANGED change

\* A new activity gets an id under which there never was a row, and belongs to
\* the account that asks for it.
Add(c) ==
  /\ change[c].op = "create" /\ change[c].by = OrganizerOf[change[c].act]
  /\ Existed(change[c].act) = {}
  /\ Put(c, [status |-> change[c].status, capacity |-> change[c].capacity])

Amend(c) ==
  /\ change[c].op = "update" /\ MayManage(c)
  /\ \E old \in Existed(change[c].act) :
       Put(c, [status |-> old.status,
               capacity |-> IF change[c].capacity = Keep THEN old.capacity ELSE change[c].capacity])

\* A publication edits a version that was a draft, an end a published one.
Advance(c) ==
  /\ MayManage(c)
  /\ \E old \in Existed(change[c].act) :
       \/ /\ change[c].op = "publish" /\ old.status = "draft"
          /\ Put(c, [status |-> "published", capacity |-> old.capacity])
       \/ /\ change[c].op = "end" /\ old.status = "published"
          /\ Put(c, [status |-> "ended", capacity |-> old.capacity])

Remove(c) ==
  /\ change[c].op = "delete" /\ MayManage(c) /\ Existed(change[c].act) # {}
  /\ Put(c, [status |-> "absent", capacity |-> 0])

Next == \E c \in Change : Add(c) \/ Amend(c) \/ Advance(c) \/ Remove(c)

Spec == Init /\ [][Next]_vars

-----------------------------------------------------------------------------
(* What these steps alone guarantee, proved in ActivitiesProofs.           *)

\* An accepted request for op on a, by somebody entitled to it.
Did(c, op, a) == c \in done /\ MayManage(c) /\ change[c].op = op /\ change[c].act = a

StatusFounded(a, row) ==
  \/ row.status = InitialActivity[a].status
  \/ row.status = "published" /\ \E c \in Change : Did(c, "publish", a)
  \/ row.status = "ended" /\ \E c \in Change : Did(c, "end", a)
  \/ row.status = "absent" /\ \E c \in Change : Did(c, "delete", a)
  \/ \E c \in Change : Did(c, "create", a) /\ row.status = change[c].status

CapacityFounded(a, row) ==
  \/ row.status = "absent"
  \/ row.capacity = InitialActivity[a].capacity
  \/ \E c \in Change : /\ Did(c, "create", a) \/ Did(c, "update", a)
                       /\ row.capacity = change[c].capacity

\* No version was published, ended or deleted, and none had a capacity, but at
\* an accepted request of the organizer or of an admin.
VersionsFounded ==
  \A a \in Activity : \A row \in versions[a] : StatusFounded(a, row) /\ CapacityFounded(a, row)

\* What was ever ended had been published, or was created or began as ended.
EndsFollow ==
  \A a \in Activity :
    (\E row \in versions[a] : row.status = "ended") =>
      \/ InitialActivity[a].status = "ended"
      \/ \E old \in versions[a] : old.status = "published"
      \/ \E c \in Change : Did(c, "create", a) /\ change[c].status = "ended"

\* The row that is served is a version.
Current == \A a \in Activity : activity[a] \in versions[a]

Guarantee == Current /\ VersionsFounded /\ EndsFollow
=============================================================================
