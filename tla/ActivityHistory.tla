---------------------------- MODULE ActivityHistory ----------------------------
(***************************************************************************)
(* Activities with the versions that each row has had, a history variable  *)
(* that no handler reads: with it, the stale saves of the handlers are     *)
(* atomic edits of ActivityTable.                                          *)
(***************************************************************************)
EXTENDS Activities

VARIABLE versions

historyVars == <<vars, versions>>

HistoryInit == Init /\ versions = [a \in Activity |-> {InitialActivity[a]}]

Remember == versions' = [a \in Activity |-> versions[a] \cup {activity'[a]}]

HistoryNext ==
  \/ \E c \in Change : (HandleChange(c) \/ FailChange(c)) /\ Remember
  \/ Finished /\ UNCHANGED versions

HistorySpec == HistoryInit /\ [][HistoryNext]_historyVars

-----------------------------------------------------------------------------

Table == INSTANCE ActivityTable WITH done <- {c \in Change : step[c] = "ok"}

\* Handlers that check an unlocked read and save every column of it later
\* (activity_service.go:62-153) implement atomic edits: a request is accepted
\* once, of an entitled account only, and leaves an edit of a version that
\* existed and allowed it, never a mix of two nor an id used before.
ImplementsTable == Table!Spec

-----------------------------------------------------------------------------
(* The inductive invariant behind it, proved in ActivitiesProofs.          *)

Existed(a) == {row \in versions[a] : row.status # "absent"}

\* The version that a handler at work has read and edited.
Source(c) ==
  {row \in Existed(change[c].act) :
     /\ change[c].op = "publish" => row.status = "draft"
     /\ change[c].op = "end" => row.status = "published"
     /\ copy[c] = Edited(c, row)}

VersionsType == versions \in [Activity -> SUBSET ActivityRow]

HistoryInv ==
  /\ VersionsType
  /\ \A a \in Activity : activity[a] \in versions[a]
  /\ \A c \in Change : step[c] = "read" => RequireManager(c) /\ Source(c) # {}
  /\ \A c \in Change, a \in Activity : CreatePending(c, a) => Existed(a) = {}

HistoryInductive == Inductive /\ HistoryInv
=============================================================================
