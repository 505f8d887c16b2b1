--------------------------- MODULE EngagementProofs ---------------------------
(***************************************************************************)
(* Proofs about Engagement, for any number of visits and of operations on  *)
(* activities: who has which favorites and comments, and that rows stop    *)
(* being added to an activity that is gone.                                *)
(***************************************************************************)
EXTENDS Engagement, ActivitiesProofs

USE EngagementAssumption

LEMMA EngagementInitInductive == EngagementInit => EngagementInductive
  BY DEF EngagementInit, VisitInit, EngagementInductive, EngagementTypeOK, VisitInv,
         OneFavoritePerUser, FavoriteKept, CommentKept, Answers

\* Operations on activities leave favorites and comments alone.
LEMMA VisitsUnchanged ==
  EngagementInductive /\ UNCHANGED visitVars => EngagementInductive'
<1> SUFFICES ASSUME EngagementInductive, UNCHANGED visitVars PROVE EngagementInductive'
    OBVIOUS
<1>1. EngagementTypeOK' /\ VisitInv'
  BY DEF EngagementInductive, EngagementTypeOK, VisitInv, visitVars
<1>2. OneFavoritePerUser' /\ FavoriteKept' /\ CommentKept'
  BY DEF EngagementInductive, OneFavoritePerUser, FavoriteKept, CommentKept, FavoritesOf,
         RemoveAccepted, visitVars
<1> QED
  BY <1>1, <1>2 DEF EngagementInductive

\* A step of visit v that writes no row and leaves it in `to`.
LEMMA StepWithoutWrite ==
  ASSUME EngagementInductive, NEW v \in Visit, NEW op, NEW from, NEW to,
         Step(v, op, from, to), UNCHANGED <<favorite, comment>>,
         DOMAIN average' = Visit, listed' \in [Visit -> SUBSET Visit],
         from \in {"start", "found", "checked"},
         to \in {"found", "checked"} \cup Answers,
         to = "ok" => op = "comments",
         to = "conflict" =>
           op = "favorite" /\ FavoritesOf(visit[v].by, visit[v].act) # {},
         to = "found" /\ op = "comment" => visit[v].rating \in Ratings,
         to = "found" /\ op = "uncomment" =>
           visit[v].by \in Admin \/ visit[v].by = visit[visit[v].comment].by
  PROVE  EngagementInductive'
<1>1. /\ visit' = visit /\ at' = [at EXCEPT ![v] = to] /\ visit[v].op = op /\ at[v] = from
      /\ at \in [Visit -> {"start", "found", "checked"} \cup Answers]
  BY DEF Step, EngagementInductive, EngagementTypeOK
<1>2. EngagementTypeOK'
  BY <1>1 DEF EngagementInductive, EngagementTypeOK
<1>3. VisitInv'
  BY <1>1 DEF EngagementInductive, VisitInv
<1>4. OneFavoritePerUser'
  BY <1>1 DEF EngagementInductive, OneFavoritePerUser
<1>5. \A w \in Visit : at[w] = "ok" => at'[w] = "ok"
  BY <1>1
<1>6. FavoriteKept'
  <2> SUFFICES ASSUME NEW w \in Visit, visit[w].op = "favorite", at'[w] \in {"ok", "conflict"}
               PROVE  \/ \E x \in favorite : visit[x].by = visit[w].by /\ visit[x].act = visit[w].act
                      \/ \E x \in Visit : /\ visit[x].op = "unfavorite" /\ at'[x] = "ok"
                                          /\ visit[x].by = visit[w].by
                                          /\ visit[x].act = visit[w].act
    BY <1>1 DEF FavoriteKept, FavoritesOf, RemoveAccepted
  <2>1. CASE at[w] \in {"ok", "conflict"}
    <3>1. \/ FavoritesOf(visit[w].by, visit[w].act) # {}
          \/ RemoveAccepted(visit[w].by, visit[w].act)
      BY <2>1 DEF EngagementInductive, FavoriteKept
    <3> QED
      BY <3>1, <1>5 DEF FavoritesOf, RemoveAccepted
  <2>2. CASE at[w] \notin {"ok", "conflict"}
    <3>1. w = v /\ to = "conflict"
      BY <2>2, <1>1
    <3> QED
      BY <3>1 DEF FavoritesOf
  <2> QED
    BY <2>1, <2>2
<1>7. CommentKept'
  <2> SUFFICES ASSUME NEW w \in Visit, visit[w].op = "comment", at'[w] = "ok", w \notin comment
               PROVE  \E u \in Visit :
                        /\ visit[u].op = "uncomment" /\ at'[u] = "ok" /\ visit[u].comment = w
                        /\ visit[u].by \in Admin \/ visit[u].by = visit[w].by
    BY <1>1 DEF CommentKept
  <2>1. at[w] = "ok"
    BY <1>1
  <2> QED
    BY <1>5, <2>1 DEF EngagementInductive, CommentKept
<1> QED
  BY <1>2, <1>3, <1>4, <1>6, <1>7 DEF EngagementInductive

\* Adding a favorite keeps them unique: the index refuses the second one.
LEMMA FavoriteInsertStep ==
  ASSUME EngagementInductive, NEW v \in Visit, Step(v, "favorite", "checked", "ok"),
         ~FavoriteKeyTaken(v), favorite' = favorite \cup {v},
         UNCHANGED <<comment, listed, average>>
  PROVE  EngagementInductive'
<1>1. /\ visit' = visit /\ at' = [at EXCEPT ![v] = "ok"]
      /\ visit[v].op = "favorite" /\ at[v] = "checked"
      /\ at \in [Visit -> {"start", "found", "checked"} \cup Answers]
  BY DEF Step, EngagementInductive, EngagementTypeOK
<1>2. EngagementTypeOK' /\ VisitInv'
  BY <1>1 DEF EngagementInductive, EngagementTypeOK, VisitInv, Answers
<1>3. OneFavoritePerUser'
  <2>1. \A w \in favorite : ~(visit[w].by = visit[v].by /\ visit[w].act = visit[v].act)
    BY DEF FavoriteKeyTaken, FavoritesOf
  <2> QED
    BY <1>1, <2>1 DEF EngagementInductive, OneFavoritePerUser
<1>4. \A w \in Visit : w # v => at'[w] = at[w]
  BY <1>1
<1>5. FavoriteKept'
  <2> SUFFICES ASSUME NEW w \in Visit, visit[w].op = "favorite", at'[w] \in {"ok", "conflict"}
               PROVE  \/ \E x \in favorite' : visit[x].by = visit[w].by /\ visit[x].act = visit[w].act
                      \/ \E x \in Visit : /\ visit[x].op = "unfavorite" /\ at'[x] = "ok"
                                          /\ visit[x].by = visit[w].by
                                          /\ visit[x].act = visit[w].act
    BY <1>1 DEF FavoriteKept, FavoritesOf, RemoveAccepted
  <2>1. CASE w = v
    BY <2>1
  <2>2. CASE w # v
    <3>1. \/ FavoritesOf(visit[w].by, visit[w].act) # {}
          \/ RemoveAccepted(visit[w].by, visit[w].act)
      BY <2>2, <1>4 DEF EngagementInductive, FavoriteKept
    <3> QED
      BY <3>1, <1>1, <1>4 DEF FavoritesOf, RemoveAccepted
  <2> QED
    BY <2>1, <2>2
<1>6. CommentKept'
  <2> SUFFICES ASSUME NEW w \in Visit, visit[w].op = "comment", at'[w] = "ok", w \notin comment
               PROVE  \E u \in Visit :
                        /\ visit[u].op = "uncomment" /\ at'[u] = "ok" /\ visit[u].comment = w
                        /\ visit[u].by \in Admin \/ visit[u].by = visit[w].by
    BY <1>1 DEF CommentKept
  <2>1. at[w] = "ok"
    BY <1>1, <1>4
  <2> QED
    BY <1>1, <1>4, <2>1 DEF EngagementInductive, CommentKept
<1> QED
  BY <1>2, <1>3, <1>5, <1>6 DEF EngagementInductive

\* A removal takes the favorites of its user only, and is on record for them.
LEMMA FavoriteRemoveStep ==
  ASSUME EngagementInductive, NEW v \in Visit, FavoriteRemove(v)
  PROVE  EngagementInductive'
<1>1. /\ visit' = visit /\ at' = [at EXCEPT ![v] = "ok"]
      /\ visit[v].op = "unfavorite" /\ at[v] = "start"
      /\ favorite' = favorite \ FavoritesOf(visit[v].by, visit[v].act)
      /\ UNCHANGED <<comment, listed, average>>
      /\ at \in [Visit -> {"start", "found", "checked"} \cup Answers]
  BY DEF FavoriteRemove, Removed, Step, EngagementInductive, EngagementTypeOK
<1>2. EngagementTypeOK' /\ VisitInv' /\ OneFavoritePerUser'
  BY <1>1 DEF EngagementInductive, EngagementTypeOK, VisitInv, Answers, OneFavoritePerUser
<1>3. at'[v] = "ok" /\ \A w \in Visit : w # v => at'[w] = at[w]
  BY <1>1
<1>4. FavoriteKept'
  <2> SUFFICES ASSUME NEW w \in Visit, visit[w].op = "favorite", at'[w] \in {"ok", "conflict"}
               PROVE  \/ \E x \in favorite' : visit[x].by = visit[w].by /\ visit[x].act = visit[w].act
                      \/ \E x \in Visit : /\ visit[x].op = "unfavorite" /\ at'[x] = "ok"
                                          /\ visit[x].by = visit[w].by
                                          /\ visit[x].act = visit[w].act
    BY <1>1 DEF FavoriteKept, FavoritesOf, RemoveAccepted
  <2>1. CASE visit[w].by = visit[v].by /\ visit[w].act = visit[v].act
    BY <2>1, <1>1, <1>3
  <2>2. CASE ~(visit[w].by = visit[v].by /\ visit[w].act = visit[v].act)
    <3>1. at'[w] = at[w]
      BY <1>1, <1>3
    <3>2. \/ FavoritesOf(visit[w].by, visit[w].act) # {}
          \/ RemoveAccepted(visit[w].by, visit[w].act)
      BY <3>1 DEF EngagementInductive, FavoriteKept
    <3> QED
      BY <2>2, <3>2, <1>1, <1>3 DEF FavoritesOf, RemoveAccepted
  <2> QED
    BY <2>1, <2>2
<1>5. CommentKept'
  <2> SUFFICES ASSUME NEW w \in Visit, visit[w].op = "comment", at'[w] = "ok", w \notin comment
               PROVE  \E u \in Visit :
                        /\ visit[u].op = "uncomment" /\ at'[u] = "ok" /\ visit[u].comment = w
                        /\ visit[u].by \in Admin \/ visit[u].by = visit[w].by
    BY <1>1 DEF CommentKept
  <2>1. at[w] = "ok"
    BY <1>1, <1>3
  <2> QED
    BY <1>1, <1>3, <2>1 DEF EngagementInductive, CommentKept
<1> QED
  BY <1>2, <1>4, <1>5 DEF EngagementInductive

\* A step of one visit touches neither table, or comments only: favorites are kept.
LEMMA FavoritesUntouched ==
  ASSUME EngagementInductive, NEW v \in Visit, visit' = visit, favorite' = favorite,
         at' = [at EXCEPT ![v] = "ok"], visit[v].op \notin {"favorite", "unfavorite"},
         at[v] \notin {"ok", "conflict"}
  PROVE  FavoriteKept' /\ OneFavoritePerUser'
<1>1. OneFavoritePerUser'
  BY DEF EngagementInductive, OneFavoritePerUser
<1>2. \A w \in Visit : /\ w # v => at'[w] = at[w]
                       /\ at[w] = "ok" => at'[w] = "ok"
  BY DEF EngagementInductive, EngagementTypeOK
<1>3. FavoriteKept'
  <2> SUFFICES ASSUME NEW w \in Visit, visit[w].op = "favorite", at'[w] \in {"ok", "conflict"}
               PROVE  \/ \E x \in favorite : visit[x].by = visit[w].by /\ visit[x].act = visit[w].act
                      \/ \E x \in Visit : /\ visit[x].op = "unfavorite" /\ at'[x] = "ok"
                                          /\ visit[x].by = visit[w].by
                                          /\ visit[x].act = visit[w].act
    BY DEF FavoriteKept, FavoritesOf, RemoveAccepted
  <2>1. at'[w] = at[w]
    BY <1>2
  <2>2. \/ FavoritesOf(visit[w].by, visit[w].act) # {}
        \/ RemoveAccepted(visit[w].by, visit[w].act)
    BY <2>1 DEF EngagementInductive, FavoriteKept
  <2> QED
    BY <2>2, <1>2 DEF FavoritesOf, RemoveAccepted
<1> QED
  BY <1>1, <1>3

\* A comment is inserted with a rating that was checked.
LEMMA CommentInsertStep ==
  ASSUME EngagementInductive, NEW v \in Visit, CommentInsert(v)
  PROVE  EngagementInductive'
<1>1. /\ visit' = visit /\ at' = [at EXCEPT ![v] = "ok"]
      /\ visit[v].op = "comment" /\ at[v] = "found"
      /\ comment' = comment \cup {v}
      /\ UNCHANGED <<favorite, listed, average>>
      /\ at \in [Visit -> {"start", "found", "checked"} \cup Answers]
  BY DEF CommentInsert, Step, EngagementInductive, EngagementTypeOK
<1>2. visit[v].rating \in Ratings
  BY <1>1 DEF EngagementInductive, VisitInv
<1>3. EngagementTypeOK' /\ VisitInv'
  BY <1>1, <1>2 DEF EngagementInductive, EngagementTypeOK, VisitInv, Answers
<1>4. FavoriteKept' /\ OneFavoritePerUser'
  BY <1>1, FavoritesUntouched
<1>5. CommentKept'
  BY <1>1 DEF EngagementInductive, CommentKept
<1> QED
  BY <1>3, <1>4, <1>5 DEF EngagementInductive

\* A deletion was allowed when it was checked, and owners do not change.
LEMMA CommentDeleteStep ==
  ASSUME EngagementInductive, NEW v \in Visit, CommentDelete(v)
  PROVE  EngagementInductive'
<1>1. /\ visit' = visit /\ at' = [at EXCEPT ![v] = "ok"]
      /\ visit[v].op = "uncomment" /\ at[v] = "found"
      /\ comment' = comment \ {visit[v].comment}
      /\ UNCHANGED <<favorite, listed, average>>
      /\ at \in [Visit -> {"start", "found", "checked"} \cup Answers]
  BY DEF CommentDelete, Step, EngagementInductive, EngagementTypeOK
<1>2. visit[v].by \in Admin \/ visit[v].by = visit[visit[v].comment].by
  BY <1>1 DEF EngagementInductive, VisitInv
<1>3. EngagementTypeOK' /\ VisitInv'
  BY <1>1 DEF EngagementInductive, EngagementTypeOK, VisitInv, Answers
<1>4. FavoriteKept' /\ OneFavoritePerUser'
  BY <1>1, FavoritesUntouched
<1>5. CommentKept'
  BY <1>1, <1>2 DEF EngagementInductive, CommentKept
<1> QED
  BY <1>3, <1>4, <1>5 DEF EngagementInductive

\* One step of one visit.
LEMMA VisitInductive ==
  ASSUME EngagementInductive, NEW v \in Visit, HandleVisit(v) \/ VisitFails(v)
  PROVE  EngagementInductive'
<1>1. /\ listed \in [Visit -> SUBSET Visit] /\ DOMAIN average = Visit
      /\ favorite \subseteq Visit /\ comment \subseteq Visit
  BY DEF EngagementInductive, EngagementTypeOK
<1> USE DEF Answers
<1>2. CASE FavoriteFind(v)
  <2>1. /\ UNCHANGED <<favorite, comment, listed, average>>
        /\ \/ Step(v, "favorite", "start", "found")
           \/ Step(v, "favorite", "start", "refused")
    BY <1>2 DEF FavoriteFind
  <2> QED
    BY <2>1, <1>1, StepWithoutWrite
<1>3. CASE FavoriteExists(v)
  <2>1. /\ UNCHANGED <<favorite, comment, listed, average>>
        /\ \/ Step(v, "favorite", "found", "checked")
           \/ /\ Step(v, "favorite", "found", "conflict")
              /\ FavoritesOf(visit[v].by, visit[v].act) # {}
    BY <1>3 DEF FavoriteExists
  <2> QED
    BY <2>1, <1>1, StepWithoutWrite
<1>4. CASE FavoriteInsert(v)
  <2>1. CASE FavoriteKeyTaken(v)
    <3>1. /\ UNCHANGED <<favorite, comment, listed, average>>
          /\ Step(v, "favorite", "checked", "failed")
      BY <1>4, <2>1 DEF FavoriteInsert
    <3> QED
      BY <3>1, <1>1, StepWithoutWrite
  <2>2. CASE ~FavoriteKeyTaken(v)
    BY <1>4, <2>2, FavoriteInsertStep DEF FavoriteInsert
  <2> QED
    BY <2>1, <2>2
<1>5. CASE FavoriteRemove(v)
  BY <1>5, FavoriteRemoveStep
<1>6. CASE CommentFind(v)
  <2>1. /\ UNCHANGED <<favorite, comment, listed, average>>
        /\ \/ Step(v, "comment", "start", "found") /\ visit[v].rating \in Ratings
           \/ Step(v, "comment", "start", "refused")
    BY <1>6 DEF CommentFind
  <2> QED
    BY <2>1, <1>1, StepWithoutWrite
<1>7. CASE CommentInsert(v)
  BY <1>7, CommentInsertStep
<1>8. CASE CommentCheck(v)
  <2>1. /\ UNCHANGED <<favorite, comment, listed, average>>
        /\ \/ /\ Step(v, "uncomment", "start", "found")
              /\ visit[v].by \in Admin \/ visit[v].by = visit[visit[v].comment].by
           \/ Step(v, "uncomment", "start", "refused")
    BY <1>8 DEF CommentCheck, MayDelete
  <2> QED
    BY <2>1, <1>1, StepWithoutWrite
<1>9. CASE CommentDelete(v)
  BY <1>9, CommentDeleteStep
<1>10. CASE CommentList(v)
  <2>1. /\ UNCHANGED <<favorite, comment, average>>
        /\ Step(v, "comments", "start", "found")
        /\ listed' \in [Visit -> SUBSET Visit]
    BY <1>10, <1>1 DEF CommentList, CommentsOn
  <2> QED
    BY <2>1, <1>1, StepWithoutWrite
<1>11. CASE CommentAverage(v) \/ CommentAverageFails(v)
  <2>1. /\ UNCHANGED <<favorite, comment, listed>>
        /\ Step(v, "comments", "found", "ok")
        /\ DOMAIN average' = Visit
    BY <1>11, <1>1 DEF CommentAverage, CommentAverageFails
  <2> QED
    BY <2>1, <1>1, StepWithoutWrite
<1>12. CASE VisitFails(v)
  <2>1. /\ UNCHANGED <<favorite, comment, listed, average>>
        /\ \/ Step(v, "favorite", "found", "failed")
           \/ Step(v, "comment", "found", "failed")
           \/ Step(v, "uncomment", "found", "failed")
           \/ Step(v, "favorite", "checked", "failed")
    BY <1>12 DEF VisitFails
  <2> QED
    BY <2>1, <1>1, StepWithoutWrite
<1> QED
  BY <1>2, <1>3, <1>4, <1>5, <1>6, <1>7, <1>8, <1>9, <1>10, <1>11, <1>12
     DEF HandleVisit, FavoriteAdd, CommentCreate, CommentRemove, CommentShow

-----------------------------------------------------------------------------
(* A deleted activity.                                                     *)

\* Every step of Engagement is one of Activities, or leaves its state alone.
LEMMA EngagementRefinesActivities == EngagementNext => [Next]_vars
  BY DEF EngagementNext, VisitStep, ChangeStep, EngagementDone, Next, Finished

\* A settled activity stays so, whatever its organizers do next.
LEMMA ChangesStaySettled ==
  ASSUME TypeOK, [Next]_vars, NEW a \in Activity,
         ~Exists(a), Quiet(a), \A c \in Change : ~CreatePending(c, a)
  PROVE  ~Exists(a)' /\ Quiet(a)' /\ \A c \in Change : ~CreatePending(c, a)'
<1> USE DEF TypeOK, Exists, Quiet, CreatePending, Move
<1>1. ASSUME NEW c \in Change, CreateActivity(c)
      PROVE  ~Exists(a)' /\ Quiet(a)' /\ \A d \in Change : ~CreatePending(d, a)'
  BY <1>1 DEF CreateActivity
<1>2. ASSUME NEW c \in Change, ReadRow(c)
      PROVE  ~Exists(a)' /\ Quiet(a)' /\ \A d \in Change : ~CreatePending(d, a)'
  BY <1>2 DEF ReadRow, Allowed
<1>3. ASSUME NEW c \in Change, SaveRow(c)
      PROVE  ~Exists(a)' /\ Quiet(a)' /\ \A d \in Change : ~CreatePending(d, a)'
  BY <1>3 DEF SaveRow
<1>4. ASSUME NEW c \in Change, DeleteRow(c)
      PROVE  ~Exists(a)' /\ Quiet(a)' /\ \A d \in Change : ~CreatePending(d, a)'
  BY <1>4 DEF DeleteRow
<1>5. ASSUME NEW c \in Change, FailChange(c)
      PROVE  ~Exists(a)' /\ Quiet(a)' /\ \A d \in Change : ~CreatePending(d, a)'
  BY <1>5 DEF FailChange
<1>6. CASE UNCHANGED vars
  BY <1>6 DEF vars, changeVars
<1> QED
  BY <1>1, <1>2, <1>3, <1>4, <1>5, <1>6 DEF Next, HandleChange, Finished

\* Once an activity is settled no visit finds it or inserts a row for it.
LEMMA VisitsStaySettled ==
  ASSUME EngagementTypeOK, NEW a \in Activity, ~Exists(a),
         \A v \in Visit : visit[v].op \in {"favorite", "comment"} /\ visit[v].act = a
                            => at[v] \notin {"found", "checked"},
         NEW w \in Visit, HandleVisit(w) \/ VisitFails(w)
  PROVE  /\ visit' = visit
         /\ \A v \in Visit : visit[v].op \in {"favorite", "comment"} /\ visit[v].act = a
                               => at'[v] \notin {"found", "checked"}
         /\ \A v \in favorite' \cup comment' :
              visit[v].act = a => v \in favorite \cup comment
<1> USE DEF EngagementTypeOK, Step
<1> DEFINE Goal == /\ visit' = visit
                   /\ \A v \in Visit : visit[v].op \in {"favorite", "comment"} /\ visit[v].act = a
                                         => at'[v] \notin {"found", "checked"}
                   /\ \A v \in favorite' \cup comment' :
                        visit[v].act = a => v \in favorite \cup comment
<1>1. CASE FavoriteFind(w) \/ CommentFind(w)
  BY <1>1 DEF FavoriteFind, CommentFind, ActivityFound
<1>2. CASE FavoriteExists(w) \/ FavoriteInsert(w) \/ CommentInsert(w)
  BY <1>2 DEF FavoriteExists, FavoriteInsert, CommentInsert
<1>3. CASE FavoriteRemove(w) \/ CommentCheck(w) \/ CommentDelete(w)
  BY <1>3 DEF FavoriteRemove, CommentCheck, CommentDelete
<1>4. CASE CommentList(w) \/ CommentAverage(w) \/ CommentAverageFails(w)
  BY <1>4 DEF CommentList, CommentAverage, CommentAverageFails
<1>5. CASE VisitFails(w)
  BY <1>5 DEF VisitFails
<1> QED
  BY <1>1, <1>2, <1>3, <1>4, <1>5
     DEF HandleVisit, FavoriteAdd, CommentCreate, CommentRemove, CommentShow

\* The step of OrphansSettle.
LEMMA SettledStep ==
  ASSUME TypeOK, EngagementTypeOK, [EngagementNext]_engageVars, NEW a \in Activity, Abandoned(a)
  PROVE  /\ Abandoned(a)'
         /\ {v \in favorite' \cup comment' : visit[v].act = a} \subseteq favorite \cup comment
<1>1. [Next]_vars
  BY EngagementRefinesActivities DEF engageVars
<1>2. ~Exists(a)' /\ Quiet(a)' /\ \A c \in Change : ~CreatePending(c, a)'
  BY <1>1, ChangesStaySettled DEF Abandoned
<1>3. CASE UNCHANGED visitVars
  BY <1>2, <1>3 DEF Abandoned, visitVars
<1>4. ASSUME NEW w \in Visit, HandleVisit(w) \/ VisitFails(w)
      PROVE  /\ Abandoned(a)'
             /\ {v \in favorite' \cup comment' : visit[v].act = a} \subseteq favorite \cup comment
  <2>1. /\ visit' = visit
        /\ \A v \in Visit : visit[v].op \in {"favorite", "comment"} /\ visit[v].act = a
                              => at'[v] \notin {"found", "checked"}
        /\ \A v \in favorite' \cup comment' :
             visit[v].act = a => v \in favorite \cup comment
    BY <1>4, VisitsStaySettled DEF Abandoned
  <2> QED
    BY <1>2, <2>1 DEF Abandoned
<1> QED
  BY <1>3, <1>4 DEF EngagementNext, VisitStep, ChangeStep, EngagementDone, engageVars

-----------------------------------------------------------------------------
(* Comment lists and their averages.                                       *)

\* Until its second statement a comment list has no average.
AverageUnset ==
  \A v \in Visit :
    visit[v].op = "comments" /\ at[v] \in {"start", "found"} => average[v] = NoRating

\* A visit never goes back to its start, and only the second statement of a
\* list, which ends it, sets an average.
LEMMA AverageSetOnce ==
  ASSUME EngagementTypeOK, AverageUnset, [EngagementNext]_engageVars
  PROVE  AverageUnset'
<1> USE DEF EngagementTypeOK, AverageUnset, Step
<1>1. CASE UNCHANGED visitVars
  BY <1>1 DEF visitVars
<1>2. ASSUME NEW w \in Visit, HandleVisit(w) \/ VisitFails(w)
      PROVE  AverageUnset'
  <2>1. CASE FavoriteFind(w) \/ FavoriteExists(w) \/ FavoriteInsert(w) \/ FavoriteRemove(w)
    BY <2>1 DEF FavoriteFind, FavoriteExists, FavoriteInsert, FavoriteRemove
  <2>2. CASE CommentFind(w) \/ CommentInsert(w) \/ CommentCheck(w) \/ CommentDelete(w)
    BY <2>2 DEF CommentFind, CommentInsert, CommentCheck, CommentDelete
  <2>3. CASE CommentList(w) \/ CommentAverageFails(w)
    BY <2>3 DEF CommentList, CommentAverageFails
  <2>4. CASE CommentAverage(w)
    BY <2>4 DEF CommentAverage
  <2>5. CASE VisitFails(w)
    BY <2>5 DEF VisitFails
  <2> QED
    BY <1>2, <2>1, <2>2, <2>3, <2>4, <2>5
       DEF HandleVisit, FavoriteAdd, CommentCreate, CommentRemove, CommentShow
<1> QED
  BY <1>1, <1>2 DEF EngagementNext, VisitStep, ChangeStep, EngagementDone, engageVars

\* The step of AverageOfList.
LEMMA AverageStep ==
  ASSUME EngagementTypeOK, AverageUnset, [EngagementNext]_engageVars,
         NEW v \in Visit, visit[v].op = "comments", at[v] = "found", at'[v] = "ok",
         CommentsOn(visit[v].act) = listed[v]
  PROVE  average'[v] \in {NoRating, AverageOver(listed[v])}
<1>1. PICK w \in Visit : HandleVisit(w) \/ VisitFails(w)
  BY DEF EngagementNext, VisitStep, ChangeStep, EngagementDone, engageVars, visitVars
<1>2. \/ CommentAverage(v)
      \/ UNCHANGED average
  <2>1. CASE CommentAverage(w)
    <3>1. w = v
      BY <2>1 DEF CommentAverage, Step, EngagementTypeOK
    <3> QED
      BY <2>1, <3>1
  <2>2. CASE ~CommentAverage(w)
    BY <1>1, <2>2
       DEF HandleVisit, FavoriteAdd, CommentCreate, CommentRemove, CommentShow, VisitFails,
           FavoriteFind, FavoriteExists, FavoriteInsert, FavoriteRemove, CommentFind,
           CommentInsert, CommentCheck, CommentDelete, CommentList, CommentAverageFails
  <2> QED
    BY <2>1, <2>2
<1>3. CASE CommentAverage(v)
  BY <1>3 DEF CommentAverage, AvgRating, EngagementTypeOK
<1>4. CASE UNCHANGED average
  BY <1>4 DEF AverageUnset
<1> QED
  BY <1>2, <1>3, <1>4

-----------------------------------------------------------------------------
(* The theorems.                                                           *)

\* However visits and changes of activities interleave, the inductive
\* invariant of the handlers of favorites and comments holds.
THEOREM EngagementCorrect == EngagementSpec => []EngagementInductive
<1>1. EngagementInductive /\ [EngagementNext]_engageVars => EngagementInductive'
  BY VisitInductive, VisitsUnchanged
     DEF EngagementNext, VisitStep, ChangeStep, EngagementDone, engageVars
<1> QED
  BY EngagementInitInductive, <1>1, PTL DEF EngagementSpec

\* A user has at most one favorite per activity.
THEOREM FavoritesUnique == EngagementSpec => []OneFavoritePerUser
BY EngagementCorrect, PTL DEF EngagementInductive

\* A favorite that was confirmed stays until its user removes it.
THEOREM FavoritesStay == EngagementSpec => []FavoriteKept
BY EngagementCorrect, PTL DEF EngagementInductive

\* A comment stays until its author or an admin deletes it.
THEOREM CommentsStay == EngagementSpec => []CommentKept
BY EngagementCorrect, PTL DEF EngagementInductive

\* An activity that is gone gets no favorite or comment once the requests that
\* had seen it are through.
THEOREM OrphansCease == EngagementSpec => OrphansSettle
<1>1. EngagementInit => TypeOK
  BY InitInductive DEF EngagementInit, Inductive
<1>2. TypeOK /\ [EngagementNext]_engageVars => TypeOK'
  BY EngagementRefinesActivities, StepType DEF engageVars
<1>3. ASSUME TypeOK, EngagementInductive, [EngagementNext]_engageVars
      PROVE  \A a \in Activity : Abandoned(a) =>
               /\ Abandoned(a)'
               /\ {v \in favorite' \cup comment' : visit[v].act = a} \subseteq favorite \cup comment
  BY <1>3, SettledStep DEF EngagementInductive
<1> QED
  BY <1>1, <1>2, <1>3, EngagementCorrect, PTL DEF EngagementSpec, OrphansSettle

\* A comment list agrees with its average unless a comment came or went in
\* between, or the second statement failed.
THEOREM AveragesAgree == EngagementSpec => AverageOfList
<1>1. EngagementInit => AverageUnset
  BY DEF EngagementInit, VisitInit, AverageUnset
<1>2. EngagementInductive /\ AverageUnset /\ [EngagementNext]_engageVars => AverageUnset'
  BY AverageSetOnce DEF EngagementInductive
<1>3. ASSUME EngagementInductive, AverageUnset, [EngagementNext]_engageVars
      PROVE  \A v \in Visit :
               /\ visit[v].op = "comments" /\ at[v] = "found" /\ at'[v] = "ok"
               /\ CommentsOn(visit[v].act) = listed[v]
               => average'[v] \in {NoRating, AverageOver(listed[v])}
  BY <1>3, AverageStep DEF EngagementInductive
<1> QED
  BY <1>1, <1>2, <1>3, EngagementCorrect, PTL DEF EngagementSpec, AverageOfList
\* Whoever adds a favorite or writes a comment leaves the activities table as
\* it is: to the operations of organizers, a behaviour with visitors is one
\* without (favorite_service.go:26-39, comment_service.go:24-49), and what is
\* proved of them holds next to visitors too.
THEOREM VisitorsUndisturbing == EngagementSpec => Spec
<1>1. EngagementInit => Init
  BY DEF EngagementInit
<1>2. [EngagementNext]_engageVars => [Next]_vars
  BY EngagementRefinesActivities DEF engageVars, vars
<1> QED
  BY <1>1, <1>2, PTL DEF EngagementSpec, Spec

\* Visitors see an activity only as its organizers put it: a published or
\* ended one was asked for, an end stays, and a deleted activity does not come
\* back once the requests that had read it are through.
THEOREM VisitedAsRequested ==
  EngagementSpec => []RowOnRequest /\ EndSettles /\ DeleteSettles
BY VisitorsUndisturbing, RowsOnRequest, EndedForGood, DeletedForGood, PTL
=============================================================================
