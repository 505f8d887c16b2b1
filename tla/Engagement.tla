------------------------------ MODULE Engagement ------------------------------
(***************************************************************************)
(* Favorites and comments (service/favorite_service.go,                    *)
(* service/comment_service.go) next to the operations of organizers on the *)
(* activities they are about (module Activities).  No handler here runs a  *)
(* transaction: an activity is looked up by one statement, its favorite or *)
(* comment inserted by a later one, and nothing removes them with it.      *)
(*                                                                         *)
(* A row is named by the visit that inserted it.                           *)
(***************************************************************************)
EXTENDS Activities, FiniteSets, FiniteSetsExt

CONSTANTS
  Visit,         \* the requests about favorites and comments in a behaviour
  VisitWorkload  \* the assignments of contents to Visit considered

VisitOp == {"favorite", "unfavorite", "comment", "uncomment", "comments"}

\* comment: the row an uncomment request names; rating: of a comment.
VisitContent == [op : VisitOp, by : User, act : Activity, comment : Visit, rating : Nat]

ASSUME EngagementAssumption ==
  VisitWorkload \subseteq [Visit -> VisitContent]

VARIABLES
  visit,     \* what each visit asks for, fixed when the behaviour starts
  at,        \* how far its handler has come
  favorite,  \* table favorites
  comment,   \* table comments
  listed,    \* the comments a comment list shows
  average    \* the ratings its avg_rating is the average of

visitVars == <<visit, at, favorite, comment, listed, average>>
engageVars == <<vars, visitVars>>

Answers == {"ok", "refused", "conflict", "failed"}

Ratings == 1..5

\* An avg_rating as a sum and a number of ratings; COALESCE turns none into 0.
NoRating == [sum |-> 0, count |-> 0]

EngagementTypeOK ==
  /\ visit \in VisitWorkload
  /\ at \in [Visit -> {"start", "found", "checked"} \cup Answers]
  /\ favorite \subseteq Visit
  /\ comment \subseteq {v \in Visit : visit[v].rating \in Ratings}
  /\ listed \in [Visit -> SUBSET Visit]
  /\ DOMAIN average = Visit

VisitInit ==
  /\ visit \in VisitWorkload
  /\ at = [v \in Visit |-> "start"]
  /\ favorite = {} /\ comment = {}
  /\ listed = [v \in Visit |-> {}]
  /\ average = [v \in Visit |-> NoRating]

EngagementInit == Init /\ VisitInit

-----------------------------------------------------------------------------
(* Queries.                                                                *)

FavoritesOf(u, a) == {v \in favorite : visit[v].by = u /\ visit[v].act = a}

CommentsOn(a) == {v \in comment : visit[v].act = a}

AverageOver(rows) ==
  [sum |-> MapThenSumSet(LAMBDA v : visit[v].rating, rows), count |-> Cardinality(rows)]

\* Mutant: the average is taken over all activities.
AvgRatingOfAll(a) == AverageOver(comment)

AvgRating(a) == AverageOver(CommentsOn(a))

-----------------------------------------------------------------------------
(* Steps of a handler.                                                     *)

Step(v, op, from, to) ==
  /\ visit[v].op = op /\ at[v] = from
  /\ at' = [at EXCEPT ![v] = to]
  /\ UNCHANGED visit

\* Mutant: the lookup of the activity is left out.
ActivityFoundAlways(v) == TRUE

\* ActivityService.Get: the row must exist, in whatever status it is.
ActivityFound(v) == Exists(visit[v].act)

\* FavoriteService.Add: look the activity up, then the favorite, then insert;
\* the loser of two insertions is told of an internal error.
FavoriteFind(v) ==
  /\ \/ ActivityFound(v) /\ Step(v, "favorite", "start", "found")
     \/ ~ActivityFound(v) /\ Step(v, "favorite", "start", "refused")
  /\ UNCHANGED <<favorite, comment, listed, average>>

FavoriteExists(v) ==
  LET exists == FavoritesOf(visit[v].by, visit[v].act) # {} IN
  /\ \/ ~exists /\ Step(v, "favorite", "found", "checked")
     \/ exists /\ Step(v, "favorite", "found", "conflict")
  /\ UNCHANGED <<favorite, comment, listed, average>>

\* Mutant: the table has no unique index.
FavoriteKeyFree(v) == FALSE

\* uk_favorites_user_activity
FavoriteKeyTaken(v) == FavoritesOf(visit[v].by, visit[v].act) # {}

FavoriteInsert(v) ==
  /\ \/ /\ ~FavoriteKeyTaken(v)
        /\ Step(v, "favorite", "checked", "ok")
        /\ favorite' = favorite \cup {v}
     \/ /\ FavoriteKeyTaken(v)
        /\ Step(v, "favorite", "checked", "failed")
        /\ UNCHANGED favorite
  /\ UNCHANGED <<comment, listed, average>>

\* Mutant: the WHERE clause names the activity alone.
RemovedFromActivity(v) == {w \in favorite : visit[w].act = visit[v].act}

Removed(v) == FavoritesOf(visit[v].by, visit[v].act)

\* FavoriteService.Remove: one DELETE, which may find nothing.
FavoriteRemove(v) ==
  /\ Step(v, "unfavorite", "start", "ok")
  /\ favorite' = favorite \ Removed(v)
  /\ UNCHANGED <<comment, listed, average>>

\* CommentService.Create: the rating is checked, the activity looked up, and
\* the comment inserted by a later statement.
CommentFind(v) ==
  LET accepted == visit[v].rating \in Ratings /\ ActivityFound(v) IN
  /\ \/ accepted /\ Step(v, "comment", "start", "found")
     \/ ~accepted /\ Step(v, "comment", "start", "refused")
  /\ UNCHANGED <<favorite, comment, listed, average>>

CommentInsert(v) ==
  /\ Step(v, "comment", "found", "ok")
  /\ comment' = comment \cup {v}
  /\ UNCHANGED <<favorite, listed, average>>

\* Mutant: any account may delete a comment.
AnyoneDeletes(v) == visit[v].comment \in comment

\* The comment is there and belongs to the operator, or he is an admin.
MayDelete(v) ==
  /\ visit[v].comment \in comment
  /\ visit[v].by \in Admin \/ visit[v].by = visit[visit[v].comment].by

\* CommentService.Delete: an unlocked read, then a DELETE by id, which may find
\* nothing when another request was faster.
CommentCheck(v) ==
  /\ \/ MayDelete(v) /\ Step(v, "uncomment", "start", "found")
     \/ ~MayDelete(v) /\ Step(v, "uncomment", "start", "refused")
  /\ UNCHANGED <<favorite, comment, listed, average>>

CommentDelete(v) ==
  /\ Step(v, "uncomment", "found", "ok")
  /\ comment' = comment \ {visit[v].comment}
  /\ UNCHANGED <<favorite, listed, average>>

\* CommentHandler.List: the comments by one statement, the average by another.
CommentList(v) ==
  /\ Step(v, "comments", "start", "found")
  /\ listed' = [listed EXCEPT ![v] = CommentsOn(visit[v].act)]
  /\ UNCHANGED <<favorite, comment, average>>

CommentAverage(v) ==
  /\ Step(v, "comments", "found", "ok")
  /\ average' = [average EXCEPT ![v] = AvgRating(visit[v].act)]
  /\ UNCHANGED <<favorite, comment, listed>>

\* The handler drops an error of the second statement and shows 0.
CommentAverageFails(v) ==
  Step(v, "comments", "found", "ok") /\ UNCHANGED <<favorite, comment, listed, average>>

\* A statement errs, or the process stops, between two statements.
VisitFails(v) ==
  /\ \/ \E op \in {"favorite", "comment", "uncomment"} : Step(v, op, "found", "failed")
     \/ Step(v, "favorite", "checked", "failed")
  /\ UNCHANGED <<favorite, comment, listed, average>>

FavoriteAdd(v) == FavoriteFind(v) \/ FavoriteExists(v) \/ FavoriteInsert(v)
CommentCreate(v) == CommentFind(v) \/ CommentInsert(v)
CommentRemove(v) == CommentCheck(v) \/ CommentDelete(v)
CommentShow(v) == CommentList(v) \/ CommentAverage(v) \/ CommentAverageFails(v)

HandleVisit(v) ==
  FavoriteAdd(v) \/ FavoriteRemove(v) \/ CommentCreate(v) \/ CommentRemove(v) \/ CommentShow(v)

VisitStep == (\E v \in Visit : HandleVisit(v) \/ VisitFails(v)) /\ UNCHANGED vars

ChangeStep == (\E c \in Change : HandleChange(c) \/ FailChange(c)) /\ UNCHANGED visitVars

EngagementDone == (\A v \in Visit : at[v] \in Answers) /\ Finished /\ UNCHANGED visitVars

EngagementNext == VisitStep \/ ChangeStep \/ EngagementDone

EngagementSpec == EngagementInit /\ [][EngagementNext]_engageVars

-----------------------------------------------------------------------------

\* However many Adds of one favorite pass the check before one of them inserts
\* (favorite_service.go:30-39), a user has one favorite per activity.
OneFavoritePerUser ==
  \A v, w \in favorite :
    visit[v].by = visit[w].by /\ visit[v].act = visit[w].act => v = w

RemoveAccepted(u, a) ==
  \E w \in Visit : /\ visit[w].op = "unfavorite" /\ at[w] = "ok"
                   /\ visit[w].by = u /\ visit[w].act = a

\* A user who was told that an activity is his favorite, now or already, has
\* it among them until he himself removes it: nobody else's request, and not
\* the end of the activity, takes it away.
FavoriteKept ==
  \A v \in Visit :
    visit[v].op = "favorite" /\ at[v] \in {"ok", "conflict"} =>
      \/ FavoritesOf(visit[v].by, visit[v].act) # {}
      \/ RemoveAccepted(visit[v].by, visit[v].act)

\* A comment that was accepted is there until its author or an admin has
\* deleted it (comment_service.go:64), although the check and the DELETE are
\* two statements.
CommentKept ==
  \A v \in Visit :
    visit[v].op = "comment" /\ at[v] = "ok" /\ v \notin comment =>
      \E w \in Visit : /\ visit[w].op = "uncomment" /\ at[w] = "ok" /\ visit[w].comment = v
                       /\ visit[w].by \in Admin \/ visit[w].by = visit[v].by

\* An activity is gone and no request that is still running has seen it.
Abandoned(a) ==
  /\ ~Exists(a) /\ Quiet(a) /\ \A c \in Change : ~CreatePending(c, a)
  /\ \A v \in Visit : /\ visit[v].op \in {"favorite", "comment"} /\ visit[v].act = a
                      => at[v] \notin {"found", "checked"}

\* A favorite or comment can be inserted on a deleted activity, but only by a
\* request that found it before: once those are through, the rows that are
\* left behind only become fewer.
OrphansSettle ==
  [][\A a \in Activity : Abandoned(a) =>
       /\ Abandoned(a)'
       /\ {v \in favorite' \cup comment' : visit[v].act = a} \subseteq favorite \cup comment]_engageVars

\* A comment list and its average disagree only when a comment was posted or
\* deleted between the two statements (comment_handler.go:36-41) or the second
\* one failed.
AverageOfList ==
  [][\A v \in Visit :
       /\ visit[v].op = "comments" /\ at[v] = "found" /\ at'[v] = "ok"
       /\ CommentsOn(visit[v].act) = listed[v]
       => average'[v] \in {NoRating, AverageOver(listed[v])}]_engageVars

(* The inductive invariant behind them, proved in EngagementProofs.        *)

\* Rows are inserted by the visits that were answered ok, and a visit that is
\* about to write has passed its checks.
VisitInv ==
  /\ \A v \in favorite : visit[v].op = "favorite" /\ at[v] = "ok"
  /\ \A v \in comment : visit[v].op = "comment" /\ at[v] = "ok"
  /\ \A v \in Visit : at[v] = "conflict" => visit[v].op = "favorite"
  /\ \A v \in Visit : at[v] = "found" /\ visit[v].op = "comment" => visit[v].rating \in Ratings
  /\ \A v \in Visit : at[v] = "found" /\ visit[v].op = "uncomment" =>
       visit[v].by \in Admin \/ visit[v].by = visit[visit[v].comment].by

EngagementInductive ==
  EngagementTypeOK /\ VisitInv /\ OneFavoritePerUser /\ FavoriteKept /\ CommentKept
=============================================================================
