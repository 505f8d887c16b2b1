----------------------------- MODULE MCEngagement -----------------------------
(***************************************************************************)
(* Finite instances of Engagement: two users and an admin visit activity   *)
(* a1 while its organizer edits and deletes it; a2 stays.                  *)
(***************************************************************************)
EXTENDS Engagement, TLC

CONSTANTS u1, u2, org, adm, a1, a2

MCUser == {u1, u2, org, adm}
MCActivity == {a1, a2}
MCOrganizerOf == [a \in MCActivity |-> org]
BothPublished == [a \in MCActivity |-> [status |-> "published", capacity |-> 2]]

Edit(op) == [op |-> op, by |-> org, act |-> a1, status |-> "draft", capacity |-> Keep]

\* A deletion, and a request that may write the row again or end it before.
MCChangeWorkload ==
  {w \in [Change -> {Edit("delete"), Edit("update"), Edit("end")}] :
     w[1].op = "delete" /\ w[2].op # "delete"}

Content(op, by, act, row, rating) ==
  [op |-> op, by |-> by, act |-> act, comment |-> row, rating |-> rating]
On(op, by) == Content(op, by, a1, 1, 3)

\* Favorites of two users, added at once and removed.
FavoriteVisits == {On("favorite", u1), On("favorite", u2), On("unfavorite", u1)}

\* Comments posted with ratings at and beyond the limits, on either activity,
\* deleted by the author, another user and an admin, and listed.
CommentVisits ==
  {Content("comment", u2, a1, 1, 5), Content("comment", u2, a2, 1, 1),
   Content("comment", u2, a1, 1, 0), Content("comment", u2, a1, 1, 6),
   On("uncomment", u1), On("uncomment", u2), On("uncomment", adm), On("comments", u2)}

MCVisitWorkload ==
  {w \in [Visit -> FavoriteVisits \cup CommentVisits \cup {On("comment", u1)}] :
     \/ w[1] = On("favorite", u1) /\ \A v \in Visit : w[v] \in FavoriteVisits
     \/ w[1] = On("comment", u1) /\ \A v \in Visit \ {1} : w[v] \in CommentVisits}
=============================================================================
