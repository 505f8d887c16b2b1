--------------------------- MODULE AccountDirectory ---------------------------
(***************************************************************************)
(* What the users table promises to the rest of the system: each request   *)
(* to register, to log in or to update a profile is accepted in one atomic *)
(* step, allowed by the table as it is at that moment, or changes nothing. *)
(* Accounts implements this specification.                                 *)
(*                                                                         *)
(* The promise is no stronger than the handlers keep: an update may put    *)
(* back an earlier text of the columns it does not name.                   *)
(***************************************************************************)

CONSTANTS Request, Username, Trim, Key, Secret, Field, Blank, NoUser, AccountWorkload

VARIABLES
  ask,    \* what each request asks for
  user,   \* the accounts, by the request that registered them
  token,  \* the claims each login was answered with
  done    \* the requests that have been accepted

vars == <<ask, user, token, done>>

NoClaims == [id |-> Blank, username |-> Blank, role |-> Blank]

Init ==
  /\ ask \in AccountWorkload
  /\ user = [r \in Request |-> NoUser]
  /\ token = [r \in Request |-> NoClaims]
  /\ done = {}

Stored == {i \in Request : user[i] # NoUser}

Named(name) == {i \in Stored : Key[user[i].username] = Key[name]}

\* A request is accepted once.
Accept(r) == r \notin done /\ done' = done \cup {r} /\ UNCHANGED ask

\* Nobody registers as an admin, nor under a name that is taken.
Enroll(r) ==
  LET name == Trim[ask[r].username] IN
  /\ ask[r].op = "register" /\ ask[r].role # "admin"
  /\ Named(name) = {}
  /\ \E own \in SUBSET Field :
       user' = [user EXCEPT ![r] =
         [username |-> name, secret |-> ask[r].secret,
          role |-> IF ask[r].role = "organizer" THEN "organizer" ELSE "user",
          profile |-> [f \in Field |-> IF f \in own THEN r ELSE Blank]]]
  /\ Accept(r) /\ UNCHANGED token

Issue(r) ==
  /\ ask[r].op = "login"
  /\ \E i \in Named(ask[r].username) :
       /\ user[i].secret = ask[r].secret
       /\ token' = [token EXCEPT ![r] =
            [id |-> i, username |-> user[i].username, role |-> user[i].role]]
  /\ Accept(r) /\ UNCHANGED user

\* v is the text that column f of account i got when it was registered, or by
\* an accepted update of its owner.
TextOf(i, f, v) ==
  \/ v \in {i, Blank}
  \/ v \in done /\ ask[v].op = "update" /\ token[ask[v].login].id = i /\ f \in ask[v].sets

\* An update sets the columns it has a text for, in the account of its token.
Amend(r) ==
  LET i == token[ask[r].login].id IN
  /\ ask[r].op = "update" /\ token[ask[r].login] # NoClaims
  /\ \E text \in [Field -> Request \cup {Blank}] :
       /\ \A f \in Field : f \in ask[r].sets => text[f] = r
       /\ \A f \in Field : f \notin ask[r].sets => TextOf(i, f, text[f])
       /\ user' = [user EXCEPT ![i].profile = text]
  /\ Accept(r) /\ UNCHANGED token

Next == \E r \in Request : Enroll(r) \/ Issue(r) \/ Amend(r)

Spec == Init /\ [][Next]_vars

-----------------------------------------------------------------------------
(* What these steps alone guarantee, proved in AccountsProofs.             *)

OnePerName ==
  \A i, j \in Stored : Key[user[i].username] = Key[user[j].username] => i = j

TokensTrue ==
  \A l \in Request : token[l] # NoClaims =>
    LET i == token[l].id IN
    /\ i \in Stored
    /\ token[l].username = user[i].username /\ token[l].role = user[i].role
    /\ ask[l].secret = user[i].secret

OwnTexts == \A i \in Stored, f \in Field : TextOf(i, f, user[i].profile[f])

UserRow == [username : Username, secret : Secret, role : {"user", "organizer"},
            profile : [Field -> Request \cup {Blank}]]

RowsOK ==
  /\ ask \in AccountWorkload /\ done \subseteq Request
  /\ user \in [Request -> UserRow \cup {NoUser}] /\ DOMAIN token = Request
  /\ \A r \in Request : r \notin done => r \notin Stored /\ token[r] = NoClaims

Guarantee == RowsOK /\ OnePerName /\ TokensTrue /\ OwnTexts

\* An account stays, with its name, password and role.
IdentityForGood ==
  [][\A i \in Stored :
       /\ i \in Stored' /\ user'[i].username = user[i].username
       /\ user'[i].secret = user[i].secret /\ user'[i].role = user[i].role]_vars
=============================================================================
