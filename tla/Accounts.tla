------------------------------- MODULE Accounts -------------------------------
(***************************************************************************)
(* The users table: registration, login and profile changes                *)
(* (service/user_service.go, repository/user_repository.go, util/jwt.go).  *)
(*                                                                         *)
(* Register looks for the name and inserts by a later statement under the  *)
(* unique index; UpdateProfile reads the row, edits a copy and saves every *)
(* column of it; a login answers with a token that carries the account's   *)
(* id, name and role.  No statement runs in a transaction with another.    *)
(***************************************************************************)
EXTENDS Naturals

CONSTANTS
  Request,          \* the requests of a behaviour
  Username,         \* usernames as clients type them
  Trim,             \* strings.TrimSpace
  Key,              \* what the collation of column username compares
  Length,           \* how many characters a username has
  Secret,           \* passwords of six to 72 characters
  Field,            \* the profile columns
  Blank,            \* the content of a profile column nobody has set
  NoUser,           \* a row that is not there
  AccountWorkload   \* the assignments of contents to Request considered

Role == {"user", "organizer"}

\* A row is named by the request that inserts it, and the content of a profile
\* column by the request it comes from.
UserRow == [username : Username, secret : Secret, role : Role,
            profile : [Field -> Request \cup {Blank}]]

\* username, secret and role are those of a register or login request, login
\* is the login whose token an update presents, and sets are the profile
\* columns for which a register or update request has a text.
RequestContent == [op : {"register", "login", "update"}, username : Username, secret : Secret,
                   role : Role \cup {"", "admin"}, login : Request, sets : SUBSET Field]

ASSUME AccountsAssumption ==
  /\ Trim \in [Username -> Username] /\ Key \in [Username -> Username]
  /\ Length \in [Username -> Nat]
  /\ Blank \notin Request /\ NoUser \notin UserRow
  /\ AccountWorkload \subseteq [Request -> RequestContent]

VARIABLES
  ask,      \* what each request asks for, fixed when the behaviour starts
  step,     \* how far the handler of each request has come
  user,     \* table users
  copy,     \* the row that the handler of an update has read
  token,    \* the claims in the token a login was answered with
  answered  \* history: the requests answered when an update read its row

vars == <<ask, step, user, copy, token, answered>>

Done == {"ok", "refused", "failed"}
Claims == [id : Request, username : Username, role : Role]
NoClaims == [id |-> Blank, username |-> Blank, role |-> Blank]

TypeOK ==
  /\ ask \in AccountWorkload
  /\ step \in [Request -> {"start", "checked", "read"} \cup Done]
  /\ user \in [Request -> UserRow \cup {NoUser}]
  /\ copy \in [Request -> UserRow \cup {NoUser}]
  /\ token \in [Request -> Claims \cup {NoClaims}]
  /\ answered \in [Request -> SUBSET Request]

Init ==
  /\ ask \in AccountWorkload
  /\ step = [r \in Request |-> "start"]
  /\ user = [r \in Request |-> NoUser]
  /\ copy = [r \in Request |-> NoUser]
  /\ token = [r \in Request |-> NoClaims]
  /\ answered = [r \in Request |-> {}]

-----------------------------------------------------------------------------

Is(r, op, label) == ask[r].op = op /\ step[r] = label
Move(r, label) == step' = [step EXCEPT ![r] = label]

FindByUsername(name) == {i \in Request : user[i] # NoUser /\ Key[user[i].username] = Key[name]}

\* The index is on the same column, so it compares by the same collation.
UniqueIndexAllows(name) == FindByUsername(name) = {}

\* The length and the role are checked as the client typed them.
Valid(r) == Length[ask[r].username] >= 3 /\ ask[r].role \in Role \cup {""}

RegisterFind(r) ==
  LET free == Valid(r) /\ FindByUsername(Trim[ask[r].username]) = {} IN
  /\ Is(r, "register", "start")
  /\ Move(r, IF free THEN "checked" ELSE "refused")
  /\ UNCHANGED <<ask, user, copy, token, answered>>

\* A nickname that is left out becomes the username; there is no avatar yet.
NewUser(r) ==
  [username |-> Trim[ask[r].username],
   secret |-> ask[r].secret,
   role |-> IF ask[r].role = "" THEN "user" ELSE ask[r].role,
   profile |-> [f \in Field |->
     IF f = "nickname" \/ f \in ask[r].sets \ {"avatar"} THEN r ELSE Blank]]

\* Mutant: the table has no unique index.
InsertUnchecked(r) ==
  /\ Is(r, "register", "checked")
  /\ user' = [user EXCEPT ![r] = NewUser(r)]
  /\ Move(r, "ok")
  /\ UNCHANGED <<ask, copy, token, answered>>

RegisterInsert(r) ==
  /\ Is(r, "register", "checked")
  /\ \/ /\ UniqueIndexAllows(Trim[ask[r].username])
        /\ user' = [user EXCEPT ![r] = NewUser(r)]
        /\ Move(r, "ok")
     \/ /\ ~UniqueIndexAllows(Trim[ask[r].username])
        /\ Move(r, "failed")
        /\ UNCHANGED user
  /\ UNCHANGED <<ask, copy, token, answered>>

\* Unlike Register, Login does not trim the name.
Login(r) ==
  LET found == FindByUsername(ask[r].username) IN
  /\ Is(r, "login", "start")
  /\ \/ \E i \in found :
          /\ user[i].secret = ask[r].secret
          /\ token' = [token EXCEPT ![r] =
               [id |-> i, username |-> user[i].username, role |-> user[i].role]]
          /\ Move(r, "ok")
     \/ /\ found = {} \/ \E i \in found : user[i].secret # ask[r].secret
        /\ Move(r, "refused")
        /\ UNCHANGED token
  /\ UNCHANGED <<ask, user, copy, answered>>

-----------------------------------------------------------------------------

\* The account that the token of an update names.
AccountOf(r) == token[ask[r].login].id

\* A request without a token is turned away by AuthRequired.
UpdateFind(r) ==
  LET l == ask[r].login IN
  /\ Is(r, "update", "start") /\ step[l] \in Done
  /\ \/ /\ token[l] # NoClaims
        /\ copy' = [copy EXCEPT ![r] = user[AccountOf(r)]]
        /\ answered' = [answered EXCEPT ![r] = {v \in Request : step[v] = "ok"}]
        /\ Move(r, "read")
     \/ /\ token[l] = NoClaims
        /\ Move(r, "refused")
        /\ UNCHANGED <<copy, answered>>
  /\ UNCHANGED <<ask, user, token>>

\* Mutant: the row is built anew, and the columns it leaves out get defaults.
EditedAnew(r) == [copy[r] EXCEPT !.role = "user"]

\* Mutant: every column is taken from the request, with or without a text.
EditedAll(r) == [copy[r] EXCEPT !.profile = [f \in Field |-> r]]

\* The fields the handler sets in its copy of the row.
Edited(r) ==
  [copy[r] EXCEPT !.profile = [f \in Field |-> IF f \in ask[r].sets THEN r ELSE copy[r].profile[f]]]

\* Save writes every column.
UpdateSave(r) ==
  /\ Is(r, "update", "read")
  /\ user' = [user EXCEPT ![AccountOf(r)] = Edited(r)]
  /\ Move(r, "ok")
  /\ UNCHANGED <<ask, copy, token, answered>>

\* A statement fails, or the server ends while the handler runs.
FailRequest(r) ==
  /\ step[r] \notin Done
  /\ Move(r, "failed")
  /\ UNCHANGED <<ask, user, copy, token, answered>>

Handle(r) == RegisterFind(r) \/ RegisterInsert(r) \/ Login(r) \/ UpdateFind(r) \/ UpdateSave(r)

Finished == (\A r \in Request : step[r] \in Done) /\ UNCHANGED vars

Next ==
  \/ \E r \in Request : Handle(r) \/ FailRequest(r)
  \/ Finished

Spec == Init /\ [][Next]_vars

-----------------------------------------------------------------------------

Stored == {i \in Request : user[i] # NoUser}

\* Two registrations of one name that race (user_service.go:34 and :60) end
\* with one account.
UniqueNames ==
  \A i, j \in Stored : Key[user[i].username] = Key[user[j].username] => i = j

\* No operation removes an account or changes who it belongs to, although
\* UpdateProfile writes back every column (user_repository.go:69).  The other
\* modules, where accounts are constants, rest on this.
IdentityForGood ==
  [][\A i \in Stored :
       /\ user'[i] # NoUser
       /\ user'[i].username = user[i].username
       /\ user'[i].secret = user[i].secret
       /\ user'[i].role = user[i].role]_vars

\* The claims of a token (jwt.go:18), which RequireRole trusts without reading
\* the table, are true of the account as it is now, and the token was given to
\* somebody who knew its password.
TokensCurrent ==
  \A l \in Request : token[l] # NoClaims =>
    /\ token[l].id \in Stored
    /\ token[l].username = user[token[l].id].username
    /\ token[l].role = user[token[l].id].role
    /\ ask[l].secret = user[token[l].id].secret

Updated(v) == ask[v].op = "update" /\ step[v] = "ok"

\* A text in a profile column comes from the registration of that account or
\* from an update by its owner that had a text for that column.
Owned(i, f, v) ==
  v \in {i, Blank} \/ (Updated(v) /\ AccountOf(v) = i /\ f \in ask[v].sets)

OwnFieldsOnly == \A i \in Stored : \A f \in Field : Owned(i, f, user[i].profile[f])

\* w was not yet answered when v read the row, and it has a text for column f
\* or read the row before v was answered.
Undoes(w, v, f) ==
  /\ Updated(w) /\ AccountOf(w) = AccountOf(v) /\ w # v
  /\ w \notin answered[v]
  /\ f \in ask[w].sets \/ v \notin answered[w]

\* A column that an update has set (user_service.go:103) keeps that text until
\* a later update sets the column, unless one that overlaps undoes it.
LostToOverlapOnly ==
  \A v \in Request : Updated(v) => \A f \in ask[v].sets :
    user[AccountOf(v)].profile[f] = v \/ \E w \in Request : Undoes(w, v, f)

-----------------------------------------------------------------------------
(* The inductive invariant.                                                *)

\* Rows and tokens are made by the last step of a request.
Origins ==
  /\ \A i \in Stored : step[i] = "ok" /\ ask[i].op = "register"
  /\ \A l \in Request : token[l] # NoClaims => step[l] = "ok" /\ ask[l].op = "login"
  /\ \A r \in Request : Is(r, "register", "checked") => Valid(r)
  /\ \A u \in Request : \A v \in answered[u] : step[v] = "ok"

\* An update that got as far as reading a row has a token.
Authorized ==
  \A u \in Request : ask[u].op = "update" /\ step[u] \in {"read", "ok"} =>
    token[ask[u].login] # NoClaims

SameOwner(u) ==
  /\ copy[u] # NoUser
  /\ copy[u].username = user[AccountOf(u)].username
  /\ copy[u].secret = user[AccountOf(u)].secret
  /\ copy[u].role = user[AccountOf(u)].role

\* What LostToOverlapOnly says of the table was true of a copy when it was read.
CopyLost(u) ==
  \A v \in answered[u] : Updated(v) /\ AccountOf(v) = AccountOf(u) => \A f \in ask[v].sets :
    copy[u].profile[f] = v \/ \E w \in Request : Undoes(w, v, f)

CopyInv ==
  \A u \in Request : Is(u, "update", "read") =>
    /\ SameOwner(u)
    /\ \A f \in Field : Owned(AccountOf(u), f, copy[u].profile[f])
    /\ CopyLost(u)

Inductive ==
  /\ TypeOK /\ Origins /\ Authorized /\ CopyInv
  /\ UniqueNames /\ TokensCurrent /\ OwnFieldsOnly /\ LostToOverlapOnly

-----------------------------------------------------------------------------
(* Refinement.                                                             *)

Accepted == {r \in Request : step[r] = "ok"}

Directory == INSTANCE AccountDirectory WITH done <- Accepted

\* Registration, login and profile changes, none of which runs a transaction,
\* implement the atomic directory of AccountDirectory (user_service.go:28-120):
\* a name is free when its account is inserted, a token is true when it is
\* given, and a stale save (user_repository.go:69) writes no account but its
\* own, changes no name, password or role, and no text that was not the column's.
ImplementsDirectory == Directory!Spec
=============================================================================
