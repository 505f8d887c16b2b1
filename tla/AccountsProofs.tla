---------------------------- MODULE AccountsProofs ----------------------------
(***************************************************************************)
(* Proofs about Accounts, for any number of requests, any names and any    *)
(* profile columns: names are unique, accounts keep their identity, tokens *)
(* stay true, and a profile change is lost to an overlapping one only.     *)
(***************************************************************************)
EXTENDS Accounts, TLAPS

USE AccountsAssumption

LEMMA NoClaimsApart == NoClaims \notin Claims
  BY DEF NoClaims, Claims

LEMMA InitInductive == Init => Inductive
  BY NoClaimsApart DEF Init, Inductive, TypeOK, Origins, Authorized, CopyInv, UniqueNames,
         TokensCurrent, OwnFieldsOnly, LostToOverlapOnly, Stored, Is, Updated, Done

LEMMA Asked ==
  ASSUME TypeOK, NEW r \in Request
  PROVE  /\ ask[r].username \in Username /\ ask[r].secret \in Secret
         /\ ask[r].login \in Request
<1>1. ask[r] \in RequestContent
  BY DEF TypeOK
<1> QED
  BY <1>1 DEF RequestContent

\* The row that a registration inserts.
LEMMA NewUserRow ==
  ASSUME TypeOK, NEW r \in Request, Valid(r)
  PROVE  /\ NewUser(r) \in UserRow
         /\ NewUser(r).username = Trim[ask[r].username]
         /\ \A f \in Field : NewUser(r).profile[f] \in {r, Blank}
<1> DEFINE role == IF ask[r].role = "" THEN "user" ELSE ask[r].role
           profile == [f \in Field |->
             IF f = "nickname" \/ f \in ask[r].sets \ {"avatar"} THEN r ELSE Blank]
<1>1. Trim[ask[r].username] \in Username /\ ask[r].secret \in Secret
  BY Asked
<1>2. role \in Role
  BY DEF Valid, Role
<1>3. profile \in [Field -> Request \cup {Blank}] /\ \A f \in Field : profile[f] \in {r, Blank}
  OBVIOUS
<1>4. NewUser(r) = [username |-> Trim[ask[r].username], secret |-> ask[r].secret,
                    role |-> role, profile |-> profile]
  BY DEF NewUser
<1> HIDE DEF role, profile
<1> QED
  BY <1>1, <1>2, <1>3, <1>4 DEF UserRow

\* The row that an update saves: the row it has read, with texts of its own in
\* some profile columns.
LEMMA EditedRow ==
  ASSUME NEW r \in Request, copy[r] \in UserRow
  PROVE  /\ Edited(r) \in UserRow
         /\ Edited(r).username = copy[r].username
         /\ Edited(r).secret = copy[r].secret
         /\ Edited(r).role = copy[r].role
         /\ \A f \in Field :
              Edited(r).profile[f] = IF f \in ask[r].sets THEN r ELSE copy[r].profile[f]
  BY DEF Edited, UserRow

\* A step keeps the types.
LEMMA StepType ==
  ASSUME Inductive, [Next]_vars
  PROVE  TypeOK'
<1> USE DEF Inductive, TypeOK, Done
<1>1. ASSUME NEW r \in Request, RegisterFind(r) PROVE TypeOK'
  BY <1>1 DEF RegisterFind, Move
<1>2. ASSUME NEW r \in Request, RegisterInsert(r) PROVE TypeOK'
  <2>1. NewUser(r) \in UserRow
    BY <1>2, NewUserRow DEF RegisterInsert, Origins, Is
  <2> QED
    BY <1>2, <2>1 DEF RegisterInsert, Move
<1>3. ASSUME NEW r \in Request, Login(r) PROVE TypeOK'
  <2>1. \A i \in FindByUsername(ask[r].username) :
          [id |-> i, username |-> user[i].username, role |-> user[i].role] \in Claims
    BY DEF FindByUsername, Claims, UserRow
  <2> QED
    BY <1>3, <2>1 DEF Login, Move
<1>4. ASSUME NEW r \in Request, UpdateFind(r) PROVE TypeOK'
  <2>1. ask[r].login \in Request
    BY Asked
  <2>2. token[ask[r].login] # NoClaims => AccountOf(r) \in Request
    BY <2>1 DEF AccountOf, Claims
  <2> QED
    BY <1>4, <2>2 DEF UpdateFind, Move
<1>5. ASSUME NEW r \in Request, UpdateSave(r) PROVE TypeOK'
  <2>1. copy[r] \in UserRow
    BY <1>5 DEF UpdateSave, CopyInv, SameOwner
  <2> QED
    BY <1>5, <2>1, EditedRow DEF UpdateSave, Move
<1>6. ASSUME NEW r \in Request, FailRequest(r) PROVE TypeOK'
  BY <1>6 DEF FailRequest, Move
<1>7. CASE UNCHANGED vars
  BY <1>7 DEF vars
<1> QED
  BY <1>1, <1>2, <1>3, <1>4, <1>5, <1>6, <1>7 DEF Next, Handle, Finished

-----------------------------------------------------------------------------
(* What a step leaves as it is.                                            *)

\* Answers are final, tokens and accounts are made once, and what an update
\* read does not change afterwards.
LEMMA StepFrame ==
  ASSUME Inductive, [Next]_vars
  PROVE  /\ ask' = ask
         /\ \A r \in Request : step[r] \in Done => step'[r] = step[r]
         /\ \A l \in Request : token[l] # NoClaims => token'[l] = token[l]
         /\ \A i \in Stored :
              /\ user'[i] # NoUser /\ user'[i].username = user[i].username
              /\ user'[i].secret = user[i].secret /\ user'[i].role = user[i].role
         /\ \A u \in Request : step[u] # "start" =>
              copy'[u] = copy[u] /\ answered'[u] = answered[u]
<1> DEFINE G ==
       /\ ask' = ask
       /\ \A r \in Request : step[r] \in Done => step'[r] = step[r]
       /\ \A l \in Request : token[l] # NoClaims => token'[l] = token[l]
       /\ \A i \in Stored :
            /\ user'[i] # NoUser /\ user'[i].username = user[i].username
            /\ user'[i].secret = user[i].secret /\ user'[i].role = user[i].role
       /\ \A u \in Request : step[u] # "start" =>
            copy'[u] = copy[u] /\ answered'[u] = answered[u]
<1> USE DEF Inductive, TypeOK, Done, Stored
<1>1. ASSUME NEW r \in Request, RegisterFind(r) PROVE G
  BY <1>1 DEF RegisterFind, Move, Is
<1>2. ASSUME NEW r \in Request, RegisterInsert(r) PROVE G
  <2>1. user[r] = NoUser
    BY <1>2 DEF RegisterInsert, Is, Origins
  <2> QED
    BY <1>2, <2>1 DEF RegisterInsert, Move, Is
<1>3. ASSUME NEW r \in Request, Login(r) PROVE G
  BY <1>3 DEF Login, Move, Is, Origins
<1>4. ASSUME NEW r \in Request, UpdateFind(r) PROVE G
  BY <1>4 DEF UpdateFind, Move, Is
<1>5. ASSUME NEW r \in Request, UpdateSave(r) PROVE G
  <2>1. SameOwner(r) /\ copy[r] \in UserRow
    BY <1>5 DEF UpdateSave, CopyInv, SameOwner
  <2>2. Edited(r) # NoUser
    BY <2>1, EditedRow
  <2> QED
    BY <1>5, <2>1, <2>2, EditedRow DEF UpdateSave, Move, Is, SameOwner
<1>6. ASSUME NEW r \in Request, FailRequest(r) PROVE G
  BY <1>6 DEF FailRequest, Move
<1>7. CASE UNCHANGED vars
  BY <1>7 DEF vars
<1> QED
  BY <1>1, <1>2, <1>3, <1>4, <1>5, <1>6, <1>7 DEF Next, Handle, Finished

\* A step moves the handler of one request.
LEMMA OneMoves ==
  ASSUME Inductive, [Next]_vars, NEW r \in Request, step'[r] # step[r]
  PROVE  Handle(r) \/ FailRequest(r)
<1>1. PICK s \in Request : Handle(s) \/ FailRequest(s)
  BY DEF Next, Finished, vars
<1>2. \E label : Move(s, label)
  BY <1>1 DEF Handle, RegisterFind, RegisterInsert, Login, UpdateFind, UpdateSave, FailRequest
<1>3. s = r
  BY <1>2 DEF Move, Inductive, TypeOK
<1> QED
  BY <1>1, <1>3

\* Hence what the invariants say of an answered update stays true.
LEMMA Persists ==
  ASSUME Inductive, [Next]_vars
  PROVE  /\ \A u \in Request : ask[u].op = "update" /\ step[u] \in {"read", "ok"} =>
              /\ AccountOf(u) \in Stored /\ AccountOf(u)' = AccountOf(u)
              /\ copy'[u] = copy[u] /\ answered'[u] = answered[u]
         /\ \A v \in Request : Updated(v) => Updated(v)'
         /\ \A i \in Request, f \in Field, v \in Request \cup {Blank} : Owned(i, f, v) => Owned(i, f, v)'
         /\ \A v, w \in Request, f \in Field : Updated(v) /\ Undoes(w, v, f) => Undoes(w, v, f)'
<1> USE DEF Inductive
<1>1. ASSUME NEW u \in Request, ask[u].op = "update", step[u] \in {"read", "ok"}
      PROVE  /\ AccountOf(u) \in Stored /\ AccountOf(u)' = AccountOf(u)
             /\ copy'[u] = copy[u] /\ answered'[u] = answered[u]
  <2>1. ask[u].login \in Request /\ token[ask[u].login] # NoClaims
    BY <1>1, Asked DEF Authorized
  <2> QED
    BY <1>1, <2>1, StepFrame DEF AccountOf, TokensCurrent
<1>2. ASSUME NEW v \in Request, Updated(v) PROVE Updated(v)'
  BY <1>2, StepFrame DEF Updated, Done
<1>3. ASSUME NEW i \in Request, NEW f \in Field, NEW v \in Request \cup {Blank}, Owned(i, f, v)
      PROVE  Owned(i, f, v)'
  <2>1. CASE v \in {i, Blank}
    BY <2>1 DEF Owned
  <2>2. CASE v \in Request /\ Updated(v) /\ AccountOf(v) = i /\ f \in ask[v].sets
    BY <2>2, <1>1, <1>2, StepFrame DEF Owned, Updated
  <2> QED
    BY <1>3, <2>1, <2>2 DEF Owned
<1>4. ASSUME NEW v \in Request, NEW w \in Request, NEW f \in Field, Updated(v), Undoes(w, v, f)
      PROVE  Undoes(w, v, f)'
  BY <1>4, <1>1, <1>2, StepFrame DEF Undoes, Updated
<1> QED
  BY <1>1, <1>2, <1>3, <1>4

\* A row is there afterwards if it was there before or has just been inserted.
LEMMA StepTable ==
  ASSUME Inductive, [Next]_vars, NEW i \in Stored'
  PROVE  \/ /\ i \in Stored
            /\ \/ user'[i] = user[i]
               \/ \E u \in Request : UpdateSave(u) /\ AccountOf(u) = i
         \/ /\ i \notin Stored /\ RegisterInsert(i)
            /\ user'[i] = NewUser(i) /\ NewUser(i) \in UserRow
            /\ \A j \in Stored : user'[j] = user[j] /\ Key[user[j].username] # Key[NewUser(i).username]
<1> USE DEF Inductive, Stored
<1>1. ASSUME NEW r \in Request, RegisterInsert(r), i \notin Stored \/ user'[i] # user[i]
      PROVE  /\ i \notin Stored /\ RegisterInsert(i)
             /\ user'[i] = NewUser(i) /\ NewUser(i) \in UserRow
             /\ \A j \in Stored : user'[j] = user[j] /\ Key[user[j].username] # Key[NewUser(i).username]
  <2>1. r = i /\ user' = [user EXCEPT ![r] = NewUser(r)] /\ UniqueIndexAllows(Trim[ask[r].username])
    BY <1>1 DEF RegisterInsert, TypeOK
  <2>2. Valid(r) /\ r \notin Stored
    BY <1>1 DEF RegisterInsert, Is, Origins
  <2> QED
    BY <1>1, <2>1, <2>2, NewUserRow DEF UniqueIndexAllows, FindByUsername, TypeOK
<1>2. ASSUME NEW r \in Request, UpdateSave(r), i \notin Stored \/ user'[i] # user[i]
      PROVE  i \in Stored /\ \E u \in Request : UpdateSave(u) /\ AccountOf(u) = i
  <2>1. AccountOf(r) \in Stored
    BY <1>2, Persists DEF UpdateSave, Is
  <2> QED
    BY <1>2, <2>1 DEF UpdateSave, TypeOK
<1>3. CASE UNCHANGED user
  BY <1>3
<1>4. \/ UNCHANGED user
      \/ \E r \in Request : RegisterInsert(r) \/ UpdateSave(r)
  BY DEF Next, Handle, Finished, RegisterFind, Login, UpdateFind, FailRequest, vars
<1> QED
  BY <1>1, <1>2, <1>3, <1>4

-----------------------------------------------------------------------------
(* Each part of the invariant is kept.                                     *)

LEMMA StepOrigins ==
  ASSUME Inductive, [Next]_vars
  PROVE  Origins'
<1> USE DEF Inductive, TypeOK, Origins
<1>1. \A i \in Stored' : step'[i] = "ok" /\ ask'[i].op = "register"
  <2>1. ASSUME NEW i \in Stored, i \in Request PROVE step'[i] = "ok" /\ ask'[i].op = "register"
    BY <2>1, StepFrame DEF Done
  <2>2. ASSUME NEW i \in Request, i \in Stored', RegisterInsert(i), i \notin Stored
        PROVE  step'[i] = "ok" /\ ask'[i].op = "register"
    BY <2>2 DEF RegisterInsert, Is, Move, Stored
  <2> QED
    BY <2>1, <2>2, StepTable DEF Stored
<1>2. \A l \in Request : token'[l] # NoClaims => step'[l] = "ok" /\ ask'[l].op = "login"
  <2>1. ASSUME NEW r \in Request, Login(r), NEW l \in Request, token'[l] # NoClaims
        PROVE  step'[l] = "ok" /\ ask'[l].op = "login"
    BY <2>1 DEF Login, Is, Move
  <2>2. \/ UNCHANGED token
        \/ \E r \in Request : Login(r)
    BY DEF Next, Handle, Finished, RegisterFind, RegisterInsert, UpdateFind, UpdateSave, FailRequest, vars
  <2> QED
    BY <2>1, <2>2, StepFrame DEF Done
<1>3. \A r \in Request : Is(r, "register", "checked")' => Valid(r)'
  <2>1. ASSUME NEW r \in Request, Is(r, "register", "checked")'
        PROVE  Is(r, "register", "checked") \/ RegisterFind(r)
    <3>1. CASE step'[r] = step[r]
      BY <2>1, <3>1, StepFrame DEF Is
    <3>2. CASE step'[r] # step[r]
      BY <2>1, <3>2, OneMoves, StepFrame DEF Handle, RegisterInsert, Login, UpdateFind, UpdateSave,
             FailRequest, Is, Move, TypeOK
    <3> QED
      BY <3>1, <3>2
  <2>2. ASSUME NEW r \in Request, Is(r, "register", "checked")', RegisterFind(r) PROVE Valid(r)
    BY <2>2 DEF RegisterFind, Is, Move
  <2> QED
    BY <2>1, <2>2, StepFrame DEF Valid
<1>4. \A u \in Request : \A v \in answered'[u] : step'[v] = "ok"
  <2>1. ASSUME NEW r \in Request, UpdateFind(r), NEW u \in Request, NEW v \in answered'[u]
        PROVE  step[v] = "ok"
    BY <2>1 DEF UpdateFind
  <2>2. \/ UNCHANGED answered
        \/ \E r \in Request : UpdateFind(r)
    BY DEF Next, Handle, Finished, RegisterFind, RegisterInsert, Login, UpdateSave, FailRequest, vars
  <2>3. \A u \in Request : \A v \in answered'[u] : v \in Request /\ step[v] = "ok"
    BY <2>1, <2>2, StepType
  <2> QED
    BY <2>3, StepFrame DEF Done
<1> QED
  BY <1>1, <1>2, <1>3, <1>4

LEMMA StepAuthorized ==
  ASSUME Inductive, [Next]_vars
  PROVE  Authorized'
<1> USE DEF Inductive
<1> SUFFICES ASSUME NEW u \in Request, ask[u].op = "update", step'[u] \in {"read", "ok"}
             PROVE  token'[ask[u].login] # NoClaims
  BY StepFrame DEF Authorized
<1>1. step[u] \in {"read", "ok"} \/ UpdateFind(u)
  BY DEF Next, Handle, Finished, RegisterFind, RegisterInsert, Login, UpdateFind, UpdateSave,
         FailRequest, vars, Is, Move, TypeOK
<1>2. token[ask[u].login] # NoClaims
  BY <1>1 DEF Authorized, UpdateFind, Move, TypeOK
<1> QED
  BY <1>2, Asked, StepFrame

LEMMA StepUniqueNames ==
  ASSUME Inductive, [Next]_vars
  PROVE  UniqueNames'
<1> USE DEF Inductive
<1> SUFFICES ASSUME NEW i \in Stored', NEW j \in Stored',
                    Key[user'[i].username] = Key[user'[j].username]
             PROVE  i = j
  BY DEF UniqueNames
<1>1. \A k \in Stored : user'[k].username = user[k].username
  BY StepFrame
<1>2. CASE i \in Stored /\ j \in Stored
  BY <1>1, <1>2 DEF UniqueNames
<1>3. CASE i \in Stored /\ j \notin Stored
  BY <1>1, <1>3, StepTable
<1>4. CASE i \notin Stored /\ j \in Stored
  BY <1>1, <1>4, StepTable
<1>5. CASE i \notin Stored /\ j \notin Stored
  <2>1. RegisterInsert(i) /\ RegisterInsert(j) /\ user' # user
    BY <1>5, StepTable DEF Stored
  <2> QED
    BY <2>1 DEF RegisterInsert, Is, Move, TypeOK
<1> QED
  BY <1>2, <1>3, <1>4, <1>5

LEMMA StepTokensCurrent ==
  ASSUME Inductive, [Next]_vars
  PROVE  TokensCurrent'
<1> USE DEF Inductive, TokensCurrent
<1>1. ASSUME NEW r \in Request, Login(r), NEW l \in Request, token'[l] # token[l]
      PROVE  /\ token'[l].id \in Stored
             /\ token'[l].username = user[token'[l].id].username
             /\ token'[l].role = user[token'[l].id].role
             /\ ask[l].secret = user[token'[l].id].secret
  BY <1>1 DEF Login, TypeOK, FindByUsername, Stored
<1>2. \/ UNCHANGED token
      \/ \E r \in Request : Login(r)
  BY DEF Next, Handle, Finished, RegisterFind, RegisterInsert, UpdateFind, UpdateSave, FailRequest, vars
<1>3. \A l \in Request : token'[l] # NoClaims =>
        /\ token'[l].id \in Stored
        /\ token'[l].username = user[token'[l].id].username
        /\ token'[l].role = user[token'[l].id].role
        /\ ask[l].secret = user[token'[l].id].secret
  BY <1>1, <1>2
<1> QED
  BY <1>3, StepFrame DEF Stored

\* A profile column of the new table is one of the old table or of a copy.
LEMMA StepOwnFields ==
  ASSUME Inductive, [Next]_vars
  PROVE  OwnFieldsOnly'
<1> USE DEF Inductive
<1> SUFFICES ASSUME NEW i \in Stored', NEW f \in Field
             PROVE  Owned(i, f, user[i].profile[f])'
  BY DEF OwnFieldsOnly
<1>1. i \in Request
  BY DEF Stored
<1>2. CASE i \in Stored /\ user'[i] = user[i]
  <2>1. Owned(i, f, user[i].profile[f]) /\ user[i].profile[f] \in Request \cup {Blank}
    BY <1>2 DEF OwnFieldsOnly, TypeOK, Stored, UserRow
  <2>2. \A v \in Request \cup {Blank} : v = user'[i].profile[f] => Owned(i, f, v)'
    BY <1>1, <1>2, <2>1, Persists
  <2> QED
    BY <1>2, <2>1, <2>2
<1>3. ASSUME NEW u \in Request, UpdateSave(u), AccountOf(u) = i PROVE Owned(i, f, user[i].profile[f])'
  <2>1. /\ ask[u].op = "update" /\ step[u] = "read" /\ copy[u] \in UserRow
        /\ Owned(i, f, copy[u].profile[f])
    BY <1>3 DEF UpdateSave, Is, CopyInv, SameOwner, TypeOK
  <2>2. user'[i].profile[f] = IF f \in ask[u].sets THEN u ELSE copy[u].profile[f]
    BY <1>1, <1>3, <2>1, EditedRow DEF UpdateSave, TypeOK
  <2>3. AccountOf(u)' = i /\ Updated(u)' /\ ask' = ask
    BY <1>3, <2>1, Persists, StepFrame DEF UpdateSave, Move, Updated, TypeOK
  <2>4. f \in ask[u].sets => Owned(i, f, u)'
    BY <2>3 DEF Owned
  <2>5. \A v \in Request \cup {Blank} : v = copy[u].profile[f] => Owned(i, f, v)'
    BY <1>1, <2>1, Persists
  <2>6. copy[u].profile[f] \in Request \cup {Blank}
    BY <2>1 DEF UserRow
  <2>7. \A v : v = user'[i].profile[f] => Owned(i, f, v)'
    BY <2>2, <2>4, <2>5, <2>6
  <2> QED
    BY <2>7
<1>4. ASSUME user'[i] = NewUser(i), RegisterInsert(i) PROVE Owned(i, f, user[i].profile[f])'
  <2>1. user'[i].profile[f] \in {i, Blank}
    BY <1>1, <1>4, NewUserRow DEF RegisterInsert, Is, Origins
  <2>2. \A v \in {i, Blank} : Owned(i, f, v)'
    BY DEF Owned
  <2>3. \A v : v = user'[i].profile[f] => Owned(i, f, v)'
    BY <2>1, <2>2
  <2> QED
    BY <2>3
<1> QED
  BY <1>2, <1>3, <1>4, StepTable

LEMMA StepCopyInv ==
  ASSUME Inductive, [Next]_vars
  PROVE  CopyInv'
<1> USE DEF Inductive
<1> SUFFICES ASSUME NEW u \in Request, Is(u, "update", "read")'
             PROVE  /\ SameOwner(u)'
                    /\ \A f \in Field : Owned(AccountOf(u), f, copy[u].profile[f])'
                    /\ CopyLost(u)'
  BY DEF CopyInv
<1>1. CASE step[u] = "read"
  <2>1. /\ Is(u, "update", "read") /\ ask' = ask
        /\ AccountOf(u) \in Stored /\ AccountOf(u)' = AccountOf(u) /\ AccountOf(u) \in Request
        /\ copy'[u] = copy[u] /\ answered'[u] = answered[u]
    BY <1>1, StepFrame, Persists DEF Is, Stored
  <2>2. /\ SameOwner(u) /\ CopyLost(u) /\ copy[u] \in UserRow
        /\ \A f \in Field : Owned(AccountOf(u), f, copy[u].profile[f])
    BY <2>1 DEF CopyInv, SameOwner, TypeOK
  <2>3. SameOwner(u)'
    BY <2>1, <2>2, StepFrame DEF SameOwner
  <2>4. ASSUME NEW f \in Field PROVE Owned(AccountOf(u), f, copy[u].profile[f])'
    <3>1. copy[u].profile[f] \in Request \cup {Blank}
      BY <2>2 DEF UserRow
    <3>2. \A i \in Request, v \in Request \cup {Blank} :
            i = AccountOf(u)' /\ v = copy'[u].profile[f] => Owned(i, f, v)'
      BY <2>1, <2>2, Persists
    <3>3. \A i, v : i = AccountOf(u)' /\ v = copy'[u].profile[f] => Owned(i, f, v)'
      BY <2>1, <3>1, <3>2
    <3> QED
      BY <3>3
  <2>5. ASSUME NEW v \in answered'[u], Updated(v)', AccountOf(v)' = AccountOf(u)', NEW f \in ask'[v].sets
        PROVE  copy'[u].profile[f] = v \/ \E w \in Request : Undoes(w, v, f)'
    <3>1. v \in answered[u] /\ v \in Request /\ Updated(v)
      BY <2>1, <2>5 DEF Origins, TypeOK, Updated
    <3>2. AccountOf(v) = AccountOf(u) /\ f \in ask[v].sets /\ f \in Field
      <4>1. ask[v] \in RequestContent
        BY <3>1 DEF TypeOK
      <4>2. AccountOf(v)' = AccountOf(v) /\ ask' = ask
        BY <3>1, Persists, StepFrame DEF Updated
      <4> QED
        BY <2>1, <2>5, <4>1, <4>2, Persists DEF RequestContent
    <3>3. copy[u].profile[f] = v \/ \E w \in Request : Undoes(w, v, f)
      BY <2>2, <3>1, <3>2 DEF CopyLost
    <3>4. \A w \in Request : Undoes(w, v, f) => Undoes(w, v, f)'
      BY <3>1, <3>2, Persists
    <3> QED
      BY <2>1, <3>3, <3>4, Persists
  <2> QED
    BY <2>3, <2>4, <2>5 DEF CopyLost
<1>2. CASE UpdateFind(u)
  <2>1. /\ ask[u].op = "update" /\ copy'[u] = user[AccountOf(u)] /\ UNCHANGED <<ask, user, token>>
        /\ token[ask[u].login] # NoClaims /\ ask[u].login \in Request
    BY <1>2, Asked DEF UpdateFind, Is, Move, TypeOK
  <2>2. AccountOf(u) \in Stored /\ AccountOf(u)' = AccountOf(u)
    BY <2>1 DEF AccountOf, TokensCurrent
  <2>3. SameOwner(u)'
    BY <2>1, <2>2 DEF SameOwner, Stored
  <2>4. ASSUME NEW f \in Field PROVE Owned(AccountOf(u), f, copy[u].profile[f])'
    <3>1. /\ AccountOf(u) \in Request /\ copy'[u].profile[f] \in Request \cup {Blank}
          /\ Owned(AccountOf(u), f, copy'[u].profile[f])
      BY <2>1, <2>2 DEF OwnFieldsOnly, Stored, TypeOK, UserRow
    <3>2. \A i, v : i = AccountOf(u)' /\ v = copy'[u].profile[f] => Owned(i, f, v)'
      BY <2>2, <3>1, Persists
    <3> QED
      BY <3>2
  <2>5. ASSUME NEW v \in answered'[u], Updated(v)', AccountOf(v)' = AccountOf(u)', NEW f \in ask'[v].sets
        PROVE  copy'[u].profile[f] = v \/ \E w \in Request : Undoes(w, v, f)'
    <3>1. v \in Request /\ step[v] = "ok" /\ Updated(v)
      BY <1>2, <2>1, <2>5 DEF UpdateFind, Updated, TypeOK, Move
    <3>2. AccountOf(v) = AccountOf(u) /\ f \in ask[v].sets /\ f \in Field
      <4>1. ask[v] \in RequestContent
        BY <3>1 DEF TypeOK
      <4>2. AccountOf(v)' = AccountOf(v) /\ ask' = ask
        BY <2>1, <3>1, Persists DEF Updated
      <4> QED
        BY <2>2, <2>5, <4>1, <4>2 DEF RequestContent
    <3>3. user[AccountOf(v)].profile[f] = v \/ \E w \in Request : Undoes(w, v, f)
      BY <3>1, <3>2 DEF LostToOverlapOnly
    <3>4. \A w \in Request : Undoes(w, v, f) => Undoes(w, v, f)'
      BY <3>1, <3>2, Persists
    <3>5. copy'[u].profile[f] = user[AccountOf(v)].profile[f]
      BY <2>1, <3>2
    <3> QED
      BY <3>3, <3>4, <3>5
  <2> QED
    BY <2>3, <2>4, <2>5 DEF CopyLost
<1>3. step[u] = "read" \/ UpdateFind(u)
  BY DEF Next, Handle, Finished, RegisterFind, RegisterInsert, Login, UpdateFind, UpdateSave,
         FailRequest, vars, Is, Move, TypeOK, Done
<1> QED
  BY <1>1, <1>2, <1>3

\* A save that undoes v overlapped with it, or had read a row in which v was
\* already undone by an update that overlapped with it.
LEMMA StepLost ==
  ASSUME Inductive, [Next]_vars
  PROVE  LostToOverlapOnly'
<1> USE DEF Inductive
<1> SUFFICES ASSUME NEW v \in Request, Updated(v)', NEW f \in ask[v].sets
             PROVE  \/ user'[AccountOf(v)'].profile[f] = v
                    \/ \E w \in Request : Undoes(w, v, f)'
  BY StepFrame DEF LostToOverlapOnly
<1>1. f \in Field
  <2>1. ask[v] \in RequestContent
    BY DEF TypeOK
  <2> QED
    BY <2>1 DEF RequestContent
<1>2. CASE UpdateSave(v)
  <2>1. AccountOf(v) \in Request /\ AccountOf(v)' = AccountOf(v) /\ copy[v] \in UserRow
    BY <1>2, Persists DEF UpdateSave, Is, Stored, CopyInv, SameOwner, TypeOK
  <2> QED
    BY <1>1, <1>2, <2>1, EditedRow DEF UpdateSave, TypeOK
<1>3. CASE Updated(v)
  <2>1. /\ ask[v].op = "update" /\ step[v] = "ok"
        /\ AccountOf(v) \in Stored /\ AccountOf(v)' = AccountOf(v) /\ answered'[v] = answered[v]
        /\ AccountOf(v) \in Stored'
    BY <1>3, Persists, StepFrame DEF Updated, Stored
  <2>2. CASE user'[AccountOf(v)] = user[AccountOf(v)]
    BY <1>1, <1>3, <2>1, <2>2, Persists DEF LostToOverlapOnly
  <2>3. ASSUME NEW u \in Request, UpdateSave(u), AccountOf(u) = AccountOf(v)
        PROVE  \/ user'[AccountOf(v)'].profile[f] = v
               \/ \E w \in Request : Undoes(w, v, f)'
    <3>1. /\ Is(u, "update", "read") /\ CopyLost(u) /\ copy[u] \in UserRow
          /\ user'[AccountOf(v)] = Edited(u)
      BY <2>1, <2>3 DEF UpdateSave, CopyInv, SameOwner, TypeOK, Stored
    <3>2. /\ Updated(u)' /\ AccountOf(u)' = AccountOf(u) /\ answered'[u] = answered[u]
          /\ u # v /\ u \notin answered[v] /\ ask' = ask
      BY <2>1, <2>3, <3>1, Persists, StepFrame DEF UpdateSave, Move, Is, Updated, TypeOK, Origins
    <3>3. CASE f \in ask[u].sets \/ v \notin answered[u]
      <4>1. Undoes(u, v, f)'
        BY <2>1, <2>3, <3>2, <3>3 DEF Undoes
      <4> QED
        BY <4>1
    <3>4. CASE f \notin ask[u].sets /\ v \in answered[u]
      <4>1. user'[AccountOf(v)].profile[f] = copy[u].profile[f]
        BY <1>1, <3>1, <3>4, EditedRow
      <4>2. copy[u].profile[f] = v \/ \E w \in Request : Undoes(w, v, f)
        BY <1>3, <2>3, <3>1, <3>4 DEF CopyLost
      <4> QED
        BY <1>1, <1>3, <2>1, <4>1, <4>2, Persists
    <3> QED
      BY <3>3, <3>4
  <2> QED
    BY <2>1, <2>2, <2>3, StepTable
<1>4. Updated(v) \/ UpdateSave(v)
  <2>1. CASE step'[v] = step[v]
    BY <2>1, StepFrame DEF Updated
  <2>2. CASE step'[v] # step[v]
    <3>1. ask[v].op = "update" /\ step'[v] = "ok"
      BY StepFrame DEF Updated
    <3> QED
      BY <2>2, <3>1, OneMoves DEF Handle, RegisterFind, RegisterInsert, Login, UpdateFind,
             FailRequest, Is, Move, TypeOK
  <2> QED
    BY <2>1, <2>2
<1> QED
  BY <1>2, <1>3, <1>4

LEMMA StepInductive == Inductive /\ [Next]_vars => Inductive'
  BY StepType, StepOrigins, StepAuthorized, StepCopyInv, StepUniqueNames, StepTokensCurrent,
     StepOwnFields, StepLost DEF Inductive

-----------------------------------------------------------------------------

\* The inductive invariant holds throughout (user_service.go:28-120).
THEOREM InductiveCorrect == Spec => []Inductive
  BY InitInductive, StepInductive, PTL DEF Spec

\* At any time a username belongs to one account.
THEOREM NamesUnique == Spec => []UniqueNames
<1>1. Inductive => UniqueNames
  BY DEF Inductive
<1> QED
  BY <1>1, InductiveCorrect, PTL

\* The claims of every token stay true of its account.
THEOREM TokensStayTrue == Spec => []TokensCurrent
<1>1. Inductive => TokensCurrent
  BY DEF Inductive
<1> QED
  BY <1>1, InductiveCorrect, PTL

\* Profile columns hold texts of their owner's own requests only.
THEOREM OwnFieldsKept == Spec => []OwnFieldsOnly
<1>1. Inductive => OwnFieldsOnly
  BY DEF Inductive
<1> QED
  BY <1>1, InductiveCorrect, PTL

\* A profile text is lost only to a later update or to one that overlaps.
THEOREM ProfilesKept == Spec => []LostToOverlapOnly
<1>1. Inductive => LostToOverlapOnly
  BY DEF Inductive
<1> QED
  BY <1>1, InductiveCorrect, PTL

\* Accounts are never removed and never change hands.
THEOREM IdentityKept == Spec => IdentityForGood
<1> DEFINE Same ==
      \A i \in Stored :
        /\ user'[i] # NoUser
        /\ user'[i].username = user[i].username
        /\ user'[i].secret = user[i].secret
        /\ user'[i].role = user[i].role
<1>1. Inductive /\ [Next]_vars => [Same]_vars
  BY StepFrame
<1> HIDE DEF Same
<1>2. Spec => [][Same]_vars
  BY <1>1, InductiveCorrect, PTL DEF Spec
<1> QED
  BY <1>2 DEF IdentityForGood, Same
-----------------------------------------------------------------------------
(* Accounts implements AccountDirectory.                                   *)

LEMMA AcceptedStep ==
  ASSUME TypeOK, NEW r \in Request, step[r] # "ok", NEW label, Move(r, label)
  PROVE  /\ label = "ok" => r \notin Accepted /\ Accepted' = Accepted \cup {r}
         /\ label # "ok" => Accepted' = Accepted
<1>1. step' = [step EXCEPT ![r] = label] /\ DOMAIN step = Request
  BY DEF Move, TypeOK
<1> QED
  BY <1>1 DEF Accepted

LEMMA RegisterRefines ==
  ASSUME Inductive, NEW r \in Request, RegisterInsert(r)
  PROVE  Directory!Enroll(r) \/ UNCHANGED <<ask, user, token, Accepted>>
<1> USE DEF Inductive
<1>1. Is(r, "register", "checked") /\ Valid(r) /\ step[r] # "ok"
  BY DEF RegisterInsert, Is, Origins
<1>2. CASE user' = [user EXCEPT ![r] = NewUser(r)] /\ Move(r, "ok")
           /\ UniqueIndexAllows(Trim[ask[r].username])
  <2> DEFINE own == {f \in Field : f = "nickname" \/ f \in ask[r].sets \ {"avatar"}}
  <2>1. NewUser(r) = [username |-> Trim[ask[r].username], secret |-> ask[r].secret,
                      role |-> IF ask[r].role = "organizer" THEN "organizer" ELSE "user",
                      profile |-> [f \in Field |-> IF f \in own THEN r ELSE Blank]]
    BY <1>1 DEF NewUser, Valid, Role
  <2>2. Directory!Named(Trim[ask[r].username]) = {}
    BY <1>2 DEF Directory!Named, Directory!Stored, UniqueIndexAllows, FindByUsername
  <2>3. ask[r].op = "register" /\ ask[r].role # "admin"
    BY <1>1 DEF Is, Valid, Role
  <2>4. Directory!Accept(r) /\ UNCHANGED token
    BY <1>1, <1>2, AcceptedStep DEF Directory!Accept, RegisterInsert
  <2>5. own \in SUBSET Field
    OBVIOUS
  <2> HIDE DEF own
  <2> QED
    BY <1>2, <2>1, <2>2, <2>3, <2>4, <2>5 DEF Directory!Enroll
<1>3. CASE Move(r, "failed") /\ UNCHANGED user
  BY <1>1, <1>3, AcceptedStep DEF RegisterInsert
<1> QED
  BY <1>2, <1>3 DEF RegisterInsert

LEMMA LoginRefines ==
  ASSUME Inductive, NEW r \in Request, Login(r)
  PROVE  Directory!Issue(r) \/ UNCHANGED <<ask, user, token, Accepted>>
<1> USE DEF Inductive
<1>1. ask[r].op = "login" /\ step[r] # "ok" /\ UNCHANGED <<ask, user>>
  BY DEF Login, Is
<1>2. ASSUME NEW i \in FindByUsername(ask[r].username), user[i].secret = ask[r].secret,
             token' = [token EXCEPT ![r] =
               [id |-> i, username |-> user[i].username, role |-> user[i].role]],
             Move(r, "ok")
      PROVE  Directory!Issue(r)
  <2>1. i \in Directory!Named(ask[r].username)
    BY <1>2 DEF Directory!Named, Directory!Stored, FindByUsername
  <2>2. Directory!Accept(r)
    BY <1>1, <1>2, AcceptedStep DEF Directory!Accept
  <2> QED
    BY <1>1, <1>2, <2>1, <2>2 DEF Directory!Issue
<1>3. CASE Move(r, "refused") /\ UNCHANGED token
  BY <1>1, <1>3, AcceptedStep
<1> QED
  BY <1>2, <1>3 DEF Login

\* The copy that an update saves is of its own account, with the name, the
\* password and the role that the account still has.
LEMMA UpdateRefines ==
  ASSUME Inductive, NEW r \in Request, UpdateSave(r)
  PROVE  Directory!Amend(r)
<1> USE DEF Inductive
<1> DEFINE i == AccountOf(r)
           text == Edited(r).profile
<1>1. /\ Is(r, "update", "read") /\ Move(r, "ok") /\ UNCHANGED <<ask, token>>
      /\ user' = [user EXCEPT ![i] = Edited(r)]
  BY DEF UpdateSave
<1>2. /\ token[ask[r].login] # NoClaims /\ i \in Stored /\ user[i] \in UserRow
      /\ copy[r] \in UserRow
  <2>1. token[ask[r].login] # NoClaims /\ ask[r].login \in Request
    BY <1>1, Asked DEF Is, Authorized
  <2>2. i \in Stored
    BY <2>1 DEF AccountOf, TokensCurrent
  <2> QED
    BY <1>1, <2>1, <2>2 DEF CopyInv, SameOwner, Stored, TypeOK
<1>3. SameOwner(r)
  BY <1>1 DEF CopyInv
<1>4. Edited(r) = [user[i] EXCEPT !.profile = text]
  BY <1>2, <1>3, EditedRow DEF SameOwner, UserRow
<1>5. text \in [Field -> Request \cup {Blank}]
  BY <1>2, EditedRow DEF UserRow
<1>6. \A f \in Field : f \in ask[r].sets => text[f] = r
  BY <1>2, EditedRow
<1>7. ASSUME NEW f \in Field, f \notin ask[r].sets
      PROVE  Directory!TextOf(i, f, text[f])
  <2>1. text[f] = copy[r].profile[f] /\ text[f] \in Request \cup {Blank}
    BY <1>2, <1>5, <1>7, EditedRow
  <2>2. Owned(i, f, text[f])
    BY <1>1, <2>1 DEF CopyInv
  <2>3. CASE text[f] \in {i, Blank}
    BY <2>3 DEF Directory!TextOf
  <2>4. CASE text[f] \notin {i, Blank}
    <3>1. /\ text[f] \in Request /\ Updated(text[f]) /\ AccountOf(text[f]) = i
          /\ f \in ask[text[f]].sets
      BY <2>1, <2>2, <2>4 DEF Owned
    <3> HIDE DEF text
    <3> QED
      BY <3>1 DEF Directory!TextOf, Accepted, Updated, AccountOf
  <2> QED
    BY <2>3, <2>4
<1>8. Directory!Accept(r)
  BY <1>1, AcceptedStep DEF Directory!Accept, Is
<1> HIDE DEF text
<1>9. user' = [user EXCEPT ![i].profile = text]
  BY <1>1, <1>4
<1> QED
  BY <1>1, <1>2, <1>5, <1>6, <1>7, <1>8, <1>9
     DEF Directory!Amend, Directory!NoClaims, NoClaims, AccountOf, Is

LEMMA DirectoryStep ==
  ASSUME Inductive, [Next]_vars
  PROVE  [Directory!Next]_(Directory!vars)
<1>1. ASSUME NEW r \in Request, RegisterFind(r) \/ UpdateFind(r) \/ FailRequest(r)
      PROVE  UNCHANGED <<ask, user, token, Accepted>>
  <2>1. UNCHANGED <<ask, user, token>> /\ step[r] # "ok"
    BY <1>1 DEF RegisterFind, UpdateFind, FailRequest, Is, Done
  <2>2. \E label : label # "ok" /\ Move(r, label)
    BY <1>1 DEF RegisterFind, UpdateFind, FailRequest
  <2> QED
    BY <2>1, <2>2, AcceptedStep DEF Inductive
<1>2. CASE UNCHANGED vars
  BY <1>2 DEF vars, Accepted, Directory!vars
<1>3. ASSUME NEW r \in Request, Handle(r) \/ FailRequest(r)
      PROVE  [Directory!Next]_(Directory!vars)
  BY <1>1, <1>3, RegisterRefines, LoginRefines, UpdateRefines
     DEF Handle, Directory!Next, Directory!vars
<1> QED
  BY <1>2, <1>3 DEF Next, Finished

\* Every behaviour of the handlers is one of the atomic directory: each of
\* their statements is a step of it or changes none of its variables.
THEOREM AccountsImplementDirectory == Spec => ImplementsDirectory
<1>1. Init => Directory!Init
  <2>1. Init => Accepted = {}
    BY DEF Init, Accepted
  <2> QED
    BY <2>1 DEF Init, Directory!Init, NoClaims, Directory!NoClaims
<1>2. Inductive /\ [Next]_vars => [Directory!Next]_(Directory!vars)
  BY DirectoryStep
<1> QED
  BY <1>1, <1>2, InductiveCorrect, PTL DEF Spec, ImplementsDirectory, Directory!Spec
-----------------------------------------------------------------------------
(* AccountDirectory is worth implementing: its steps alone keep names      *)
(* unique, tokens true, accounts in their owners' hands.                   *)

LEMMA DirectoryAsked ==
  ASSUME Directory!RowsOK, NEW r \in Request
  PROVE  /\ Trim[ask[r].username] \in Username /\ ask[r].secret \in Secret
         /\ ask[r].login \in Request
<1>1. ask[r] \in RequestContent
  BY DEF Directory!RowsOK
<1> QED
  BY <1>1 DEF RequestContent

\* What a step does to the accounts: one is new, under a name that was free, or
\* one gets other texts.
LEMMA DirectoryEffect ==
  ASSUME Directory!RowsOK, Directory!TokensTrue, NEW r \in Request,
         Directory!Enroll(r) \/ Directory!Issue(r) \/ Directory!Amend(r)
  PROVE  /\ ask' = ask /\ Accepted' = Accepted \cup {r} /\ r \notin Accepted
         /\ user' \in [Request -> Directory!UserRow \cup {NoUser}]
         /\ Directory!Stored \subseteq Directory!Stored'
         /\ \A i \in Directory!Stored :
              /\ user'[i].username = user[i].username
              /\ user'[i].secret = user[i].secret /\ user'[i].role = user[i].role
              /\ \A f \in Field :
                   \/ user'[i].profile[f] = user[i].profile[f]
                   \/ /\ Directory!Amend(r) /\ i = AccountOf(r)
                      /\ \/ user'[i].profile[f] = r /\ f \in ask[r].sets
                         \/ Directory!TextOf(i, f, user'[i].profile[f])
         /\ \A i \in Directory!Stored' \ Directory!Stored :
              /\ i = r /\ Directory!Enroll(r)
              /\ \A j \in Directory!Stored : Key[user[j].username] # Key[user'[i].username]
              /\ \A f \in Field : user'[i].profile[f] \in {i, Blank}
<1> USE DEF Directory!RowsOK
<1>0. ask' = ask /\ Accepted' = Accepted \cup {r} /\ r \notin Accepted
  BY DEF Directory!Enroll, Directory!Issue, Directory!Amend, Directory!Accept
<1>1. CASE Directory!Enroll(r)
  <2>1. PICK own \in SUBSET Field :
          user' = [user EXCEPT ![r] =
            [username |-> Trim[ask[r].username], secret |-> ask[r].secret,
             role |-> IF ask[r].role = "organizer" THEN "organizer" ELSE "user",
             profile |-> [f \in Field |-> IF f \in own THEN r ELSE Blank]]]
    BY <1>1 DEF Directory!Enroll
  <2> DEFINE profile == [f \in Field |-> IF f \in own THEN r ELSE Blank]
             row == [username |-> Trim[ask[r].username], secret |-> ask[r].secret,
                     role |-> IF ask[r].role = "organizer" THEN "organizer" ELSE "user",
                     profile |-> profile]
  <2>2. profile \in [Field -> Request \cup {Blank}] /\ \A f \in Field : profile[f] \in {r, Blank}
    OBVIOUS
  <2>3. /\ row \in Directory!UserRow /\ row.username = Trim[ask[r].username]
        /\ \A f \in Field : row.profile[f] \in {r, Blank}
    <3> HIDE DEF profile
    <3> QED
      BY <2>2, DirectoryAsked DEF Directory!UserRow
  <2>4. r \notin Directory!Stored
    BY <1>0
  <2>5. \A j \in Directory!Stored : Key[user[j].username] # Key[row.username]
    BY <1>1, <2>3 DEF Directory!Enroll, Directory!Named
  <2>6. user' = [user EXCEPT ![r] = row]
    BY <2>1
  <2>7. row # NoUser
    <3>1. Directory!UserRow = UserRow
      BY DEF Directory!UserRow, UserRow, Role
    <3> QED
      BY <2>3, <3>1
  <2> HIDE DEF row
  <2>8. /\ user'[r] = row /\ \A j \in Request \ {r} : user'[j] = user[j]
        /\ user' \in [Request -> Directory!UserRow \cup {NoUser}]
    BY <2>3, <2>6
  <2>9. Directory!Stored' = Directory!Stored \cup {r}
    BY <2>4, <2>7, <2>8 DEF Directory!Stored
  <2>10. \A j \in Directory!Stored : user'[j] = user[j]
    BY <2>4, <2>8 DEF Directory!Stored
  <2> QED
    BY <1>0, <1>1, <2>3, <2>4, <2>5, <2>8, <2>9, <2>10
<1>2. CASE Directory!Issue(r)
  BY <1>0, <1>2 DEF Directory!Issue, Directory!Stored
<1>3. CASE Directory!Amend(r)
  <2> DEFINE i == AccountOf(r)
  <2>1. i \in Directory!Stored
    BY <1>3, DirectoryAsked DEF Directory!Amend, Directory!TokensTrue, AccountOf
  <2>2. PICK text \in [Field -> Request \cup {Blank}] :
          /\ \A f \in Field : f \in ask[r].sets => text[f] = r
          /\ \A f \in Field : f \notin ask[r].sets => Directory!TextOf(i, f, text[f])
          /\ user' = [user EXCEPT ![i].profile = text]
    BY <1>3 DEF Directory!Amend, AccountOf
  <2>3. i \in Request /\ user[i] \in Directory!UserRow
    BY <2>1 DEF Directory!Stored
  <2> HIDE DEF i
  <2>4. /\ user'[i].username = user[i].username /\ user'[i].secret = user[i].secret
        /\ user'[i].role = user[i].role /\ user'[i].profile = text
        /\ user'[i] \in Directory!UserRow
        /\ \A j \in Request \ {i} : user'[j] = user[j]
    BY <2>2, <2>3 DEF Directory!UserRow
  <2>5. user'[i] # NoUser
    <3>1. Directory!UserRow = UserRow
      BY DEF Directory!UserRow, UserRow, Role
    <3> QED
      BY <2>4, <3>1
  <2>6. Directory!Stored' = Directory!Stored
    BY <2>1, <2>4, <2>5 DEF Directory!Stored
  <2>7. user' \in [Request -> Directory!UserRow \cup {NoUser}]
    BY <2>2, <2>3, <2>4
  <2>8. \A f \in Field : \/ user'[i].profile[f] = r /\ f \in ask[r].sets
                         \/ Directory!TextOf(i, f, user'[i].profile[f])
    BY <2>2, <2>4
  <2>9. i = AccountOf(r)
    BY DEF i
  <2>10. \A j \in Directory!Stored : j \in Request
    BY DEF Directory!Stored
  <2> QED
    BY <1>0, <1>3, <2>4, <2>6, <2>7, <2>8, <2>9, <2>10
<1> QED
  BY <1>1, <1>2, <1>3
\* What a step does to the tokens: a login gets the claims of an account it
\* knows the password of.
LEMMA TokenEffect ==
  ASSUME Directory!RowsOK, NEW r \in Request,
         Directory!Enroll(r) \/ Directory!Issue(r) \/ Directory!Amend(r), NEW l \in Request
  PROVE  /\ DOMAIN token' = Request
         /\ \/ token'[l] = token[l]
            \/ /\ l = r /\ token[l] = NoClaims /\ token'[l].id \in Directory!Stored
               /\ token'[l].username = user[token'[l].id].username
               /\ token'[l].role = user[token'[l].id].role
               /\ ask[l].secret = user[token'[l].id].secret
               /\ UNCHANGED user
<1> USE DEF Directory!RowsOK
<1>1. CASE Directory!Issue(r)
  <2>1. PICK i \in Directory!Named(ask[r].username) :
          /\ user[i].secret = ask[r].secret
          /\ token' = [token EXCEPT ![r] =
               [id |-> i, username |-> user[i].username, role |-> user[i].role]]
    BY <1>1 DEF Directory!Issue
  <2>2. i \in Directory!Stored /\ r \notin Accepted /\ UNCHANGED user
    BY <1>1, <2>1 DEF Directory!Named, Directory!Issue, Directory!Accept
  <2>3. token[r] = NoClaims
    BY <2>2 DEF NoClaims, Directory!NoClaims
  <2>4. /\ DOMAIN token' = Request /\ l # r => token'[l] = token[l]
        /\ token'[r] = [id |-> i, username |-> user[i].username, role |-> user[i].role]
    BY <2>1
  <2> QED
    BY <2>1, <2>2, <2>3, <2>4
<1>2. CASE Directory!Enroll(r) \/ Directory!Amend(r)
  BY <1>2 DEF Directory!Enroll, Directory!Amend
<1> QED
  BY <1>1, <1>2

LEMMA GuaranteeStep ==
  ASSUME Directory!Guarantee, Directory!Next
  PROVE  /\ Directory!Guarantee'
         /\ \A i \in Directory!Stored :
              /\ i \in Directory!Stored' /\ user'[i].username = user[i].username
              /\ user'[i].secret = user[i].secret /\ user'[i].role = user[i].role
<1> USE DEF Directory!Guarantee
<1>1. PICK r \in Request : Directory!Enroll(r) \/ Directory!Issue(r) \/ Directory!Amend(r)
  BY DEF Directory!Next
<1>2. ask' = ask /\ Accepted' = Accepted \cup {r} /\ r \notin Accepted
  BY <1>1, DirectoryEffect
<1>3. \A i \in Directory!Stored :
        /\ i \in Directory!Stored' /\ user'[i].username = user[i].username
        /\ user'[i].secret = user[i].secret /\ user'[i].role = user[i].role
  BY <1>1, DirectoryEffect
<1>4. Directory!RowsOK'
  <2>1. ask' \in AccountWorkload /\ Accepted' \subseteq Request
    BY <1>2 DEF Directory!RowsOK
  <2>2. user' \in [Request -> Directory!UserRow \cup {NoUser}]
    BY <1>1, DirectoryEffect
  <2>3. DOMAIN token' = Request
    BY <1>1, TokenEffect
  <2>4. ASSUME NEW q \in Request, q \notin Accepted'
        PROVE  q \notin Directory!Stored' /\ token'[q] = Directory!NoClaims
    BY <1>1, <1>2, <2>4, DirectoryEffect, TokenEffect DEF Directory!RowsOK
  <2> QED
    BY <2>1, <2>2, <2>3, <2>4 DEF Directory!RowsOK
<1>5. Directory!OnePerName'
  <2> SUFFICES ASSUME NEW i \in Directory!Stored', NEW j \in Directory!Stored',
                      Key[user'[i].username] = Key[user'[j].username]
               PROVE  i = j
    BY DEF Directory!OnePerName
  <2>1. CASE i \in Directory!Stored /\ j \in Directory!Stored
    BY <1>3, <2>1 DEF Directory!OnePerName
  <2>2. CASE i \in Directory!Stored /\ j \notin Directory!Stored
    BY <1>1, <1>3, <2>2, DirectoryEffect
  <2>3. CASE i \notin Directory!Stored /\ j \in Directory!Stored
    BY <1>1, <1>3, <2>3, DirectoryEffect
  <2>4. CASE i \notin Directory!Stored /\ j \notin Directory!Stored
    BY <1>1, <2>4, DirectoryEffect
  <2> QED
    BY <2>1, <2>2, <2>3, <2>4
<1>6. Directory!TokensTrue'
  <2> SUFFICES ASSUME NEW l \in Request, token'[l] # NoClaims
               PROVE  /\ token'[l].id \in Directory!Stored'
                      /\ token'[l].username = user'[token'[l].id].username
                      /\ token'[l].role = user'[token'[l].id].role
                      /\ ask'[l].secret = user'[token'[l].id].secret
    BY DEF Directory!TokensTrue, NoClaims, Directory!NoClaims
  <2>1. CASE token'[l] = token[l]
    <3>1. /\ token[l].id \in Directory!Stored
          /\ token[l].username = user[token[l].id].username
          /\ token[l].role = user[token[l].id].role
          /\ ask[l].secret = user[token[l].id].secret
      BY <2>1 DEF Directory!TokensTrue, NoClaims, Directory!NoClaims
    <3> QED
      BY <1>2, <1>3, <2>1, <3>1
  <2>2. CASE token'[l] # token[l]
    BY <1>1, <1>2, <1>3, <2>2, TokenEffect
  <2> QED
    BY <2>1, <2>2
<1>7. ASSUME NEW i \in Directory!Stored, NEW f \in Field, NEW v, Directory!TextOf(i, f, v)
      PROVE  Directory!TextOf(i, f, v)'
  <2>1. CASE v \in {i, Blank}
    BY <2>1 DEF Directory!TextOf
  <2>2. CASE v \in Accepted /\ ask[v].op = "update" /\ token[ask[v].login].id = i /\ f \in ask[v].sets
    <3>1. v \in Request /\ ask[v].login \in Request /\ i \in Request
      BY <2>2, DirectoryAsked DEF Accepted, Directory!Stored
    <3>2. token[ask[v].login] # NoClaims
      BY <2>2, <3>1 DEF NoClaims
    <3>3. token'[ask[v].login] = token[ask[v].login]
      BY <1>1, <3>1, <3>2, TokenEffect
    <3> QED
      BY <1>2, <2>2, <3>3 DEF Directory!TextOf
  <2> QED
    BY <1>7, <2>1, <2>2 DEF Directory!TextOf
<1>8. Directory!OwnTexts'
  <2> SUFFICES ASSUME NEW i \in Directory!Stored', NEW f \in Field
               PROVE  Directory!TextOf(i, f, user[i].profile[f])'
    BY DEF Directory!OwnTexts
  <2>1. CASE i \notin Directory!Stored
    <3>1. user'[i].profile[f] \in {i, Blank}
      BY <1>1, <2>1, DirectoryEffect
    <3> QED
      BY <3>1 DEF Directory!TextOf
  <2>2. CASE i \in Directory!Stored
    <3>1. CASE user'[i].profile[f] = user[i].profile[f]
      <4>1. Directory!TextOf(i, f, user[i].profile[f])
        BY <2>2 DEF Directory!OwnTexts
      <4> QED
        BY <1>2, <1>7, <2>2, <3>1, <4>1 DEF Directory!TextOf
    <3>2. CASE Directory!Amend(r) /\ i = AccountOf(r) /\ user'[i].profile[f] = r /\ f \in ask[r].sets
      BY <1>2, <3>2 DEF Directory!Amend, Directory!TextOf, AccountOf
    <3>3. CASE Directory!Amend(r) /\ Directory!TextOf(i, f, user'[i].profile[f])
      <4>1. token' = token
        BY <3>3 DEF Directory!Amend
      <4> QED
        BY <1>2, <3>3, <4>1 DEF Directory!TextOf
    <3> QED
      BY <1>1, <2>2, <3>1, <3>2, <3>3, DirectoryEffect
  <2> QED
    BY <2>1, <2>2
<1> QED
  BY <1>3, <1>4, <1>5, <1>6, <1>8

\* Every behaviour of the atomic directory gives a name to one account, keeps
\* tokens true and puts into a profile only texts of its owner.
THEOREM DirectorySuffices == Directory!Spec => [](Directory!Guarantee)
<1>1. Directory!Init => Directory!Guarantee
  <2> SUFFICES ASSUME Directory!Init PROVE Directory!Guarantee
    OBVIOUS
  <2>1. user = [r \in Request |-> NoUser] /\ Directory!Stored = {} /\ Accepted = {}
    BY DEF Directory!Init, Directory!Stored
  <2> QED
    BY <2>1 DEF Directory!Init, Directory!Guarantee, Directory!RowsOK, Directory!OnePerName,
                Directory!TokensTrue, Directory!OwnTexts
<1>2. ASSUME Directory!Guarantee, UNCHANGED Directory!vars
      PROVE  Directory!Guarantee'
  BY <1>2 DEF Directory!vars, Directory!Guarantee, Directory!RowsOK, Directory!OnePerName,
              Directory!TokensTrue, Directory!OwnTexts, Directory!TextOf, Directory!Stored
<1> QED
  BY <1>1, <1>2, GuaranteeStep, PTL DEF Directory!Spec

\* No step of the directory removes an account or changes whose it is.
THEOREM DirectoryKeepsIdentity == Directory!Spec => Directory!IdentityForGood
<1>1. ASSUME Directory!Guarantee, Directory!Next
      PROVE  \A i \in Directory!Stored :
               /\ i \in Directory!Stored' /\ user'[i].username = user[i].username
               /\ user'[i].secret = user[i].secret /\ user'[i].role = user[i].role
  BY <1>1, GuaranteeStep
<1> QED
  BY <1>1, DirectorySuffices, PTL DEF Directory!Spec, Directory!IdentityForGood
=============================================================================
