----------------------------- MODULE ServerProofs -----------------------------
(***************************************************************************)
(* Proofs about Server: what a seed that may be cut short anywhere leaves  *)
(* behind, and what the audit log says about writes, for any number of     *)
(* requests, faults and starts.                                            *)
(***************************************************************************)
EXTENDS Server, TLAPS

\* The first step of main.
LEMMA InitInductive == Init => Inductive
<1> SUFFICES ASSUME Init PROVE Inductive
    OBVIOUS
<1> USE ServerAssumption
<1>1. TypeOK
  <2>1. preset \in [Preset -> Nat]
    BY DEF Init, EmptyDatabase, FilledDatabase, Preset, UserPreset, ActivityPreset
  <2>2. lastId \in [Table -> Nat]
    BY DEF Init, EmptyDatabase, FilledDatabase
  <2>3. stopped \in BOOLEAN /\ cut \in BOOLEAN /\ abrupt \in BOOLEAN
    BY Zenon DEF Init
  <2> QED
    BY <2>1, <2>2, <2>3 DEF Init, TypeOK, Preset
<1>2. SeedInv /\ SeedPrefix
  <2>1. CASE EmptyDatabase
    BY <2>1 DEF Init, EmptyDatabase, SeedInv, SeedPrefix, Seeded, SomeAccount, Preset, Table,
                UserPreset, Serving, Quiet, InFlight, Handling
  <2>2. CASE FilledDatabase
    BY <2>2 DEF Init, FilledDatabase, SeedInv, SeedPrefix, Seeded, SomeAccount, Preset,
                UserPreset, ActivityPreset, Serving, Quiet, InFlight, Handling
  <2> QED
    BY <2>1, <2>2 DEF Init
<1>3. RefsMeant
  <2> SUFFICES ASSUME NEW ref \in Reference, Seeded(ref.from), preset[Admin] = 1
               PROVE  preset[ref.to] = ref.id
    BY DEF RefsMeant
  <2>1. CASE EmptyDatabase
    BY <2>1 DEF EmptyDatabase, Admin, Preset
  <2>2. CASE FilledDatabase
    BY <2>2 DEF FilledDatabase, Reference, Preset, UserPreset, ActivityPreset, RegistrationPreset
  <2> QED
    BY <2>1, <2>2 DEF Init
<1>4. RequestInv /\ AuditTrue /\ AuditGap /\ RepeatedOnlyIfLost /\ GracefulStop
  BY DEF Init, RequestInv, AuditTrue, AuditGap, RepeatedOnlyIfLost, GracefulStop
<1> QED
  BY <1>1, <1>2, <1>3, <1>4 DEF Inductive

-----------------------------------------------------------------------------
(* Types.                                                                  *)

\* Each step writes values of the columns' types.
LEMMA TypeStep == TypeOK /\ [Next]_vars => TypeOK'
<1> SUFFICES ASSUME TypeOK, [Next]_vars PROVE TypeOK'
    OBVIOUS
<1> USE ServerAssumption DEF TypeOK
<1>1. CASE Start
  BY <1>1 DEF Start, seedVars, requestVars
<1>2. CASE SeedCount
  BY <1>2 DEF SeedCount, requestVars, Preset
<1>3. CASE SeedInsert
  <2>1. TableOf(next) \in Table
    BY DEF TableOf, Table
  <2>2. next' \in Preset /\ server' \in {"seeding", "listening"}
    BY <1>3 DEF SeedInsert, SeedGoesOn, Preset
  <2>3. lastId[TableOf(next)] + 1 \in Nat
    BY <2>1
  <2>4. preset' \in [Preset -> Nat] /\ lastId' \in [Table -> Nat]
    BY <1>3, <2>3 DEF SeedInsert
  <2> QED
    BY <1>3, <2>2, <2>4 DEF SeedInsert, requestVars
<1>4. ASSUME Exit
      PROVE  /\ server' = "down" /\ sent' \in [Request -> Nat] /\ written' \in [Request -> Nat]
             /\ entries' \in [Request -> Nat] /\ unlogged' \in [Request -> Nat]
             /\ at' \in [Request -> {"idle", "lost"} \cup Handling \cup Answered]
             /\ lost' \in [Request -> Nat]
  BY <1>4 DEF Exit
<1>5. CASE SeedFails
  <2>1. lastId' \in [Table -> Nat]
    <3>1. PICK burned \in {0, 1} : lastId' = [lastId EXCEPT ![TableOf(next)] = @ + burned]
      BY <1>5 DEF SeedFails
    <3>2. TableOf(next) \in Table
      BY DEF TableOf, Table
    <3>3. lastId[TableOf(next)] + burned \in Nat
      BY <3>2
    <3> QED
      BY <3>1, <3>3
  <2>2. faults' \in Nat
    BY <1>5 DEF SeedFails
  <2>3. cut' \in BOOLEAN
    BY <1>5 DEF SeedFails
  <2>4. Exit
    BY <1>5 DEF SeedFails
  <2> QED
    BY <1>5, <1>4, <2>1, <2>2, <2>3, <2>4 DEF SeedFails
<1>6. CASE Stop
  BY <1>6 DEF Stop, Fault, seedVars, requestVars
<1>7. CASE StopDone
  <2>1. Exit
    BY <1>7 DEF StopDone
  <2> QED
    BY <1>7, <1>4, <2>1 DEF StopDone, seedVars
<1>8. CASE StopForced
  <2>1. Exit
    BY <1>8 DEF StopForced
  <2> QED
    BY <1>8, <1>4, <2>1 DEF StopForced, seedVars
<1>9. CASE StopStarting
  <2>1. Exit /\ cut' \in BOOLEAN
    BY <1>9 DEF StopStarting
  <2> QED
    BY <1>9, <1>4, <2>1 DEF StopStarting, Fault
<1>10. CASE Up
  <2>1. stopped' \in BOOLEAN
    BY <1>10, Zenon DEF Up
  <2> QED
    BY <1>10, <2>1 DEF Up, Fault, seedVars, requestVars
<1>11. CASE Crash
  <2>1. Exit /\ cut' \in BOOLEAN
    BY <1>11 DEF Crash
  <2> QED
    BY <1>11, <1>4, <2>1 DEF Crash, Fault
<1>14. CASE StartFails
  <2>1. Exit
    BY <1>14 DEF StartFails
  <2> QED
    BY <1>14, <1>4, <2>1 DEF StartFails, Fault, seedVars
<1>12. ASSUME NEW r \in Request,
              Send(r) \/ Handle(r) \/ WriteFails(r) \/ AuditFails(r)
       PROVE  TypeOK'
  <2> USE DEF seedVars, Reach, Fault, Handling, Answered
  <2>1. CASE Send(r)
    BY <2>1 DEF Send
  <2>2. CASE Write(r)
    BY <2>2 DEF Write
  <2>3. CASE Refuse(r)
    BY <2>3 DEF Refuse
  <2>4. CASE Audit(r)
    BY <2>4 DEF Audit
  <2>5. CASE Answer(r)
    BY <2>5 DEF Answer
  <2>6. CASE WriteFails(r)
    BY <2>6 DEF WriteFails
  <2>7. CASE AuditFails(r)
    BY <2>7 DEF AuditFails
  <2> QED
    BY <1>12, <2>1, <2>2, <2>3, <2>4, <2>5, <2>6, <2>7 DEF Handle
<1>13. CASE UNCHANGED vars
  BY <1>13 DEF vars, seedVars, requestVars
<1> QED
  BY <1>1, <1>2, <1>3, <1>5, <1>6, <1>7, <1>8, <1>9, <1>10, <1>11, <1>12, <1>13,
     <1>14 DEF Next, Seed, Shutdown, Rest

-----------------------------------------------------------------------------
(* Start and seed.                                                         *)

\* A step that leaves tables and progress alone, and neither begins to serve
\* nor to seed, keeps what SeedInv says of them.
LEMMA SeedUnchanged ==
  ASSUME TypeOK, SeedInv, SeedPrefix, RefsMeant,
         preset' = preset, next' = next, written' = written,
         lastId' = lastId, cut => cut', server' = server,
         \A r \in Request : ~InFlight(r) /\ ~Serving => ~InFlight(r)'
  PROVE  SeedInv' /\ SeedPrefix' /\ RefsMeant'
<1>1. SeedPrefix' /\ RefsMeant'
  BY DEF SeedPrefix, RefsMeant, Seeded
<1>2. SeedInv'
  BY DEF SeedInv, Seeded, SomeAccount, Serving, Quiet
<1> QED
  BY <1>1, <1>2

\* The process ends: a seed that has inserted an account is marked as cut short.
LEMMA SeedExit ==
  ASSUME TypeOK, SeedInv, SeedPrefix, RefsMeant, Exit,
         preset' = preset, next' = next, cut \/ CutsSeed => cut',
         server = "seeding" \/ lastId' = lastId,
         lastId'["activities"] # lastId["activities"] => next \in ActivityPreset
  PROVE  SeedInv' /\ SeedPrefix' /\ RefsMeant'
<1>1. SeedPrefix' /\ RefsMeant'
  BY DEF SeedPrefix, RefsMeant, Seeded
<1>2. server' = "down" /\ written' = written
  BY DEF Exit
<1>3. SomeAccount' = SomeAccount
  BY <1>2 DEF SomeAccount, Seeded
<1>4. Quiet'
  BY DEF Exit, Quiet, InFlight, Handling, TypeOK
<1>5. ~SomeAccount' => lastId'["activities"] = 0 /\ \A k \in Preset : ~Seeded(k)'
  <2>1. ASSUME ~SomeAccount, next \in ActivityPreset, server = "seeding" PROVE FALSE
    <3>1. Seeded(1)
      BY <2>1 DEF SeedInv, ActivityPreset, Preset
    <3> QED
      BY <2>1, <3>1 DEF SomeAccount, UserPreset
  <2> QED
    BY <1>3, <2>1 DEF SeedInv, Seeded
<1>6. SomeAccount' => cut' \/ \A k \in Preset : Seeded(k)'
  BY <1>3 DEF SeedInv, Seeded, CutsSeed
<1> QED
  BY <1>1, <1>2, <1>4, <1>5, <1>6 DEF SeedInv, Serving

\* Seed inserts its next row: all rows before it are there, with the ids that
\* follow on that of the first.
LEMMA SeedInsertStep ==
  ASSUME TypeOK, SeedInv, SeedPrefix, RefsMeant, SeedInsert
  PROVE  SeedInv' /\ SeedPrefix' /\ RefsMeant'
<1> DEFINE t == TableOf(next)
<1>1. /\ server = "seeding" /\ next \in Preset
      /\ \A k \in Preset : Seeded(k) <=> k < next
      /\ \A k \in UserPreset : k < next => preset[k] = preset[1] + k - 1
      /\ next \in 2..3 => lastId["users"] = preset[next - 1]
      /\ \A k \in ActivityPreset : k < next => preset[k] = k - 3
      /\ next < 4 => lastId["activities"] = 0
      /\ next \in ActivityPreset => lastId["activities"] = next - 4
  BY DEF SeedInsert, SeedInv, TypeOK, Admin
<1>2. t \in Table /\ lastId[t] \in Nat
  BY DEF TableOf, Table, TypeOK
<1>3. /\ preset' = [preset EXCEPT ![next] = lastId[t] + 1]
      /\ lastId' = [lastId EXCEPT ![t] = lastId[t] + 1]
      /\ written' = written /\ at' = at /\ cut' = cut
  BY DEF SeedInsert, requestVars
<1>4. /\ preset'[next] = lastId[t] + 1
      /\ \A k \in Preset : k # next => preset'[k] = preset[k]
      /\ lastId'[t] = lastId[t] + 1
      /\ \A u \in Table : u # t => lastId'[u] = lastId[u]
  BY <1>1, <1>2, <1>3 DEF TypeOK
<1>5. \A k \in Preset : Seeded(k)' <=> k < next + 1
  BY <1>1, <1>2, <1>4 DEF Seeded, Preset
<1>6. SomeAccount' /\ Seeded(1)'
  BY <1>5, <1>1 DEF SomeAccount, UserPreset, Preset
<1>7. \A k \in UserPreset : k < next + 1 => preset'[k] = preset'[1] + k - 1
  <2>1. CASE next = 1
    BY <2>1, <1>2, <1>4 DEF UserPreset
  <2>2. CASE next \in 2..3
    <3>1. t = "users" /\ lastId[t] = preset[next - 1]
      BY <2>2, <1>1 DEF TableOf, UserPreset
    <3>2. next - 1 \in UserPreset /\ preset[next - 1] = preset[1] + (next - 1) - 1
      BY <2>2, <1>1 DEF UserPreset
    <3>3. preset[1] \in Nat /\ preset'[1] = preset[1]
      BY <2>2, <1>4 DEF TypeOK, Preset
    <3>4. preset'[next] = preset'[1] + next - 1
      BY <3>1, <3>2, <3>3, <1>4, <2>2
    <3> QED
      BY <3>3, <3>4, <2>2, <1>1, <1>4 DEF UserPreset, Preset
  <2>3. CASE next \in 4..10
    BY <2>3, <1>1, <1>4 DEF UserPreset, Preset
  <2> QED
    BY <2>1, <2>2, <2>3, <1>1 DEF Preset
<1>8. \A k \in ActivityPreset : k < next + 1 => preset'[k] = k - 3
  <2>1. CASE next \in ActivityPreset
    <3>1. t = "activities" /\ lastId[t] = next - 4
      BY <2>1, <1>1 DEF TableOf, UserPreset, ActivityPreset
    <3> QED
      BY <3>1, <2>1, <1>1, <1>4 DEF ActivityPreset, Preset
  <2>2. CASE next \notin ActivityPreset
    BY <2>2, <1>1, <1>4 DEF ActivityPreset, Preset
  <2> QED
    BY <2>1, <2>2
<1>9. SeedPrefix'
  <2> SUFFICES ASSUME NEW k \in Preset, Seeded(k)', NEW j \in 1..(k - 1)
               PROVE  Seeded(j)'
    BY DEF SeedPrefix
  <2>1. j \in Preset /\ j < next + 1
    BY <1>1, <1>5 DEF Preset
  <2> QED
    BY <2>1, <1>5
<1>10. RefsMeant'
  <2> SUFFICES ASSUME NEW ref \in Reference, Seeded(ref.from)', preset'[1] = 1
               PROVE  preset'[ref.to] = ref.id
    BY DEF RefsMeant, Admin
  <2>1. \/ ref.from \in ActivityPreset /\ ref.to = 2 /\ ref.id = 2
        \/ ref.from \in RegistrationPreset /\ ref.to = 3 /\ ref.id = 3
        \/ /\ ref.from \in RegistrationPreset
           /\ ref.to = ref.from - 4 /\ ref.id = ref.from - 7
    BY DEF Reference
  <2>2. ref.from \in Preset /\ ref.from < next + 1 /\ ref.to < next + 1
    <3>1. ref.from \in Preset
      BY <2>1 DEF Preset, ActivityPreset, RegistrationPreset
    <3> QED
      BY <2>1, <3>1, <1>1, <1>5 DEF Preset, ActivityPreset, RegistrationPreset
  <2>3. CASE ref.to \in UserPreset /\ ref.to = ref.id
    BY <2>2, <2>3, <1>7 DEF UserPreset
  <2>4. CASE ref.to \in ActivityPreset /\ ref.id = ref.to - 3
    BY <2>2, <2>4, <1>8
  <2> QED
    BY <2>1, <2>3, <2>4 DEF UserPreset, ActivityPreset, RegistrationPreset
<1>11. SeedInv'
  <2>1. CASE next = 10
    <3>1. server' = "listening" /\ next' = next
      BY <2>1 DEF SeedInsert, SeedGoesOn
    <3>2. \A k \in Preset : Seeded(k)'
      BY <2>1, <1>5 DEF Preset
    <3> QED
      BY <3>1, <3>2, <1>6 DEF SeedInv, Serving
  <2>2. CASE next # 10
    <3>1. server' = "seeding" /\ next' = next + 1
      BY <2>2, <1>1 DEF SeedInsert, SeedGoesOn
    <3>2. next' \in 2..3 => lastId'["users"] = preset'[next' - 1]
      <4>1. ASSUME next' \in 2..3 PROVE t = "users"
        BY <4>1, <3>1, <1>1 DEF TableOf, UserPreset, Preset
      <4> QED
        BY <4>1, <3>1, <1>1, <1>4 DEF Preset
    <3>3. next' \in ActivityPreset => lastId'["activities"] = next' - 4
      <4>1. CASE next = 3
        <5>1. lastId["activities"] = 0
          BY <4>1, <1>1
        <5>2. t = "users"
          BY <4>1 DEF TableOf, UserPreset
        <5>3. lastId'["activities"] = lastId["activities"]
          BY <5>2, <1>4 DEF Table
        <5> QED
          BY <4>1, <3>1, <5>1, <5>3
      <4>2. CASE next \in ActivityPreset
        <5>1. t = "activities"
          BY <4>2 DEF TableOf, UserPreset, ActivityPreset
        <5> QED
          BY <4>2, <5>1, <3>1, <1>1, <1>4 DEF ActivityPreset
      <4> QED
        BY <4>1, <4>2, <3>1, <1>1 DEF ActivityPreset, Preset
    <3>4. next' < 4 => lastId'["activities"] = 0
      <4>1. ASSUME next' < 4 PROVE t = "users" /\ next < 4
        BY <4>1, <3>1, <1>1 DEF TableOf, UserPreset, Preset
      <4> QED
        BY <4>1, <1>1, <1>4 DEF Table
    <3>5. Quiet' /\ ~Serving' /\ \A r \in Register : written'[r] = 0
      <4>1. Quiet /\ \A r \in Register : written[r] = 0
        BY <1>1 DEF SeedInv, Serving
      <4> QED
        BY <4>1, <1>3, <3>1 DEF Quiet, InFlight, Serving
    <3> QED
      BY <3>1, <3>2, <3>3, <3>4, <3>5, <1>5, <1>6, <1>7, <1>8 DEF SeedInv, Admin
  <2> QED
    BY <2>1, <2>2
<1> QED
  BY <1>9, <1>10, <1>11

\* Every step keeps the rows in order and their references true.
LEMMA SeedStep ==
  ASSUME TypeOK, SeedInv, SeedPrefix, RefsMeant, [Next]_vars
  PROVE  SeedInv' /\ SeedPrefix' /\ RefsMeant'
<1> USE ServerAssumption
<1>1. CASE Start
  <2>1. SeedPrefix' /\ RefsMeant'
    BY <1>1 DEF Start, seedVars, SeedPrefix, RefsMeant, Seeded
  <2> QED
    BY <1>1, <2>1 DEF Start, seedVars, requestVars, SeedInv, Seeded, SomeAccount, Serving,
                      Quiet, InFlight
<1>2. CASE SeedCount
  <2>1. SeedPrefix' /\ RefsMeant' /\ SomeAccount' = SomeAccount
    BY <1>2 DEF SeedCount, requestVars, SeedPrefix, RefsMeant, Seeded, SomeAccount
  <2>2. CASE SomeAccount
    BY <1>2, <2>1, <2>2 DEF SeedCount, SkipsSeed, requestVars, SeedInv, Seeded, Serving
  <2>3. CASE ~SomeAccount
    <3>1. server' = "seeding" /\ next' = 1 /\ UNCHANGED <<preset, lastId, written, at>>
      BY <1>2, <2>3 DEF SeedCount, SkipsSeed, requestVars
    <3>2. /\ \A k \in Preset : ~Seeded(k)'
          /\ lastId'["activities"] = 0
      BY <2>3, <3>1 DEF SeedInv, Seeded
    <3>3. Quiet' /\ \A r \in Register : written'[r] = 0
      <4>1. Quiet
        BY <1>2 DEF SeedCount, SeedInv, Serving
      <4>2. \A r \in Register : written[r] = 0
        BY <2>3 DEF SomeAccount, TypeOK
      <4> QED
        BY <4>1, <4>2, <3>1 DEF Quiet, InFlight
    <3> QED
      BY <2>1, <2>3, <3>1, <3>2, <3>3
         DEF SeedInv, Serving, Preset, UserPreset, ActivityPreset, Admin
  <2> QED
    BY <2>2, <2>3
<1>3. CASE SeedInsert
  BY <1>3, SeedInsertStep
<1>4. CASE SeedFails
  <2>1. PICK burned \in {0, 1} : lastId' = [lastId EXCEPT ![TableOf(next)] = @ + burned]
    BY <1>4 DEF SeedFails
  <2>2. lastId'["activities"] # lastId["activities"] => next \in ActivityPreset
    BY <2>1 DEF TypeOK, TableOf, Table
  <2> QED
    BY <1>4, <2>2, SeedExit DEF SeedFails
<1>5. CASE Stop
  <2>1. SeedPrefix' /\ RefsMeant'
    BY <1>5 DEF Stop, seedVars, SeedPrefix, RefsMeant, Seeded
  <2> QED
    BY <1>5, <2>1 DEF Stop, seedVars, requestVars, SeedInv, Seeded, SomeAccount, Serving
<1>6. CASE StopDone
  BY <1>6, SeedExit DEF StopDone, seedVars, CutsSeed
<1>7. CASE StopForced
  BY <1>7, SeedExit DEF StopForced, seedVars, CutsSeed
<1>8. CASE StopStarting
  BY <1>8, SeedExit DEF StopStarting
<1>9. CASE Up
  BY <1>9, SeedUnchanged DEF Up, seedVars, requestVars, InFlight
<1>10. CASE Crash
  BY <1>10, SeedExit DEF Crash
<1>13. CASE StartFails
  BY <1>13, SeedExit DEF StartFails, seedVars, CutsSeed
<1>11. ASSUME NEW r \in Request,
              Send(r) \/ Handle(r) \/ WriteFails(r) \/ AuditFails(r)
       PROVE  SeedInv' /\ SeedPrefix' /\ RefsMeant'
  <2>1. /\ Serving /\ UNCHANGED <<server, seedVars>>
        /\ \A q \in Request : written[q] > 0 => written'[q] > 0
    <3>1. CASE Write(r)
      BY <3>1 DEF Write, TypeOK
    <3>2. CASE ~Write(r)
      BY <1>11, <3>2 DEF Send, Handle, Refuse, Audit, Answer, WriteFails, AuditFails, Serving
    <3>3. Serving /\ UNCHANGED <<server, seedVars>>
      BY <1>11 DEF Send, Handle, Write, Refuse, Audit, Answer, WriteFails, AuditFails, Serving
    <3> QED
      BY <3>1, <3>2, <3>3
  <2>2. SomeAccount /\ SomeAccount' /\ Serving'
    BY <2>1 DEF SeedInv, SomeAccount, Seeded, seedVars, Serving
  <2>3. SeedPrefix' /\ RefsMeant'
    BY <2>1 DEF seedVars, SeedPrefix, RefsMeant, Seeded
  <2>4. cut' \/ \A k \in Preset : Seeded(k)'
    BY <2>1, <2>2 DEF SeedInv, seedVars, Seeded, Serving
  <2> QED
    BY <2>1, <2>2, <2>3, <2>4 DEF SeedInv, Serving
<1>12. CASE UNCHANGED vars
  BY <1>12, SeedUnchanged DEF vars, seedVars, requestVars, InFlight
<1> QED
  BY <1>1, <1>2, <1>3, <1>4, <1>5, <1>6, <1>7, <1>8, <1>9, <1>10, <1>11, <1>12,
     <1>13 DEF Next, Seed, Shutdown, Rest

-----------------------------------------------------------------------------
(* Requests.                                                               *)

\* What the end of the process does to requests in flight.
LEMMA RequestExit ==
  ASSUME TypeOK, RequestInv, AuditTrue, AuditGap, RepeatedOnlyIfLost, Exit
  PROVE  RequestInv' /\ AuditTrue' /\ AuditGap' /\ RepeatedOnlyIfLost'
<1>1. ASSUME NEW r \in Request
      PROVE  /\ at'[r] # "written" /\ at'[r] # "handling"
             /\ written'[r] = written[r] /\ entries'[r] = entries[r]
             /\ unlogged'[r] = unlogged[r]
             /\ InFlight(r) => at'[r] = "lost" /\ lost'[r] = lost[r] + 1
             /\ ~InFlight(r) => at'[r] = at[r] /\ lost'[r] = lost[r]
  BY DEF Exit, TypeOK, InFlight, Handling
<1>2. ASSUME NEW r \in Request
      PROVE  at'[r] \in {"idle", "failed", "lost"} => written'[r] <= lost'[r] \/ NameTaken(r)'
  <2>1. /\ written[r] \in Nat /\ lost[r] \in Nat
        /\ written[r] <= 1 + lost[r]
        /\ at[r] \in {"idle", "failed", "lost"} => written[r] <= lost[r] \/ NameTaken(r)
    BY DEF TypeOK, RequestInv, RepeatedOnlyIfLost
  <2> QED
    BY <1>1, <2>1 DEF NameTaken
<1>3. RequestInv'
  BY <1>1, <1>2 DEF RequestInv
<1>4. AuditTrue'
  BY <1>1 DEF AuditTrue
<1>5. AuditGap'
  <2> SUFFICES ASSUME NEW r \in Request
               PROVE  written'[r] <= entries'[r] + unlogged'[r] + lost'[r]
    BY <1>1 DEF AuditGap, TypeOK
  <2>1. /\ written[r] \in Nat /\ entries[r] \in Nat /\ unlogged[r] \in Nat /\ lost[r] \in Nat
        /\ written[r] <= entries[r] + unlogged[r] + lost[r] + 1
        /\ ~InFlight(r) => written[r] <= entries[r] + unlogged[r] + lost[r]
    BY DEF TypeOK, AuditGap, InFlight, Handling
  <2> QED
    BY <1>1, <2>1
<1>6. RepeatedOnlyIfLost'
  <2> SUFFICES ASSUME NEW r \in Request
               PROVE  (r \in Register => written'[r] <= 1) /\ written'[r] <= 1 + lost'[r]
    BY DEF RepeatedOnlyIfLost
  <2>1. /\ written[r] \in Nat /\ lost[r] \in Nat
        /\ r \in Register => written[r] <= 1
        /\ written[r] <= 1 + lost[r]
    BY DEF TypeOK, RepeatedOnlyIfLost
  <2> QED
    BY <1>1, <2>1
<1> QED
  BY <1>3, <1>4, <1>5, <1>6

\* A step of one request keeps the account of its writes, entries and losses.
LEMMA OneRequestStep ==
  ASSUME TypeOK, RequestInv, AuditTrue, AuditGap, RepeatedOnlyIfLost,
         NEW r \in Request, Send(r) \/ Handle(r) \/ WriteFails(r) \/ AuditFails(r)
  PROVE  RequestInv' /\ AuditTrue' /\ AuditGap' /\ RepeatedOnlyIfLost'
<1> DEFINE Others == \A q \in Request \ {r} :
                       /\ at'[q] = at[q] /\ written'[q] = written[q]
                       /\ entries'[q] = entries[q] /\ unlogged'[q] = unlogged[q]
           Kept(q) == /\ at'[q] = "written" => entries'[q] < written'[q]
                      /\ at'[q] \in {"idle", "handling", "failed", "lost"} =>
                           written'[q] <= lost'[q] \/ NameTaken(q)'
                      /\ entries'[q] <= written'[q]
                      /\ written'[q] <= entries'[q] + unlogged'[q] + lost'[q]
                                          + (IF at'[q] = "written" THEN 1 ELSE 0)
                      /\ q \in Register => written'[q] <= 1
                      /\ written'[q] <= 1 + lost'[q]
<1>1. lost' = lost
  BY DEF Send, Handle, Write, Refuse, Audit, Answer, WriteFails, AuditFails
<1>2. Others
  BY DEF Send, Handle, Write, Refuse, Audit, Answer, WriteFails, AuditFails, Reach, TypeOK
<1>3. /\ written[r] \in Nat /\ entries[r] \in Nat /\ unlogged[r] \in Nat /\ lost[r] \in Nat
      /\ at[r] = "written" => entries[r] < written[r]
      /\ at[r] \in {"idle", "handling", "failed", "lost"} =>
           written[r] <= lost[r] \/ (r \in Register /\ written[r] > 0)
      /\ entries[r] <= written[r]
      /\ written[r] <= entries[r] + unlogged[r] + lost[r] + 1
      /\ at[r] # "written" => written[r] <= entries[r] + unlogged[r] + lost[r]
      /\ r \in Register => written[r] <= 1
      /\ written[r] <= 1 + lost[r]
  BY DEF TypeOK, RequestInv, AuditTrue, AuditGap, RepeatedOnlyIfLost, NameTaken
<1>4. Kept(r)
  <2>1. CASE Send(r)
    <3>1. /\ at[r] \in {"idle", "lost", "failed"} /\ at'[r] = "handling"
          /\ UNCHANGED <<written, entries, unlogged>>
      BY <2>1 DEF Send, TypeOK
    <3> QED
      BY <3>1, <1>1, <1>3 DEF NameTaken
  <2>2. CASE Write(r)
    <3>1. /\ at[r] = "handling" /\ at'[r] = "written" /\ ~NameTaken(r)
          /\ written'[r] = written[r] + 1
          /\ UNCHANGED <<entries, unlogged>>
      BY <2>2 DEF Write, Reach, TypeOK
    <3>2. written[r] <= lost[r] /\ (r \in Register => written[r] = 0)
      BY <3>1, <1>3 DEF NameTaken
    <3> QED
      BY <3>1, <3>2, <1>1, <1>3
  <2>3. CASE Refuse(r)
    <3>1. at[r] = "handling" /\ at'[r] = "refused" /\ UNCHANGED <<written, entries, unlogged>>
      BY <2>3 DEF Refuse, Reach, TypeOK
    <3> QED
      BY <3>1, <1>1, <1>3
  <2>4. CASE Audit(r)
    <3>1. /\ at[r] = "written" /\ at'[r] = "logged" /\ UNCHANGED <<written, unlogged>>
          /\ entries'[r] = entries[r] + 1
      BY <2>4 DEF Audit, Reach, TypeOK
    <3> QED
      BY <3>1, <1>1, <1>3
  <2>5. CASE Answer(r)
    <3>1. at[r] = "logged" /\ at'[r] = "ok" /\ UNCHANGED <<written, entries, unlogged>>
      BY <2>5 DEF Answer, Reach, TypeOK
    <3> QED
      BY <3>1, <1>1, <1>3
  <2>6. CASE WriteFails(r)
    <3>1. /\ at[r] = "handling" /\ at'[r] = "failed"
          /\ UNCHANGED <<written, entries, unlogged>>
      BY <2>6 DEF WriteFails, Reach, TypeOK
    <3> QED
      BY <3>1, <1>1, <1>3 DEF NameTaken
  <2>7. CASE AuditFails(r)
    <3>1. /\ at[r] = "written" /\ at'[r] = "logged" /\ UNCHANGED <<written, entries>>
          /\ unlogged'[r] = unlogged[r] + 1
      BY <2>7 DEF AuditFails, Reach, TypeOK
    <3> QED
      BY <3>1, <1>1, <1>3
  <2> QED
    BY <2>1, <2>2, <2>3, <2>4, <2>5, <2>6, <2>7 DEF Handle
<1>5. ASSUME NEW q \in Request \ {r} PROVE Kept(q)
  BY <1>1, <1>2 DEF RequestInv, AuditTrue, AuditGap, RepeatedOnlyIfLost, NameTaken
<1>6. \A q \in Request : Kept(q)
  BY <1>4, <1>5
<1> QED
  BY <1>6 DEF RequestInv, AuditTrue, AuditGap, RepeatedOnlyIfLost

\* So does every other step.
LEMMA RequestStep ==
  ASSUME TypeOK, RequestInv, AuditTrue, AuditGap, RepeatedOnlyIfLost, [Next]_vars
  PROVE  RequestInv' /\ AuditTrue' /\ AuditGap' /\ RepeatedOnlyIfLost'
<1>1. CASE UNCHANGED requestVars
  BY <1>1 DEF requestVars, RequestInv, AuditTrue, AuditGap, RepeatedOnlyIfLost, NameTaken
<1>2. CASE Exit
  BY <1>2, RequestExit
<1>3. ASSUME NEW r \in Request, Send(r) \/ Handle(r) \/ WriteFails(r) \/ AuditFails(r)
      PROVE  RequestInv' /\ AuditTrue' /\ AuditGap' /\ RepeatedOnlyIfLost'
  BY <1>3, OneRequestStep
<1> QED
  BY <1>1, <1>2, <1>3
     DEF Next, Seed, Shutdown, Start, SeedCount, SeedInsert, SeedFails, Stop, StopDone,
         StopForced, StopStarting, StartFails, Up, Crash, Rest, vars

\* Only an abrupt end loses a request.
LEMMA GracefulStep ==
  ASSUME TypeOK, SeedInv, GracefulStop, [Next]_vars
  PROVE  GracefulStop'
<1>1. CASE Crash \/ StopForced
  BY <1>1 DEF Crash, StopForced, GracefulStop
<1>2. CASE SeedFails \/ StopStarting \/ StopDone \/ StartFails
  <2>1. Exit /\ Quiet /\ abrupt' = abrupt
    BY <1>2 DEF SeedFails, StopStarting, StopDone, StartFails, SeedInv, Serving
  <2>2. lost' = lost
    BY <2>1 DEF Exit, Quiet, TypeOK
  <2> QED
    BY <2>1, <2>2 DEF GracefulStop
<1>3. CASE UNCHANGED <<lost, abrupt>>
  BY <1>3 DEF GracefulStop
<1>4. ASSUME NEW r \in Request, Send(r) \/ Handle(r) \/ WriteFails(r) \/ AuditFails(r)
      PROVE  UNCHANGED <<lost, abrupt>>
  BY <1>4 DEF Send, Handle, Write, Refuse, Audit, Answer, WriteFails, AuditFails
<1> QED
  BY <1>1, <1>2, <1>3, <1>4
     DEF Next, Seed, Shutdown, Start, SeedCount, SeedInsert, Stop, Up, Rest, vars, requestVars

-----------------------------------------------------------------------------
(* The theorems.                                                           *)

\* Whatever fails or stops, and whenever, the inductive invariant of main, Seed
\* and the audit middleware holds.
THEOREM InductiveCorrect == Spec => []Inductive
<1>1. Inductive /\ [Next]_vars => Inductive'
  BY TypeStep, SeedStep, RequestStep, GracefulStep DEF Inductive
<1> QED
  BY InitInductive, <1>1, PTL DEF Spec

\* A seed that was cut short has inserted the first rows of its list, and no
\* others.
THEOREM SeedInOrder == Spec => []SeedPrefix
BY InductiveCorrect, PTL DEF Inductive

\* Unless its very first insert failed, a seed, cut short or not, refers to the
\* rows it means by the ids it takes for granted.
THEOREM SeedRefersRight == Spec => []RefsMeant
BY InductiveCorrect, PTL DEF Inductive

\* A server serves incomplete preset rows only after a seed was cut short.
THEOREM PresetsComplete == Spec => []PresetsServed
<1>1. Inductive => PresetsServed
  BY DEF Inductive, SeedInv, PresetsServed, Serving
<1> QED
  BY InductiveCorrect, <1>1, PTL

\* The audit log tells only of writes that were committed.
THEOREM AuditTellsTruth == Spec => []AuditTrue
BY InductiveCorrect, PTL DEF Inductive

\* Writes without an entry are accounted for by failed inserts and lost requests.
THEOREM AuditMissesLittle == Spec => []AuditGap
BY InductiveCorrect, PTL DEF Inductive

\* Sending again repeats a write only when its answer was lost.
THEOREM RepeatsAreLosses == Spec => []RepeatedOnlyIfLost
BY InductiveCorrect, PTL DEF Inductive

\* A graceful stop loses no request.
THEOREM GracefulStopKeeps == Spec => []GracefulStop
BY InductiveCorrect, PTL DEF Inductive
=============================================================================
