-------------------------------- MODULE Server --------------------------------
(***************************************************************************)
(* The life of the server process (cmd/server/main.go): migrate, seed the  *)
(* preset rows (service/seed.go), listen, stop on a signal; crashes and    *)
(* failing statements at any point, after which the container is started   *)
(* again (restart: unless-stopped in src/docker-compose.yml).  Clients     *)
(* send writing requests, whose audit entry (middleware/audit_log.go) is a *)
(* second statement after that of the handler.                             *)
(***************************************************************************)
EXTENDS Integers

CONSTANTS
  Request,   \* the writing requests of clients
  Register,  \* those that register an account; the others post a comment
  MaxFault,  \* bound: crashes, failing statements, stops and starts by hand
  MaxSend    \* bound: how often a client sends a request that was not done

ASSUME ServerAssumption ==
  Register \subseteq Request /\ MaxFault \in Nat /\ MaxSend \in Nat

(* The preset rows in the order of seed.go: three users (admin, organizer, *)
(* user), four activities, and one registration for each of the first      *)
(* three.  Ids are left to AUTO_INCREMENT, the columns that refer to other *)
(* rows are literals.                                                      *)
Preset == 1..10
UserPreset == 1..3
ActivityPreset == 4..7
RegistrationPreset == 8..10
Admin == 1

Table == {"users", "activities", "registrations"}
TableOf(k) == IF k \in UserPreset THEN "users"
              ELSE IF k \in ActivityPreset THEN "activities" ELSE "registrations"

\* A row of a preset means to refer to the row of preset `to` by the literal id.
Reference ==
  {[from |-> k, to |-> 2, id |-> 2] : k \in ActivityPreset}
    \cup {[from |-> k, to |-> 3, id |-> 3] : k \in RegistrationPreset}
    \cup {[from |-> k, to |-> k - 4, id |-> k - 7] : k \in RegistrationPreset}

VARIABLES
  server,    \* what the process is doing
  stopped,   \* an operator has stopped the container
  next,      \* the preset that Seed inserts next
  preset,    \* the id of the row of each preset, 0 while there is none
  lastId,    \* AUTO_INCREMENT of each table
  at,        \* how far each request has come
  sent,      \* how often it was sent
  written,   \* the rows inserted for it
  entries,   \* table audit_logs: its entries
  unlogged,  \* history: its audit inserts that failed
  lost,      \* history: its sendings that were cut off by the end of the process
  cut,       \* history: a seed was cut short after its first account
  abrupt,    \* history: the process ended with requests in flight
  faults     \* how much of MaxFault is used up

seedVars == <<next, preset, lastId, cut>>
requestVars == <<at, sent, written, entries, unlogged, lost, abrupt>>
vars == <<server, stopped, seedVars, requestVars, faults>>

Handling == {"handling", "written", "logged"}
Answered == {"ok", "refused", "failed"}

TypeOK ==
  /\ server \in {"down", "migrated", "seeding", "listening", "stopping"}
  /\ stopped \in BOOLEAN /\ cut \in BOOLEAN /\ abrupt \in BOOLEAN
  /\ next \in Preset
  /\ preset \in [Preset -> Nat]
  /\ lastId \in [Table -> Nat]
  /\ at \in [Request -> {"idle", "lost"} \cup Handling \cup Answered]
  /\ sent \in [Request -> Nat] /\ written \in [Request -> Nat]
  /\ entries \in [Request -> Nat] /\ unlogged \in [Request -> Nat]
  /\ lost \in [Request -> Nat]
  /\ faults \in Nat

\* A database without rows, or one that database/init.sql has filled.
EmptyDatabase ==
  /\ preset = [k \in Preset |-> 0]
  /\ lastId = [t \in Table |-> 0]

FilledDatabase ==
  /\ preset = [k \in Preset |-> IF k \in UserPreset THEN k
                                ELSE IF k \in ActivityPreset THEN k - 3 ELSE k - 7]
  /\ lastId = [t \in Table |-> IF t = "activities" THEN 5 ELSE 3]

Init ==
  /\ server = "down" /\ stopped = FALSE /\ next = 1
  /\ EmptyDatabase \/ FilledDatabase
  /\ at = [r \in Request |-> "idle"]
  /\ sent = [r \in Request |-> 0] /\ written = [r \in Request |-> 0]
  /\ entries = [r \in Request |-> 0] /\ unlogged = [r \in Request |-> 0]
  /\ lost = [r \in Request |-> 0]
  /\ cut = FALSE /\ abrupt = FALSE
  /\ faults = 0

-----------------------------------------------------------------------------
(* Faults and the end of the process.                                      *)

Fault == faults < MaxFault /\ faults' = faults + 1

Seeded(k) == preset[k] # 0

SomeAccount == \/ \E k \in UserPreset : Seeded(k)
               \/ \E r \in Register : written[r] > 0

InFlight(r) == at[r] \in Handling

\* The process is gone, and with it the connections of requests in flight.
Exit ==
  /\ server' = "down"
  /\ at' = [r \in Request |-> IF InFlight(r) THEN "lost" ELSE at[r]]
  /\ lost' = [r \in Request |-> IF InFlight(r) THEN lost[r] + 1 ELSE lost[r]]
  /\ UNCHANGED <<sent, written, entries, unlogged>>

\* A seed that has written an account is not taken up again.
CutsSeed == server = "seeding" /\ SomeAccount

Crash ==
  /\ server # "down"
  /\ Fault
  /\ Exit
  /\ cut' = (cut \/ CutsSeed) /\ abrupt' = TRUE
  /\ UNCHANGED <<stopped, next, preset, lastId>>

\* Before signal.NotifyContext (main.go:81) a signal ends the process at once.
StopStarting ==
  /\ server \in {"migrated", "seeding"}
  /\ Fault
  /\ stopped' = TRUE
  /\ Exit
  /\ cut' = (cut \/ CutsSeed)
  /\ UNCHANGED <<next, preset, lastId, abrupt>>

\* SIGTERM or SIGINT: no connections are accepted any more.
Stop ==
  /\ server = "listening"
  /\ Fault
  /\ server' = "stopping" /\ stopped' = TRUE
  /\ UNCHANGED <<seedVars, requestVars>>

\* Mutant: the server is closed without waiting for requests.
QuietAtOnce == TRUE

Quiet == \A r \in Request : ~InFlight(r)

\* srv.Shutdown returns when no request is in flight.
StopDone ==
  /\ server = "stopping" /\ Quiet
  /\ Exit
  /\ UNCHANGED <<stopped, seedVars, abrupt, faults>>

\* srv.Shutdown gives up after five seconds.
StopForced ==
  /\ server = "stopping" /\ ~Quiet
  /\ Exit
  /\ abrupt' = TRUE
  /\ UNCHANGED <<stopped, seedVars, faults>>

\* An operator starts the container again.
Up ==
  /\ stopped /\ server = "down"
  /\ Fault
  /\ stopped' = FALSE
  /\ UNCHANGED <<server, seedVars, requestVars>>

-----------------------------------------------------------------------------
(* Start: connect, migrate and seed.                                       *)

\* AutoMigrate changes nothing in tables that are there.
Start ==
  /\ server = "down" /\ ~stopped
  /\ server' = "migrated"
  /\ UNCHANGED <<stopped, seedVars, requestVars, faults>>

\* Connecting or AutoMigrate fails, or the query that counts the users: main
\* exits.
StartFails ==
  /\ server = "migrated" \/ (server = "down" /\ ~stopped)
  /\ Fault
  /\ Exit
  /\ UNCHANGED <<stopped, seedVars, abrupt>>

\* Mutant: the seed is skipped only when it is complete.
SkipsSeedIfComplete == \A k \in Preset : Seeded(k)

SkipsSeed == SomeAccount

\* Mutant: an interrupted seed is taken up where it stopped.
SeedCountResuming ==
  /\ server = "migrated"
  /\ \/ /\ \A k \in Preset : Seeded(k)
        /\ server' = "listening" /\ next' = 1
     \/ \E k \in Preset :
          /\ ~Seeded(k) /\ \A j \in 1..(k - 1) : Seeded(j)
          /\ server' = "seeding" /\ next' = k
  /\ UNCHANGED <<stopped, preset, lastId, cut, requestVars, faults>>

\* Seed counts the users, and inserts only when there are none.
SeedCount ==
  /\ server = "migrated"
  /\ server' = IF SkipsSeed THEN "listening" ELSE "seeding"
  /\ next' = 1
  /\ UNCHANGED <<stopped, preset, lastId, cut, requestVars, faults>>

\* uk_users_username; the other tables take a preset again.
KeyTaken(k) == k \in UserPreset /\ Seeded(k)

\* Mutant: the loop does not end with the last row.
SeedGoesPast == next' = next + 1 /\ UNCHANGED server

\* Seed goes on after preset next, or returns and the server listens.
SeedGoesOn ==
  IF next = 10 THEN server' = "listening" /\ UNCHANGED next
  ELSE next' = next + 1 /\ UNCHANGED server

SeedInsert ==
  LET t == TableOf(next) IN
  /\ server = "seeding"
  /\ ~KeyTaken(next)
  /\ preset' = [preset EXCEPT ![next] = lastId[t] + 1]
  /\ lastId' = [lastId EXCEPT ![t] = lastId[t] + 1]
  /\ SeedGoesOn
  /\ UNCHANGED <<stopped, cut, requestVars, faults>>

\* Mutant: main goes on when Seed has failed.
SeedFailsListening ==
  /\ server = "seeding"
  /\ Fault
  /\ server' = "listening"
  /\ UNCHANGED <<stopped, seedVars, requestVars>>

\* An insert fails, which may use up an id: Seed returns the error, and main
\* exits.
SeedFails ==
  /\ server = "seeding"
  /\ KeyTaken(next) \/ faults < MaxFault
  /\ faults' = IF KeyTaken(next) THEN faults ELSE faults + 1
  /\ \E burned \in {0, 1} : lastId' = [lastId EXCEPT ![TableOf(next)] = @ + burned]
  /\ cut' = (cut \/ CutsSeed)
  /\ Exit
  /\ UNCHANGED <<stopped, next, preset, abrupt>>

-----------------------------------------------------------------------------
(* Writing requests.                                                       *)

Serving == server \in {"listening", "stopping"}

Reach(r, from, to) == at[r] = from /\ at' = [at EXCEPT ![r] = to]

\* A client sends its request, and again when it was lost or failed.
Send(r) ==
  /\ server = "listening"
  /\ sent[r] < MaxSend
  /\ at[r] \in {"idle", "lost", "failed"}
  /\ at' = [at EXCEPT ![r] = "handling"]
  /\ sent' = [sent EXCEPT ![r] = @ + 1]
  /\ UNCHANGED <<server, stopped, seedVars, written, entries, unlogged, lost, abrupt, faults>>

NameTaken(r) == r \in Register /\ written[r] > 0

\* Mutant: the entry is written later, by a goroutine that Shutdown does not
\* wait for.
WriteAndAnswer(r) ==
  /\ Serving
  /\ ~NameTaken(r)
  /\ Reach(r, "handling", "ok")
  /\ written' = [written EXCEPT ![r] = @ + 1]
  /\ UNCHANGED <<server, stopped, seedVars, sent, entries, unlogged, lost, abrupt, faults>>

\* The handler's statement commits.
Write(r) ==
  /\ Serving
  /\ ~NameTaken(r)
  /\ Reach(r, "handling", "written")
  /\ written' = [written EXCEPT ![r] = @ + 1]
  /\ UNCHANGED <<server, stopped, seedVars, sent, entries, unlogged, lost, abrupt, faults>>

\* Mutant: the middleware does not look at the status of the answer.
RefuseLogged(r) ==
  /\ Serving
  /\ NameTaken(r)
  /\ Reach(r, "handling", "refused")
  /\ entries' = [entries EXCEPT ![r] = @ + 1]
  /\ UNCHANGED <<server, stopped, seedVars, sent, written, unlogged, lost, abrupt, faults>>

\* The handler refuses a name that is taken: an error status, no audit entry.
Refuse(r) ==
  /\ Serving
  /\ NameTaken(r)
  /\ Reach(r, "handling", "refused")
  /\ UNCHANGED <<server, stopped, seedVars, sent, written, entries, unlogged, lost, abrupt, faults>>

WriteFails(r) ==
  /\ Serving
  /\ Fault
  /\ Reach(r, "handling", "failed")
  /\ UNCHANGED <<server, stopped, seedVars, sent, written, entries, unlogged, lost, abrupt>>

\* The middleware inserts the entry once the handler has returned.
Audit(r) ==
  /\ Serving
  /\ Reach(r, "written", "logged")
  /\ entries' = [entries EXCEPT ![r] = @ + 1]
  /\ UNCHANGED <<server, stopped, seedVars, sent, written, unlogged, lost, abrupt, faults>>

\* Mutant: a failing audit insert turns the answer into an internal error.
AuditFailsRequest(r) ==
  /\ Serving
  /\ Fault
  /\ Reach(r, "written", "failed")
  /\ unlogged' = [unlogged EXCEPT ![r] = @ + 1]
  /\ UNCHANGED <<server, stopped, seedVars, sent, written, entries, lost, abrupt>>

\* Its error is logged and dropped.
AuditFails(r) ==
  /\ Serving
  /\ Fault
  /\ Reach(r, "written", "logged")
  /\ unlogged' = [unlogged EXCEPT ![r] = @ + 1]
  /\ UNCHANGED <<server, stopped, seedVars, sent, written, entries, lost, abrupt>>

\* The buffered answer goes out when the middlewares have returned.
Answer(r) ==
  /\ Serving
  /\ Reach(r, "logged", "ok")
  /\ UNCHANGED <<server, stopped, seedVars, sent, written, entries, unlogged, lost, abrupt, faults>>

Handle(r) == Write(r) \/ Refuse(r) \/ Audit(r) \/ Answer(r)

Seed == SeedCount \/ SeedInsert \/ SeedFails
Shutdown == Stop \/ StopDone \/ StopForced

\* Nothing is left to do, or the container is to stay down.
Rest ==
  /\ Quiet
  /\ server = "listening" \/ (server = "down" /\ stopped)
  /\ UNCHANGED vars

Next ==
  \/ Start \/ StartFails \/ Seed \/ Shutdown \/ StopStarting \/ Up \/ Crash
  \/ \E r \in Request : Send(r) \/ Handle(r) \/ WriteFails(r) \/ AuditFails(r)
  \/ Rest

Spec == Init /\ [][Next]_vars

\* Docker starts the container again, and the process takes its next step.
FairSpec ==
  Spec /\ WF_vars(Start) /\ WF_vars(Seed) /\ WF_vars(StopDone \/ StopForced)

-----------------------------------------------------------------------------
(* Start and seed.                                                         *)

\* Wherever a seed is cut short (seed.go:41-66), the preset rows that are there
\* are the first of the list: none refers to one that was left out.
SeedPrefix == \A k \in Preset : Seeded(k) => \A j \in 1..(k - 1) : Seeded(j)

\* The literal ids of seed.go:48-61 are those of the rows meant, although ids
\* are left to AUTO_INCREMENT and a failed insert may use one up: unless the
\* very first insert did, every preset row refers to the row it means.
RefsMeant ==
  preset[Admin] = 1 =>
    \A ref \in Reference : Seeded(ref.from) => preset[ref.to] = ref.id

\* A server that serves has all preset rows, unless a start was cut short
\* after its first account: the next start then finds an account and skips the
\* rest (seed.go:31).
PresetsServed == Serving => cut \/ \A k \in Preset : Seeded(k)

\* However the process ends, and wherever its seed was cut short: when faults
\* cease, it listens for good or an operator keeps it down.
ServesAgain == <>[](server = "listening" \/ stopped)

(* Requests and their audit entries.                                       *)

\* An entry tells of a write that was committed (audit_log.go:40).
AuditTrue == \A r \in Request : entries[r] <= written[r]

\* A committed write without an entry is in flight, was cut off by the end of
\* the process, or met a failing audit insert (audit_log.go:64).
AuditGap ==
  \A r \in Request :
    written[r] <= entries[r] + unlogged[r] + lost[r] + (IF at[r] = "written" THEN 1 ELSE 0)

\* A client that sends again what was lost or failed repeats its effect only
\* when an answer was lost, and never registers an account twice.
RepeatedOnlyIfLost ==
  \A r \in Request : /\ r \in Register => written[r] <= 1
                     /\ written[r] <= 1 + lost[r]

\* A stop that is not forced loses no answer (main.go:92-98).
GracefulStop == (\E r \in Request : lost[r] > 0) => abrupt

(* The inductive invariant behind them, proved in ServerProofs.            *)

\* While a process seeds, the rows are exactly those it has inserted, with
\* consecutive ids; before the first account there is no row at all.
SeedInv ==
  /\ server = "seeding" =>
       /\ \A k \in Preset : Seeded(k) <=> k < next
       /\ \A k \in UserPreset : k < next => preset[k] = preset[Admin] + k - 1
       /\ next \in 2..3 => lastId["users"] = preset[next - 1]
       /\ \A k \in ActivityPreset : k < next => preset[k] = k - 3
       /\ next < 4 => lastId["activities"] = 0
       /\ next \in ActivityPreset => lastId["activities"] = next - 4
  /\ ~SomeAccount => /\ \A k \in Preset : ~Seeded(k)
                     /\ lastId["activities"] = 0
  /\ server # "seeding" /\ SomeAccount => cut \/ \A k \in Preset : Seeded(k)
  /\ Serving => SomeAccount
  /\ ~Serving => Quiet
  /\ server = "seeding" => \A r \in Register : written[r] = 0

RequestInv ==
  \A r \in Request :
    /\ at[r] = "written" => entries[r] < written[r]
    /\ at[r] \in {"idle", "handling", "failed", "lost"} => written[r] <= lost[r] \/ NameTaken(r)

Inductive ==
  /\ TypeOK /\ SeedInv /\ SeedPrefix /\ RefsMeant
  /\ RequestInv /\ AuditTrue /\ AuditGap /\ RepeatedOnlyIfLost /\ GracefulStop
=============================================================================
