# EventGo (gbevent): TLA+ models, model checking and proofs

EventGo (`src/`) is an event registration system: a Go server (Gin, GORM, MySQL 8
with InnoDB) and a Vue front end. Organizers publish activities with a capacity,
users sign up, organizers review registrations and check people in.

This directory holds TLA+ models of the server, the TLC configurations that check
them on small instances, and TLAPS proofs that hold for every value of the
constants. Paths below are relative to `src/backend/internal/` unless they start
with `src/`.

    tlc -workers 2 -config SignupDesk.cfg MCSignup      # check an instance
    tlapm SignupProofs.tla                              # check the proofs

`PROJECT.json` lists the components, the runs, the mutants that show each property
can fail, the source lines behind each definition, the findings, the hazards and
the theorems.

## 1. The system

Every HTTP request is handled by a goroutine of its own. All state that matters is
in MySQL; the only memory handlers share is the rate limiter's map of buckets. So a
behaviour of the system is an interleaving of the *database statements* of the
requests in flight, and the question everywhere is which statements are kept
together by a transaction, a row lock or a unique index, and which are not.

| Component | State | Operations | What makes it correct |
| --- | --- | --- | --- |
| Registration and review (`service/registration_service.go`, `service/signup_guard.go`) | `registrations`, `notifications`; locks on rows of `activities` and `registrations` | Create, OfflineCreate, Cancel, Review; lists and CSV export | quota, one signup per user, decisions and cancellations are final, no lock is left |
| Check-in (`service/check_in_record_service.go`) | `check_in_records`, `registrations` | CheckInByVoucher, CheckInByScan | one record per registration, only approved registrations, list and records agree |
| Activities (`service/activity_service.go`) | `activities` | Create, Update, Publish, End, Delete | draft, published, ended in that order; deleted stays deleted |
| Statistics (`ActivityService.Stats`) | reads `registrations`, `check_in_records` | Stats | counts every attendant once, and its two numbers invert only for two known reasons |
| Accounts (`service/user_service.go`, `util/jwt.go`, `middleware/auth.go`) | `users`; the claims in tokens | Register, Login, UpdateProfile | one account per name, a role that never changes under a token, no profile text lost |
| Rate limiter (`middleware/rate_limiter.go`) | a token bucket per address, under a mutex | Limit | at most the limit per minute; only the busy are turned away |
| Notifications (`service/notification_service.go`) | `notifications` | inserts within the transactions above, the list, MarkRead, MarkAllRead | one per event, none for what was rolled back; read by their addressee only |
| Lists and paging (`List`, `ListByUser` of the repositories) | none; a client keeps its page | a COUNT, then a SELECT with LIMIT and OFFSET | who turns all pages has seen all rows |
| Favorites, comments (`service/favorite_service.go`, `service/comment_service.go`) | `favorites`, `comments` | Add, Remove; Create, Delete, the list with its average | one favorite per user and activity; nothing disappears but by its owner or an admin |
| Seed (`service/seed.go`) | all tables, once | Seed | preset data is complete once the server listens |
| Server process (`src/backend/cmd/server/main.go`) | is it up | start, migrate, seed, serve, stop, crash, restart | comes back; a graceful stop loses no answer |
| Audit log (`middleware/audit_log.go`) | `audit_logs` | one insert after each writing handler | no entry without a write, no write without an entry but for a crash or an error |
| HTTP plumbing, uploads, formatting, configuration | logs, files | | no state that another component reads |
| Schema (`src/database/init.sql`, GORM's AutoMigrate) | unique indexes | | the two ways to create the tables differ, see 3.1 |
| Front end (`src/frontend`) | | sends requests | its requests arrive in any order |

How they interact:

* Review, check-in and signup run transactions that lock one row (`SELECT ... FOR
  UPDATE`), check, write, insert a notification and commit. Signup locks the row of
  the *activity*, review and check-in the row of the *registration*.
* Cancel, UpdateProfile, and every operation on activities read a row *without* a
  lock, change a copy, and `Save` every column of the copy by a later statement. A
  Save waits for row locks but notices nothing that happened since its read.
* OfflineCreate calls the signup guard outside any transaction, and so do favorites
  and comments look up their activity: what they found may be gone when they insert.
* Lists and statistics are several statements without a transaction; between them, and
  between the pages of a list, every other handler goes on.
* The audit entry of a request is a statement of its own after those of its handler.
* Review calls `ActivityService.Get` on a connection of its own within its
  transaction. Check-in never looks at the activity.
* Tokens carry id, name and role; `RequireRole` trusts them without a query.

What is hard here: interleavings of statements, stale copies, row locks and who
waits for whom, a statement that fails in the middle of an operation, a server that
stops in the middle, and long sequences of legal operations on one registration.
Section 7 and the hazards in `PROJECT.json` name the lines.

## 2. Modules

| Module | Models |
| --- | --- |
| `Signup` | the handlers of registration, review and check-in, statement by statement |
| `SignupPromise` | what these promise: each write is one atomic, allowed step |
| `SignupProofs` | proofs about `Signup`, among them that it implements `SignupPromise` |
| `Activities` | the organizers' handlers |
| `ActivityTable` | what these promise: each accepted request is one atomic edit of a version its row has had |
| `ActivityHistory` | `Activities` with the versions of each row as a history variable, and the refinement mapping |
| `ActivitiesProofs` | proofs about these, among them that the handlers implement `ActivityTable` |
| `EventGo`, `EventGoProofs` | `Signup` and `Activities` together on one activities table and its locks, and proofs |
| `Statistics` | the report on an activity next to the handlers of `Signup` |
| `Listing`, `ListingProofs` | lists page by page and the reading of notifications, next to the same; proofs about it and `Statistics` |
| `Engagement`, `EngagementProofs` | favorites and comments next to `Activities`, and proofs |
| `Server`, `ServerProofs` | the life of the process, the seed, and audit entries of requests, and proofs |
| `Accounts` | the users table, logins and tokens |
| `AccountDirectory` | what these promise: each accepted request is one atomic, allowed step |
| `AccountsProofs` | proofs about `Accounts`, among them that it implements `AccountDirectory` |
| `RateLimiter`, `RateLimiterProofs` | the token buckets with time, and proofs |
| `MC...` | finite instances: accounts, activities and workloads for TLC |

`EventGo` extends `Signup` and instantiates `Activities` with `Session <- Request`;
the two share `activity` and `activityLock`. It implements `Activities` again with no row
ever locked (`Undisturbed`), as `Listing` implements `Signup` and `Engagement`
`Activities`: who joins delays the others and changes nothing for them. `Statistics` extends `Signup`, `Listing`
extends `Statistics`, and `Engagement` extends `Activities`. `Server` stands alone:
its requests only write a row. `Accounts` shows what lets the others treat accounts as
constants. The state of a composition is always that of its parts side by side, and
its next-state relation the disjunction of theirs, each leaving the others' variables
alone.

## 3. How the models correspond to the code

### 3.1 Common decisions

* **One action is one statement** of a handler together with the local code up to the
  next one. Statements of a transaction that no other session can tell apart are one
  action: the reads of one read view (the count and the duplicate check of Create: the
  view is opened by the first of them, after the lock was granted), and the writes
  that one commit publishes (registration and notification).
* **A workload is chosen in Init**: `req` (`change`, `ask`) says what each request asks
  for and never changes. Requests start whenever they like, in any order. A request
  inserts at most one row per table, so a row is *named by the request that inserts
  it*; ids, vouchers, titles and texts are not modelled otherwise.
* **Locks**: `activityLock` and `regLock` name the session that holds the exclusive
  lock of a row. A locking read, and an UPDATE or DELETE of the row, waits until it is
  free; plain reads never wait (InnoDB, REPEATABLE READ). Commit and rollback release
  all locks of a session.
* **Save** is GORM's: all columns of the copy are written, and the row is inserted when
  it is no longer there.
* **Failures**: `Fail`, `FailChange`, `FailRequest`, `FailReport` and `VisitFails` end a handler
  between any two statements. They stand for a statement that errs (voucher collision,
  lock wait timeout, lost connection) and for a server that stops: InnoDB rolls the
  open transaction back, and a handler that has none has written nothing yet.
  `FailChange` is also the refusal of an invalid type or status, and a create that fails
  to insert. An answer "ok" means that the last statement committed, whether or not the
  answer reaches the client: a commit whose answer is lost is "ok" to the models, and
  who sends again for want of it is another request of the workload, as the second signup
  of one user is.
* **Schemas**: `src/database/init.sql` has a unique key on (activity_id, user_id) of
  registrations. AutoMigrate, which is all that the tests and a deployment without the
  script have, does not create it. `UniqueActivityUser` says which schema is meant;
  the properties hold in both, and the runs and theorems cover both.
* **The signup deadline** may pass at any moment (`DeadlinePasses`).

### 3.2 Signup and SignupPromise

`pc[q]` is how far the handler of request q has come; `local[q]` the columns it has
read and uses later (the capacity, and the review_status that Cancel writes back).

| Action | Code |
| --- | --- |
| `CreateLock`, `CreateCheck`, `CreateCommit` | `RegistrationService.Create`, `SignupGuard.CheckRegistrationLimitTx` |
| `OfflineRead`, `OfflineCount`, `OfflineInsert` | `OfflineCreate`, `CheckRegistrationLimit` |
| `CancelRead`, `CancelSave` | `Cancel` |
| `ReviewLock`, `ReviewRead`, `ReviewCommit` | `Review` |
| `CheckInFind`, `CheckInLock`, `CheckInCommit` | `CheckInByVoucher`/`CheckInByScan`, `doCheckIn` |

The lists are in `Listing`; Get and ExportCSV are single reads and are left out.
`SignupPromise` has no locks, copies or progress: `SignUp`, `EnterOffline`,
`CancelRegistration`, `Decide`, `Attend`, each guarded by the tables *as they are when
the write happens*. It is deliberately no stronger than the code: offline entry is not
bound to the capacity and a cancellation may hit a registration that was checked in
meanwhile. The refinement mapping is the identity on the tables. `Guarantee` and
`GivenUpForGood` are what its steps alone ensure.

### 3.3 Activities and EventGo

`ReadRow` is the unlocked read with its checks and the edit of the copy; `SaveRow` and
`DeleteRow` are the writes; `CreateActivity` is one insert. In `Activities` alone no
session locks rows (`Session = {}` in its runs); in `EventGo` the sessions are the
requests of `Signup`. `WaitsFor` and `SaveWaitsFor` say which request holds the row that
the next statement of another one needs.

`ActivityTable` has no copies, progress or locks: `Add`, `Amend`, `Advance` and `Remove`
accept a request in one step and write its row. A Save may write an edit of a row that
is no longer there as it was read, so the abstract state must remember: `versions` is
the set of rows an activity has had. No handler keeps it; `ActivityHistory` adds it to
`Activities` as a history variable (`Remember`) and maps `done` to the requests answered
ok. The edit is of one version, never a mix of two, and the version allowed it; that it
is the latest one is what the handlers do not promise.

### 3.4 Statistics and Listing

`report[p]` says what a reader asks for, `stage[p]` how far it has come. `Find`,
`CountRegistrations` and `CountCheckedIn` are the three statements of `Stats`.
`registered[p]` and `checked[p]` are the two numbers it shows; the history variable
`missed[p]` holds the registrations that the first count left out although the second may
count a record of theirs: those overwritten by a stale cancellation when it ran, and those
made between the two counts.

A client who pages through a list alternates `CountRows` (the COUNT behind `total`) and
`ShowRows` (the SELECT), which decides whether there is a next page. The lists are the
registrations of an activity by status and review (`List`), a user's registrations and
his notifications (`ListByUser`). `ORDER BY created_at DESC` leaves the order of rows of
one millisecond open, so `ShowRows` takes any of the orders in `Ordered`, anew in each
statement; `created_at` is set before the insert, so `CreatedAt` need not follow the
order of commits. `MarkRead` and `MarkAllRead` are one UPDATE each; a client marks all
when he has come to the last page. `steady`, `left` and `late` are history variables:
the rows that were there all the time, whether a row has left the list, and whether one
has joined it since the last COUNT.

### 3.5 Accounts

`RegisterFind` and `RegisterInsert`, `Login`, `UpdateFind` and `UpdateSave`. Usernames
are compared as MySQL's collation does (`Key`), trimmed by `Trim`, measured by
`Length`; all three are constants, so the proofs hold for any collation. A text in a
profile column is named by the request it comes from. `answered` is a history variable:
the requests that had been answered when an update read its row. The seeded accounts
are not in the table, and tokens do not expire.

`AccountDirectory` has no progress, copies or failures: `Enroll`, `Issue` and `Amend`
accept a request in one step. The refinement mapping is the identity on the table and the
tokens, and `done` is the set of requests answered ok (`Accepted`), so each is accepted
once. It is no stronger than the code: an update may put back an earlier text of a column
it does not name (`TextOf`), which `LostToOverlapOnly` makes precise.

### 3.6 RateLimiter

Time is counted in ticks, `Minute` of which are a minute. A request is one action, as
the mutex is held throughout. `Horizon` bounds the clock in TLC's runs; the theorems
hold for every `Horizon`. `log` is a history variable. In the code only
`/auth/register` and `/auth/login` are limited (`router/router.go:80-86`), while
`src/cy-306.md:100` also names signup and check-in.

### 3.7 Engagement

`FavoriteFind`, `FavoriteExists`, `FavoriteInsert` are the statements of
`FavoriteService.Add`; `CommentFind` and `CommentInsert`, `CommentCheck` and
`CommentDelete` those of `CommentService`; `CommentList` and `CommentAverage` are the two
of the handler that shows comments, which drops an error of the second. Favorites and
comments look an activity up in whatever status it is, and no statement removes them with
it. An average is kept as sum and count.

### 3.8 Server

| Action | Code |
| --- | --- |
| `Start`, `StartFails` | connect and AutoMigrate (`main.go:29-40`); one of them, or the count of users, errs and main exits |
| `SeedCount`, `SeedInsert`, `SeedFails` | `SeedService.Seed`: the count of users, then ten inserts without a transaction |
| `Send`, `Write`, `Refuse`, `WriteFails` | a client's request and its handler's write |
| `Audit`, `AuditFails`, `Answer` | the audit middleware after the handler, then the answer |
| `Stop`, `StopDone`, `StopForced`, `StopStarting` | a signal; `srv.Shutdown` with its five seconds; a signal before there is a handler for it |
| `Crash`, `Up` | the process ends at any point; the operator starts a stopped container |

Rows of the seed are numbered in the order of `seed.go`; their ids come from
AUTO_INCREMENT, which a failed insert may use up, while the columns that refer to other
rows are literals (`Reference`). The database is empty at first, or filled by
`init.sql`. A client sends a request again when the connection was lost or the answer was
an internal error, at most `MaxSend` times; `MaxFault` bounds crashes, failing statements,
stops and starts by hand. Both bounds are constants of the module and the theorems hold
for all their values.

## 4. What the runs show

| Run | Instance | Shows |
| --- | --- | --- |
| `signup_desk` | 5 requests on two activities, schema without the unique key: signups, offline entries and a release compete for 2 places; or the owner, an admin, the organizer and staff of another activity race on one registration | the inductive invariant, `OnlineWithinCapacity`, `OneSignupPerUser`, `OneCheckInPerRegistration`, `CheckInConsistent`, `NoLeakedLock`, `PlaceReleasedForGood` and `ImplementsPromise` |
| `activities_changes` | 4 operations on one activity, or its creation and 3 operations | the inductive invariant with `RowOnRequest`, `ImplementsTable`, `EndSettles`, `DeleteSettles` |
| `eventgo_races` | 3 requests of participants and staff, 2 of the organizer | `PromiseKept`, `QuotaLostOnlyByEdit`, `NobodyWaitsTwice`, `AttendanceKept` |
| `eventgo_answered` | a registration, two contenders for its row or for that of its activity, and the organizer | `AllAnswered` under weak fairness |
| `statistics_reports` | 4 requests on one activity; two statistics, or a walk through a list (page size 1) next to another user's MarkRead; two assignments of creation times, with ties and rows committed late | `SkewBounded`, `WalkShowsAll`, `ReadKnowingly` and their inductive invariant |
| `engagement_races` | 3 favorites and removals, or comments, deletions and lists, next to a deletion of the activity and another operation on it | the inductive invariant with `OneFavoritePerUser`, `FavoriteKept`, `CommentKept`, `OrphansSettle`, `AverageOfList` |
| `server_life` | 2 requests, each sent again once, 4 faults, an empty or a filled database | the inductive invariant with `SeedPrefix`, `RefsMeant`, `PresetsServed`, `AuditTrue`, `AuditGap`, `RepeatedOnlyIfLost`, `GracefulStop`, and `ServesAgain` under fairness |
| `accounts_changes` | 6 requests: registrations of one name or two, logins, updates | the inductive invariant with `UniqueNames`, `TokensCurrent` and `OwnFieldsOnly`, `LostToOverlapOnly`, and `ImplementsDirectory` |
| `rate_limits` | 2 clients, limit and minute of a few ticks, several minutes | the inductive invariant, `AtMostPerMinute`, `RejectsOnlyTheBusy` |

Where a run checks an inductive invariant, the type invariant and the unique keys
(`OneFavoritePerUser`, `UniqueNames`) are conjuncts of it.

**Why the bounds are enough.** A hazard here needs a victim (a row), a handler with a
stale view of it, and one or two handlers that change it meanwhile. Five requests give
the row, a decision and three free operations; in the workloads about the quota three
requests compete for the place that is left besides the first signup and an operation
that frees one. The schema with the unique key is used in the runs of `EventGo`. Four
operations on an activity are one more than the longest way to undo an End (two stale
readers and the End). Three profile updates are the fewest in which one undoes what
the second had undone of the third. A client of the limiter can use its bucket up,
wait for any number of ticks and use it up again within the horizon. A page of one row
makes every row the last of its page and the first of the next; two of a list's rows are
there before the walk, and others join, leave or change their status at any point of it.
Two Adds and a Remove are the fewest in which a favorite is inserted, refused by the
index and removed. Four faults suffice for a seed that is cut short, a restart that
skips the rest, a failed audit insert and a lost answer in one behaviour. Every action and
every refusal fires in some run. What does not depend on the numbers is proved
(section 5).

**Workloads** are sets of assignments of contents to requests; those that differ only
by the order of interchangeable requests are left out. Clients of the limiter are
symmetric; `RateLimits.cfg` uses that for safety only.

**Deadlock** is checked in every run without fairness: the disjunct `Finished`
(`AllFinished`, `AllDone`) lets a behaviour stutter only when every request has been
answered, so a request that can neither go on nor fail is reported. A handler that
waits for a lock may fail (a lock wait timeout), so requests that wait for each other
do not stop a behaviour. `NobodyWaitsTwice` excludes that as an invariant (a request for
which others wait does not wait, so no chain of waiting is longer than one), and
`eventgo_answered` as a liveness property, because it gives failures no fairness and still
asks that everything is answered; it therefore says `CHECK_DEADLOCK FALSE`. The limiter's clock stops at `Horizon`, but requests go on.
`Rest` lets the server idle when nothing is in flight and it listens, or is to stay down.

**Fairness.** `FairEventSpec` assumes weak fairness of each handler. The
Go scheduler runs every goroutine, and the database serves every statement that need
not wait for a lock. Weak fairness suffices because each behaviour has finitely many
requests. It is an assumption on each handler taken by itself, and none is made on
failures or on the deadline. `FairSpec` of `Server` assumes that Docker starts the
container again (`restart: unless-stopped` in `src/docker-compose.yml`), that the process
takes the next step of its seed, and that a stop comes to an end, which the timeout of
`srv.Shutdown` sees to. It assumes nothing of clients, of requests in flight or of the
operator: `ServesAgain` says that once faults cease, the server listens for good or was
told to stay down.

## 5. What is proved

TLAPS checks all of the following for any finite or infinite constants that satisfy the
named assumptions (`SignupAssumption`, `ActivitiesAssumption`, `EventAssumption`,
`StatisticsAssumption`, `ListingAssumption`, `EngagementAssumption`, `ServerAssumption`,
`AccountsAssumption`, `RateAssumption`); these say that the constants have their types,
that `Free`, `Keep`, `Blank` and `NoUser` are none of the values they stand apart from,
that only staff sends staff requests (`RequireRole`), that an id is given to one
activity, and that a page has at least one row (`Normalize`). Only `Signup` needs the set
of requests to be finite, to count registrations.

**Signup** (`SignupProofs`). `Inductive` is the conjunction of the properties with
`LockInv` (who holds which lock), `RowInv` (rows come from requests that were answered
ok, and a handler that writes a row has seen it), `TargetInv` (what unlocked reads
established about owners) and `CheckedInv`. The last is the heart: while a signup holds
the activity row, the capacity it has read is still the capacity, there is still room,
and its user still has no registration. That is why `OnlineWithinCapacity` is kept,
although cancellations, decisions and offline entries, which do not take the lock, run
in between: none of them adds an online registration that counts. Theorems:
`TypeCorrect`, `LocksCorrect`, `NoLockLeaks`, `CancellationIsFinal`,
`PlaceIsReleasedForGood`, `AtMostOneCheckIn`, `AttendanceConsistent`,
`InductiveCorrect`, `QuotaKept`, `NoDuplicateSignup` and `SignupImplementsPromise`,
the refinement.

That the promise is worth keeping is proved of `SignupPromise` alone: `PromiseSuffices`
derives the quota, one signup per user and one check-in per registration from its five
atomic steps, `PromiseGivesUpForGood` that none of them takes a cancellation or a
rejection back. The argument about locks and stale reads is thus needed once, for the
refinement.

**Activities** (`ActivitiesProofs`). `CopyInv` says that a copy shows only what was
asked for; with it a Save, however stale, writes nothing nobody asked for
(`RowsOnRequest`). `EndedForGood` and `DeletedForGood` bound the damage of stale saves:
once the handlers that had read the row are through, the activity stays ended, or
deleted. Their invariants, `Settled` and `Gone`, are about the rest of a behaviour.
`HistoryInv` says that every copy still to be saved is the edit of some version that
allowed it, by somebody entitled to it, and that an id still to be assigned never had a
row (`HistoryCorrect`). It makes each write a step of the abstract table
(`ActivitiesImplementTable`); `TableSuffices` says that the edits of the table alone bring
no status and no capacity into any version that nobody entitled to it asked for, and that
what ended had been published, or was created or began as ended.

**EventGo** (`EventGoProofs`). `SharedInv` is what remains of `Signup`'s invariant when
organizers write the activities table: all but the quota, which an organizer breaks who
lowers the capacity. It is kept because a statement of an organizer writes only a row
that no signup has locked, or a new one that nobody can have read (`FreshInv`), so what a
signup has read is still true when it commits. The lemmas of `SignupProofs` are reused for
every step of a participant. Three kinds of theorems follow.

* For participants: `PromiseKeptForAll` (next to organizers each write is still a step of
  `SignupPromise`), `OnlyWithRoomAdmitted`, `AttendanceSurvives`, `PlaceStaysReleased`,
  `CancellationStaysFinal`, and `OnlyEditsBreakQuota`: the quota, which is no invariant
  here, is lost in one way only. A signup keeps it by `CapacityStep`, and a creation by
  `UnsignedInv`: nobody has signed up for an activity that is still to be inserted.
* For organizers: `OrganizersUndisturbed` maps the locks away, and with it the theorems of
  `ActivitiesProofs` hold here too (`RowsStayOnRequest`, `EndStaysSettled`,
  `DeleteStaysSettled`).
* For both: `NoLockLeaksToOrganizers` and `NoCircularWait`, the safety part of `AllAnswered`.

**Statistics and Listing** (`ListingProofs`). Every record belongs to a registration of
its own that counts or was overwritten, an injection that `RecordsCounted` turns into a
bound. `CountInv` carries it from the first count of a report to the second: the
registrations that have or may come to have a record (`Attendable`), without those in
`missed`, are no more than were counted, because no step lets a registration become one
of them except by inserting it (`AttendableStep`, which rests on
`ReleasedStep` and on `CheckInConsistent`). `SkewIsBounded` follows.
For the walk through a list, `PlaceInv` says that a row the
client has missed so far has at least as many younger rows as there are places on the
pages he has turned. `PageSkipsNone` is the heart: when the page shows neither the row nor
one of its millisecond, the row lies behind the page, so all places of the page hold
younger ones too. On the last page there are more places than other rows, so nothing can
be missing. Rows that join only add younger ones; the reasons in `Excused` are exactly
the steps at which the argument breaks, and each of them is necessary (without it TLC
finds a missed row). Theorems: `ReportsTyped`, `SkewIsBounded`,
`ListingInductiveCorrect`, `WalksShowAll`, `ReadsAreKnowing`. `ReadersUndisturbing` is the
refinement of `Signup`, by which its theorems hold next to readers (`ListsOfThePromise`).

**Engagement** (`EngagementProofs`). `VisitInv` says that rows come from visits that were
answered ok and that a handler about to write has passed its checks. Theorems:
`EngagementCorrect`, `FavoritesUnique`, `FavoritesStay`, `CommentsStay`, `OrphansCease`
and `AveragesAgree`; by `VisitorsUndisturbing` those of `Activities` hold next to visitors
(`VisitedAsRequested`).

**Server** (`ServerProofs`). `SeedInv` says that while a process seeds, the rows are
exactly those it has inserted, with consecutive ids, and that before the first account
there is none; `RequestInv` relates the rows and entries of a request to how far it has
come. Theorems: `InductiveCorrect`, `SeedInOrder`, `SeedRefersRight`, `PresetsComplete`,
`AuditTellsTruth`, `AuditMissesLittle`, `RepeatsAreLosses`, `GracefulStopKeeps`.

**Accounts** (`AccountsProofs`). `CopyInv` says that a row read for an update has the
identity of the account now, and that a text it lacks was lost to an update that
overlapped or came later (`CopyLost`); so a save keeps `LostToOverlapOnly`: what it
undoes was set while it ran or was undone before. Theorems: `InductiveCorrect`,
`NamesUnique`, `TokensStayTrue`, `OwnFieldsKept`, `ProfilesKept`, `IdentityKept`, and
`AccountsImplementDirectory`, the refinement: `CopyInv` is what makes a stale save a step
of `Amend`. `DirectorySuffices` and `DirectoryKeepsIdentity` say that the steps of
`AccountDirectory` alone keep names unique, tokens true and accounts in their owners'
hands, which is what `RequireRole` and the modules with constant accounts rely on.

**RateLimiter** (`RateLimiterProofs`). `BucketInv` splits the requests let through into
those since the bucket was last full and those before: each of the latter is a minute
older than each of the former, and of the former there are as many as tokens are
missing. `NeverMoreThanPerMinute` and `OnlyTheBusyRejected` follow.

**Only model-checked**: liveness under fairness (`AllAnswered`, `ServesAgain`), which is
out of the prover's reach.

## 6. Where the code and what is said about it differ

Three runs must fail; TLC prints the interleaving. Each is a place where two handlers
are kept apart by nothing.

| Run | What happens |
| --- | --- |
| `signup_oversell` | OfflineCreate uses the guard without the lock: two requests take the last place. `service/signup_guard.go:14` says the guard, also for offline entry, does not oversell |
| `signup_cancel_checked_in` | a check-in between the read and the save of Cancel is overwritten with cancelled, which `router/router_mainflow_test.go:358` excludes |
| `activities_end_undone` | an update that had read the row saves it after End: the activity is published again, and open for signup |

The models show more of the same kind; what bounds the damage is checked.

* Cancel writes back the review_status it has read (`registration_service.go:86`), so a
  decision in between is lost and the registration can be reviewed, and its owner
  notified, a second time. `PlaceReleasedForGood` holds all the same.
* A Save after Delete inserts the row again (`activity_repository.go:129`).
  `DeleteSettles` says when this can no longer happen.
* Offline entry stores the operator as the user: with the unique key of `init.sql` an
  operator's second entry for an activity fails on insert, while
  `service/registration_flow_test.go:268` says that entries are not deduplicated.
* The two counts of `Stats` are taken at different moments, so a report may show more
  check-ins than registrations (`service/registration_flow_test.go:391` says never).
  `SkewBounded` bounds the difference of the numbers shown by the registrations made
  between the two counts and those that a stale cancellation had overwritten before the
  first. Without either of the two sets TLC finds a report that shows more.
* A username is measured before it is trimmed (`user_service.go:30`): three blanks
  become an empty username.
* Every request of a client resets lastFill (`rate_limiter.go:50`), and only whole
  minutes count: who asks more than once a minute never regains a token.
  `RejectsOnlyTheBusy` says who is spared, not that this is as it should be.
* Seed has no transaction and is skipped as soon as one account exists: a start that is
  cut short after the first account leaves the rest out for good, while `seed.go:25` and
  the list of preset accounts in `src/README.md:19` speak of all of them.
  `PresetsServed` says that this is the only way to serve without them, `SeedPrefix` that
  what is there is a prefix. When the very first insert fails after it used up an id, all
  accounts are shifted and the literal ids of `seed.go:48-61` mean others (`RefsMeant`).
* The presets of `seed.go` and `init.sql` differ: the script has five activities and a
  check-in record for registration 2, Seed four and none, so there a registration is
  checked in without a record.
* Two Adds of one favorite: the loser of the insertion is answered with an internal error
  rather than with the conflict of `favorite_service.go:31`; likewise a Register that
  loses a race.
* Favorites and comments of a deleted activity stay in their tables, and a request that
  had found the activity may still insert one (`OrphansSettle`).
* A list of comments and its average are read by two statements and may disagree; an error
  of the second is shown as 0 (`comment_handler.go:40`).
* A comment that is sent again after a lost answer is there twice (`RepeatedOnlyIfLost`):
  nothing identifies a request, and only registrations are protected by an index.
* Paging by OFFSET skips rows when earlier ones leave the list: a manager who decides
  pending registrations while he pages through them misses every other page
  (`WalkShowsAll`). MarkAllRead also marks what was committed after the list was shown:
  `ReadKnowingly` does not exclude that, it says that nothing else is read unseen and
  nothing by another user.
* The error of the binding of a list query is dropped
  (`handler/registration_handler.go:47`), so `max=200` of `page_size` is not enforced.

## 7. What is not modelled, and why

* Token signing and expiry, uploads, logging, formatting, configuration, the front end:
  no state that another component reads.
* Lists of activities, users and favorites page as those in `Listing` do; the calendar,
  the lists of comments of a user and the CSV export are one SELECT each.
* Columns without influence on control: titles, texts, times of an activity, the columns
  of an audit entry. The start and end time of an activity are never compared with the
  clock.
* The voucher number: a collision is one of the failures of `Fail`. That 10000 vouchers a
  day run out is not modelled; signups then fail, each as `Fail` lets any of them.
* InnoDB's gap locks and deadlock detection beyond row locks; a victim of detection is
  a failed request, which `Fail` covers.
* The limit of the connection pool: `database/sql` is used with its default, which is
  unbounded, so Review may take a second connection within its transaction.
* Requests of `Server` are two of the many that write; their handlers' interleavings with
  each other are the subject of the other modules, where a crash is the failure of every
  handler in flight.

## 8. Plan

Done, in this order: `Signup` with its promise and proofs, `Activities`, `EventGo`,
`RateLimiter`, `Statistics`, `Accounts`, `Engagement`, `Server`, `Listing`, each with
proofs.

Next:

1. A bounded connection pool, as a variant of `Signup`: Review takes a second connection
   while it holds one, which needs a bound that the code does not set today.
2. The expiry of tokens in `Accounts`, with the clock of `RateLimiter`.
