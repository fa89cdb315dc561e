# Verification of the construction site safety control service

This directory holds TLA+ models of the Go backend under `src/backend` and of the web
client under `src/frontend`, the TLC configurations that check them on small instances,
and TLAPS proofs of the properties that matter most, for every value of the constants.
`PROJECT.json` lists the components, the runs, the hazards and, for each definition that
models code, the lines it stands for.

## The system

A Gin server in front of MySQL (GORM), and a React client. A request passes
request id, logging, error handler, CORS and audit middleware, on most routes
authentication and a role check, then `handler` (binding, error-to-status
mapping), `service` (the rules) and `repository` (the SQL). Each request runs
in a goroutine of its own. The services share nothing in memory: all their
state is in the tables. The rate limiter is the one component whose state is in
the process, under a mutex.

Three facts about the storage layer shape everything below.

* **Read, check, change, save.** The status operations of incidents, the review
  of certifications, the record of trainings and the profile update read a row
  with one statement, check and change it in memory, and write it back with
  GORM's `Save`: an UPDATE of *every* column, with no version or status in its
  WHERE clause, outside any transaction. Another request may write the row in
  between.
* **One transaction with a lock.** `SafetyInspectionService.Execute` alone runs
  in a transaction and reads its row with `SELECT ... FOR UPDATE`, which waits
  for the row lock and reads the latest committed version.
* **No deletes.** No operation deletes a row.

### Components

| component | state | operations | hard behaviours | what makes it correct |
|---|---|---|---|---|
| incident service | `safety_incidents` | Report, Assign, SubmitRectification, Close | stale whole-row saves, lost answers, crashes | no status skipped, measures and the facts of the report kept, every incident closed in the end |
| inspection service | `safety_inspections`, `inspection_items`, row locks | Create, Execute, GetWithItems | lock queue, rollback, report read in two queries, bodies with missing, repeated or foreign items | executed once, outcome and report of it final, counts those of the items, waiting requests answered |
| rate limiter | a bucket for each client address | Limit; restart empties it | alignment of requests with the minute | never over the rate; who stays away a minute is let in |
| certification service | `worker_certifications`, the clock | Submit, Review, ExpiringSoon | racing reviews, day granularity of a date column | decided once is decided, a lapse is announced a month ahead |
| training service | `safety_trainings` | Create, Record, CompletedRate | omitted fields, racing records, two counts | a list is lost to a stale save only, the rate is a share |
| user service | `users`, tokens | Register, Login, UpdateProfile | look-up before insert, claims that are copies of a row | one user for a phone, tokens agree with rows |
| startup and seed | all tables, auto-increment counters | connect, migrate, seed, serve | a start cut short, then repeated | comes up, literal references known to be right or by how much wrong, preset data whole unless the seeding itself was hit |
| request pipeline | `audit_logs` | token and role checks, audit entry after the handler | handler succeeded, audit insert failed; panics | the log tells of nothing that was not done, and misses nothing that no fault hit |
| dashboard and lists | none of their own | Stats: six calls, nine queries in all; List: COUNT and SELECT for each page | no common snapshot, the clock read twice, rows moving between pages | the figures fit together, no row is skipped |
| web client | token in the store, a page's dialogs, requests in flight | log in and out, change page, load, act, execute | answers out of order, time-outs, late 401s, pages left | a user who waits sees the truth unless a load fails, items go to their inspection, sessions are kept |
| upload, utilities | none shared | file write, formatting, logging | a name from the clock | not modelled |

How they interact: certification Submit and inspection Create look the user up
in `users`; the dashboard calls the four services; the seed writes all tables;
the audit middleware writes after each successful write request; the rate
limiter stands before register and login only.

## The modules

| module | models | extends or uses |
|---|---|---|
| `IncidentLifecycle` | the abstract state machine of one incident | |
| `IncidentService` | `safety_incident_service.go` and its repository and handler | instantiates `IncidentLifecycle` twice |
| `InspectionPlan` | what is promised of one inspection: planned once, decided at most once | |
| `InspectionService` | `safety_inspection_service.go`, its repositories and handler | instantiates `InspectionPlan` |
| `RateLimiter` | `middleware/rate_limiter.go` | |
| `CertificationService` | `worker_certification_service.go`, its repository and handler | |
| `TrainingService` | `safety_training_service.go`, its repository and handler | |
| `UserService` | `user_service.go`, its repository and handler, `util/jwt.go` | |
| `Startup` | `cmd/server/main.go`, `service/seed.go`, `init.sql` | |
| `RequestPipeline` | `router/*.go`, `middleware/auth.go`, `rbac.go`, `audit_log.go` | |
| `Reports` | `dashboard_service.go`, the statistics and `List` queries of the repositories | |
| `WebClient` | `utils/request.ts`, `stores/authStore.ts`, `hooks/useIncident.ts`, the incident and inspection pages | |
| `MCIncidentService`, `MCInspectionService`, `MCCertificationService`, `MCRequestPipeline`, `MCStartup`, `MCReports`, `MCWebClient` | constant values for TLC | the module they name |
| `IncidentServiceProofs`, `InspectionServiceProofs`, `CertificationServiceProofs`, `TrainingServiceProofs`, `UserServiceProofs`, `StartupProofs` | theorems | the module they name, `TLAPS` |
| `MiddlewareProofs` | theorems | `RateLimiter`, `RequestPipeline`, `TLAPS` |
| `ReadersProofs` | theorems | `Reports`, `WebClient`, `TLAPS` |

Two proof modules extend two components each. Those of them with a prefix
(`LimiterSpec`, `LimiterTypeOK`, `TabNext`, `tabVars`, ...) have it for that reason
only: the names `Spec`, `TypeOK`, `Next` and `vars` belong to the other component of the
pair.

Definitions marked `\* mutant` are faulty variants of the definition after
them (a dropped check, a missing reset). Nothing uses them except the mutation
runs that show that each property can fail.

### How state and actions correspond to the code

**Tables** are functions from ids to a row or `NoRow`; a fresh id is any free
one. Rows keep the columns some property tells apart: a text such as
the measures is a member of a small set, a time an instant. **Requests** run in
*slots*: `Slots` is the number of requests in service at the same time, not of
all requests ever made. A handler that answers after one statement is one
action. One that reads, checks and later saves is two: the first (`Assign`,
`Review`, `Record`, `UpdateProfile`, `Register`) ends with the changed struct
in `pending[s]` (or `call[s]`), the second (`Save`, `Insert`) writes it. Between
the two anything may happen to the table. `answer[s]` is the HTTP status sent,
computed as `wrapError` and `appErrorStatus` do: a plain repository error,
`ErrNotFound` included, becomes 500.

**Failures.** `ReadFails`, `QueryFails`, `CreateFails` and `WaitFails` are statements that
fail, `SaveFails` and `WriteFails` a write that fails *or* was carried out although its answer
was lost; both are answered 500. `Crash` drops every request in progress and keeps
the tables. Restarting is immediate here; `Startup` treats it in detail.

**IncidentService.** `reached[id]` is a history variable, the set of statuses
ever committed for `id`. `SeedRows` is the table the service starts on; the seed
inserts resolved and closed incidents without measures, so the claims about
measures exclude `Seeded` rows. `furthest` maps that history to the latest status.

**InspectionService.** `SeedRows` and `SeedItems` are the tables the service starts on:
a seeded inspection is completed in spite of an issue, with a score that no execution
computed (`seed.go:58`; `init.sql:124` even has counts of items that do not exist), so
nothing is claimed of how status, counts, score and items agree in a row, only of what
an execution stores (`CountsMatchItems`). Under READ COMMITTED or stricter isolation,
what a transaction writes is invisible until its commit, so `Commit` is one step with
the marks, the tally, the score, the status and the release of the lock. MySQL's default
is REPEATABLE READ, whose snapshot is taken by the first consistent read; `Execute`
makes that read (the items) after the locking read, which always sees committed data, so
the items it reads are current. `Acquire`, `Refused` and `WaitFails` are the three ends
of the wait. A report is two actions, one for each query. A request is a sequence of
marks; `Matched` are the marks whose item belongs to the inspection. `PlanOf` joins the
inspection's status and its items' flags into the state of `InspectionPlan`, which has
no requests, locks or marks.

**RateLimiter.** Time advances in ticks, `Minute` of them to a minute. `Limit`
holds the mutex from look-up to decrement, so a request is one step (`Admit` or `Reject`).
`window` and `idle` observe and constrain nothing.

**CertificationService.** `Stored` truncates `valid_until` to its day, as the DATE
column of `init.sql` does (`DayTicks = 1` is the DATETIME that AutoMigrate would
create). `MonthLen` is what `AddDate(0, 1, 0)` adds at each instant, `Notice` the
shortest month. The clock stops at `Horizon`. `since` and `listed` are history: when a
certification was submitted, and the instants it was on the dashboard's list.

**TrainingService.** A body may leave either field out; the omitted pass rate
decodes to 0, as an omitted `float64` does. A call keeps the row as it was read (`was`).
`signedIn` and `stale` are history: the list last recorded for a training, and the
trainings saved since by a request whose row was no longer the table's. The completion
rate is two counting steps.

**UserService.** A token is the triple of claims a property can tell apart.
`Typed` is a phone with or without a leading blank: Register trims it and
Login does not.

**RequestPipeline.** The handler is abstract: it carries its operation out or not,
and answers. `Enter` is reached through the limiter or `AuthRequired` and
`RequireRole`; `AuditInserts`, `AuditFails` and `NotAudited` are the code behind `c.Next()` in
`AuditLog`; `Panic` unwinds to `gin.Recovery` and skips it. An entry's columns
are route and operator; the number `no`, `carried` and `hit` are history. The limiter's
decision is a free choice here. `ErrorHandler` is left out: no handler calls `c.Error`,
so it always returns early. Login counts as an operation: it is audited as one.

**Startup.** Each seed row is an insert of its own. A fault takes the process down and
may leave the insert in flight done, undone, or undone with an auto-increment value used
up. `RefersTo` says which row a literal id in the seed is meant to name, `LiteralId` the
id it uses. The users come first in the seed (`UsersFirstAssumption`). `hurt` is
history: whether a fault hit the seeding.

**Reports.** `read` is the one read in progress: a read changes nothing, so several at a
time show nothing more. Stats runs `Queries` in the code's order; the two readings of
the clock in the inspection rate are steps as well. `PendingLists` is any choice of at
most `PendingLimit` rows: the order by deadline decides nothing, since rows on that list
have none. A list is a COUNT and a SELECT for each page; `Orders` are the sort orders,
ties in any order. The writers are those of the incident and inspection services in one
step each; `SaveIncident` writes any other status, as a stale save may. `since`,
`arrived`, `newer` and `newest` (the inspections created between one count of the rate
and the next), `stayed`, `shrank` and `pushed` are history of the read. `Total`, the sum
of a distribution, is written as the number of points of its bar chart: what a fold
computes cannot be proved here (its theorems need induction), what a cardinality counts
can.

**WebClient.** `session` numbers the logins, so that a token tells its login. A request
in flight is the rest of an `async` function: when answered, its continuation runs
(`Loaded`, `Acted`, `ItemsLoaded`, ...), changes the page's state if the page is still
there (`live`), and may send the next request (`Chained`). `Expelled` is the
interceptor's 401: away from the login page it loads the document anew, which drops
every request in flight; `Logout` in the menu drops none. `Failed` is any other error or
the time-out, after which the server may still carry the request out (`WriteElsewhere`).
The modal dialogs cover the table, so nothing else is opened meanwhile. `told`, `calm`,
`failed` (a load has failed since the dialog's incident last came) and `stray` are
history.

## Runs

All constants are model values unless shown. Numbers of distinct states are those of the complete
search (a violated run stops earlier). Deadlock is checked except in `Startup_restarts`,
where a served process with no fault left has nothing more to do, and `WebClient_tab`, where
the bounds on logins and writes end the life of a tab.

| run | instance | states | checks |
|---|---|---|---|
| `IncidentService_race` | 2 ids (one seeded), 3 handlers, 1 text of measures, 1 valid and 1 invalid severity | 21 056 | `TypeOK`, `MeasuresRecorded`, `RowsKept`, `ImplementsLifecycle`, `Converges` |
| `IncidentService_repeat` | 1 id, 2 handlers, empty table | | `RepeatedCloseRefused`, violated |
| `InspectionService_race` | 2 inspections (one seeded), 2 execute or create requests, 1 report, 2 items, every body of up to 2 marks | 267 565 | `TypeOK`, `ReportFinal`, `OutcomeFinal`, `CountsMatchItems`, `ImplementsPlan`, `WaitingAnswered` |
| `RateLimiter_rate` | 2 addresses, 3 a minute, 4 ticks a minute | 39 204 | `LimiterTypeOK`, `NeverOverRate`, `QuietMinuteReopens` |
| `RateLimiter_starved` | 1 address, 2 a minute, 3 ticks | | `RefusedOnlyWhenBusy`, violated |
| `CertificationService_race` | 2 ids (one seeded), 3 requests, days of 2 ticks, months of 6, 2 and 4, 8 instants | 151 064 | `TypeOK`, `WarnedInTime`, `RepeatedReviewRefused`, `Settles` |
| `TrainingService_race` | 2 ids, 2 requests, 1 list, rates 95 and 101, 2 months | 1 610 203 | `TypeOK`, `SignInsKept`, `RateIsAShare` |
| `UserService_register` | 2 ids, 2 requests, 2 phones | 418 720 | `TypeOK`, `PhonesUnique`, `TokensAgree` |
| `RequestPipeline_audit` | 2 slots, 3 requests, an administrator, a worker, 4 routes (public, for managers, for the administrator, for all; GET, POST, PUT) | 235 458 | `TypeOK`, `AuditSound`, `AuditComplete` |
| `Startup_restarts` | 6 seed rows of 5 tables, 3 faults | 614 | `TypeOK`, `LiteralIdsHold`, `SeedWhole`, `ServesInTheEnd` |
| `Reports_pages` | 3 incidents (2 tie), 2 statuses, 2 severities, 2 inspections, pages of 1 row, 3 months, 2 to a year | 2 526 254 | `TypeOK`, `FiguresAgree`, `RateIsAShare`, `RateOfThisMonth`, `PagesComplete` |
| `WebClient_tab` | 2 incidents and inspections, 2 requests in flight, 2 logins, 2 writes of each incident | 1 104 412 | `TabTypeOK`, `WaitingUserSeesTruth`, `ExecutesItsItems`, `SessionKept` |

### What they show

* Racing incident handlers **can** move an incident back: a stale `Save` takes a
  closed incident to `resolved` and a repeated close is then accepted
  (`IncidentService_repeat`; the API test record expects 409). Still no incident
  skips a status, loses its report, or is rectified without measures, and the
  furthest status of each incident behaves as the abstract state machine
  (`ImplementsLifecycle`). The moving back ends: a `Save` uses up the stale copy,
  and copies are only taken of rows that are not closed, so once enough handlers
  have finished every row is closed for good (`Converges`).
* The row lock of `Execute` does its work: one execution, outcomes that are final,
  whether computed or seeded (`OutcomeFinal`), final reports of them, no lock left
  behind by any error path or crash. That a crash inside the transaction undoes all of
  it is InnoDB's promise and assumed here, not shown. Counting marks instead of flags is
  right whenever a request marks each item once (`CountsMatchItems`). An item that the
  request leaves out is not counted and keeps its flag. Read together, the two tables
  behave as a plan that is decided once and as a whole (`ImplementsPlan`).
* The limiter never admits more than the limit in *any* minute, a stricter bound
  than a token bucket gives, because it refills in whole minutes of silence
  only; for the same reason an address that retries more often than once a
  minute is never admitted again (`RateLimiter_starved`).
* Two racing reviews can both be accepted and the later verdict stands, but the
  row never returns to pending, its date never moves, and it comes to rest.
* A certification that lapses was on the dashboard's list at every instant of the last
  shortest month before its stored date, or of what was left of it at its submission
  (`WarnedInTime`); more than the shortest month cannot be asked, since `AddDate` looks
  31 days ahead on 31 January and 28 the day after, so a row may come on the list, leave
  it and come back. One submitted on its last day is stored as already past, and this
  list never shows it; the `expiring=true` list of the review page, which has no lower
  bound, would.
* A sign-in list is kept by every record that only carries the rate, unless it was saved over
  by a row read before it (`SignInsKept`, `stale`). The rate is not kept: recorded with
  the list alone it is reset to 0, as `Recorded` shows.
* The unique index keeps phones apart when two registrations pass the
  look-up together. No update changes a phone or a role, which is what makes it
  sound to trust a token for its 72 hours.
* The audit log can be trusted one way always, the other way only without faults:
  each entry is of an operation that was done, by an operator who was allowed to
  (`AuditSound`); an operation is missing only if its own request was hit by a failed
  insert, a lost answer, a panic or a crash (`AuditComplete`), never because of others.
* A start that was cut short always comes up. The literal ids in its rows are right when
  they name an inspection; those that name a user are all too low by the number of
  auto-increment values that faults used up before the first user was stored
  (`LiteralIdsHold`), so that after such a fault they name another user or nobody.
  Outside the seeding a cut does no harm (`SeedWhole`). Within it does, although
  `seed.go:14` calls the seeding idempotent: the next start finds a user and skips the
  rest, or an id was used up.
* The dashboard's figures fit together because of the order of its queries: the trend is
  read before the distribution, so it never shows more (`FiguresAgree`), and the
  to-be-rectified list after it, so only an incident reported between the two is missing
  from the distribution. Its month is right except at the turn of the year. Its
  completion rate exceeds a share only by inspections created between the counts
  (`RateIsAShare`): executions cannot do it.
* Turning pages to the end misses only rows that tie with another, rows that move up because one
  stopped matching, and the row pushed off the last page after its COUNT. Each exception is
  needed: TLC finds a row missed without it.
* A client's user who waits for each answer sees the incident that was opened, as new as
  the operation just acknowledged, as long as no load fails. One who does not wait may
  see another, whose buttons then act on *that* one, as shown. So may one who waits,
  when a load fails: `useIncident` keeps the incident loaded before, and the dialog of
  the new one shows it, buttons included, under the interceptor's error message
  (`IncidentManage.tsx:87`). `WaitingUserSeesTruth` names this exception (`failed`);
  without it TLC finds it in a few steps. Items are only ever sent to their own
  inspection. A late 401 ends a session it does not belong to only after a logout by the
  menu, or when two logins were sent.

The stale save of `IncidentService_repeat` also lets one of two concurrent profile changes get lost;
no run asks for it.

### Bounds, and why they are enough

* *Handlers.* A stale write needs a reader, a writer in between, and a third
  request to build on the result: three slots for incidents and certifications.
  Execute serialises on one lock, so two requests and one report meet every
  order of lock, commit and the two queries. Where the proofs cover a property the
  number of handlers is arbitrary.
* *Ids.* Rows of different ids share no state in the incident, certification and
  training services, so a second id only matters for the seeded row, for counts, for the
  unique index, and for the turn of one inspection's locks against another's; the runs
  that need it have two. Paging has three: a page before, the row, and one that ties or
  moves.
* *Start.* Incidents, inspections and certifications start on seeded rows next to free
  ids. The training and user services start empty: a seeded training or user is one that
  their operations could have stored, so what holds of those holds of it.
* *Data.* Two items and two marks give every mixture of missing, repeated, foreign and
  contradictory marks. One text of measures is enough to tell recorded from blank. An
  execute body of more than two marks only repeats one of these cases; the proofs have
  any body. Three tokens and four ticks give every alignment of a minute with the
  refill. Rates 95 and 101 are a usual value and a refused one; 0 is the omitted rate.
* *Audit.* Two requests in service interleave every pair of handler and entry; the third
  lets a later one reuse a slot (`MaxRequests = 3`). Slots are interchangeable, so the
  run uses symmetry on them (it checks invariants only). The proofs cover any number.
* *Clock.* `Horizon = 7` with days of two ticks and months of six, two and four passes
  through dates stored truncated, past when stored, on either boundary of the window, on
  the list, off it again when the month is short, and lapsed. The shortest month, two
  ticks, is longer than the boundary instant that a strict bound would lose.
* *Reports.* A year of two months and a horizon of two pass through one turn of the
  month and one of the year. Pages of one row and a LIMIT of two are exceeded by three
  incidents.
* *Client.* Two requests in flight are the least that can overtake each other, two
  logins the least in which a request can outlive its session. `MaxWrites = 2` allows a
  write after the one acknowledged.
* *Faults* are unbounded except in `Startup`, where `MaxFaults` bounds them so
  that a run of faults ends; one is enough for each violation and three cover a
  fault in each phase.

### Fairness

* `Save` of a held row, weakly fair: a goroutine that is scheduled finishes its
  handler. `Advance` of each incident, strongly fair: not the code's promise but
  the managers', whose requests may be disabled again and again while slots are
  busy. `<>[][\E s : Handle(s)]_vars`: faults come to an end; without it a lost
  write could repeat for ever.
* `Acquire \/ Refused`, strongly fair: InnoDB grants a row lock to a waiting
  transaction sooner or later (or times it out). `Commit \/ Rollback`, weakly
  fair: a transaction at work ends.
* `Step` of the start, weakly fair: `restart: unless-stopped` in the compose file.
* `Settles` needs none: it is about steps that may or may not happen.

## Proofs

Every theorem is proved from the named assumptions about constants alone (absent values
are not rows, the seed consists of rows, `Minute` is a positive number, requests are
sequences of marks over finitely many items, a seed row comes after the one it names,
...). TLC evaluates those assumptions in every run.

**IncidentServiceProofs.** `MeasuresRecorded` and `StatusesEarned` (an incident that has
reached a status has reached the one before it; the runs check the stronger
`ImplementsLifecycle`) are not inductive: a `Save` writes whatever a handler holds, so
the argument must say what that may be. `IInv` adds to the types: a row's status is in
its history and an absent row has none (`RowsReached`), and a held copy, however old,
has the report's facts of the table, carries a status whose predecessor the incident has
reached, and has measures if it says so (`HeldRowsEarned`). A copy is earned when it is
taken, because the row it is taken from satisfies the invariant; it stays earned because
`reached` only grows and no write changes the report. `StepKinds` divides the steps into
drops, holds, writes and inserts, with one lemma each. From `IInv` follow
`MeasuresAreRecorded`, `NoStatusSkipped`, `HeldRowsAreEarned`, `RowsAreKept`, and
`ProgressRefinement`: a write adds a status whose predecessor was reached, so `furthest`
moves by one or stays. `SerialRefinement` strengthens it for one slot: then the *table
itself* implements the state machine. `RestIsFinal` is the safety half of `Converges`: a
closed incident of which no handler holds another copy stays closed for ever.

**InspectionServiceProofs.** `IInv` is the types, `LocksMatchWork` (a row is locked
exactly while one transaction works on it, and then it has not been executed) and
`ViewsSettled` (a report in progress that has read an executed row agrees with the
table). The lock makes a commit find the row not yet executed, hence
`ExecutedAtMostOnce`, `LocksAreMatched` and `ReportsAreFinal`, for any tables at the
start. `CountsAreOfItems` rests on `PageTally`, a bijection between the marks and the
items. `PlanRefinement` maps `Create` to `DrawUp` and `Commit` to `Decide` (it finds the
row scheduled, since the lock is held, and keeps the set of items, since marks of
foreign items are dropped), and every other step to a stutter.

**MiddlewareProofs**, the limiter. `LimiterInv` says that in a watched minute that has admitted a
request the bucket has not been filled since, so admitted and remaining requests
together stay within the capacity; hence `AtMostPerMin` and `QuietMinute`, for
every setting (a setting that is not positive means 120) and clock resolution.

**CertificationServiceProofs.** `IInv` adds to the types that a held row carries a
verdict and the date of the table, that a decided row stays decided, and `Watched`: a
dated row has been on the list at every instant gone by that `WarnedInTime` asks for,
lapsed or not. A tick notes the list of the instant that ends, and a date within the
shortest month is within every month (`TickLists`); a save leaves the date alone, since
a held row has that of the table. Hence `DecidedIsRefused` and `LapseIsAnnounced`, for
every calendar and every table at the start. `AgreedVerdictStands` is the safety half of
`Settles`: a verdict with which every review in progress agrees stands for ever.

**TrainingServiceProofs.** `HeldRows` says that a held row is what its body makes of the row
that was read, and has the month of the row it will be saved over. So a save stores the list it was
sent or the one it read, which is the table's unless the row has changed since
(`SignInsAreKept`); and since rows stay in their month, this month's trainings only become more,
and the number counted done stays within them (`DoneCounted`, `RateStaysAShare`).

**UserServiceProofs.** `HeldUpdates` says that an update that is held has the phone and
the role of its user's row, however long ago the row was read: no step changes either.
So a `Save` cannot break `PhonesUnique` or `TokensAgree`, and an insert cannot because
of the index (`OneUserForAPhone`, `ClaimsHold`).

**StartupProofs.** `SeededWith(n, d, ...)` describes the tables of a seed of its first
`n` rows that found `d` user ids used up. `Referring` says that the tables are such ones
while the process seeds, or before it does with `n = 0`; and that a process that is past
seeding, or has died in it with a user stored, finds the references right but for a
shift (`Settled`) and seeds no more. It needs that a row names an earlier one and that
the users come first (`ReferenceAssumption`, `UsersFirstAssumption`, assumptions about
the seed that TLC checks of the seed's rows): a fault that uses up an id of another
table happens when a user is stored, so nothing is inserted after it. `ReferencesHold`
follows. `PresetDataWhole` needs less: `Undisturbed` says that until a fault hits the
seeding the ids and counters are those of a seed of its first `n` rows, where `n`
follows from `pc` and `next`. The lemma `NextAmong` keeps the auto-increment counters in
step with the literal ids.

**MiddlewareProofs**, the pipeline. `IInv` is the types, `AuditSound` and `ServedTruly`: a request
in service was admitted, and one whose handler has succeeded has carried its
operation out; without it the insert, a step of its own, could write anything.
`TrailIsSound` follows. `AuditComplete` is inductive over the types: the slot
that serves an operation keeps it until the insert or a fault on that request (`TrailIsComplete`).

**ReadersProofs**, the dashboards and lists. None of the properties of `Reports` is
inductive, since each is about an answer and says nothing of the queries before it.
`ReportsInv` follows the read from query to query: `ClockReadInOrder` places the
readings of the clock between `since` and `now`, the year's before the month's, so that
a year that has not turned gives a month of the request (`RateOfAMonthOfTheRequest`, on
the arithmetic of the lemmas `Calendar` and `YearsInOrder`). `Accounted` says that there
is a set of incidents that the distribution is the distribution of, that the trend
counted some of them, and that whatever is reported now is one of them or noted as
arrived since (`FiguresFitTogether`). `CountedOrNew` says that every inspection was
there when a count was taken or is noted as created since, so that a later count exceeds
it by those at most (`RateIsShareOfAll`). `SeenOrAhead` is the argument for paging: as
long as no row has left the list, an untied row that has not been seen has at least
`(page - 1) * PageSize` rows ahead of it, since rows ahead of it only become more; on
the page after its COUNT it is seen or still has a page's worth ahead, and when the
COUNT says that this was the last page no row can have so many (`PagesAreComplete`). It
rests on a lemma of its own (`Position`): in every order that a query may use, ties
broken in any way, the position of an untied row is the number of rows with a later
time.

**ReadersProofs**, the tab. `TabInv` says of what is in flight what the page relies on.
`OneAwaited`: as long as the user waits for each answer, the incident dialog waits for
one request at most, which is about its own incident unless a load has failed, and, if
it is a load of its incident that has come, brings it as new as anything acknowledged
(`BringsTruth`); while nothing is awaited and no load has failed since the truth last
came, it is still there; `ToldOfWrites` says that what is acknowledged has been written,
so a later load cannot be older (`TruthIsSeen`). `ItemsOfDialog`, with the pages that
requests belong to (`LiveItems`), gives `OwnItemsAreSent`, and `OwnSession`, a request
that no logout or second login has left behind is of the session there is, gives
`SessionsAreKept`. The actions of the tab are taken one by one; `PageStep` settles the
parts that a step of one dialog cannot disturb.

**Without races.** Four theorems say that some of what the services do wrong they do
only when requests race: with one request at a time (`OneSlot`) a repeated close is
refused (`SerialCloseIsRefused`, the property that `IncidentService_repeat` violates
with two), a decided certification never changes (`SerialVerdictIsFinal`), no sign-in
list is lost (`SerialSignInsAreKept`), and the unique index refuses nothing that the
look-up of Register has let through (`SerialInsertsAreAdmitted`). Each rests on an
invariant that what is held is still what is stored, which one step of a second request
breaks.

**Only model-checked**: liveness (`Converges`, `WaitingAnswered`, `Settles`,
`ServesInTheEnd`), which is out of the prover's reach, and the violated properties
`RepeatedCloseRefused` and `RefusedOnlyWhenBusy`. Every invariant and action property of
the passing runs, and both refinements, are proved. Nothing here needs recursion, and no
module declares a recursive operator.

## What is not modelled

* Of the web client: the contents of its tables, the forms of the training,
  certification, profile and audit pages, and what depends on the text of a form. (The
  create forms send a time without an offset, which the server's `time.Time` does not
  parse; one call shows it, and the models take a request from where its body has been
  decoded. The training page keeps the rate typed for one training for the next; the
  late success of an execute request closes whatever dialog is open by then; lists asked
  for with two filters may be answered in the other order.) Several tabs share the
  stored token only when a page is loaded.
* Upload writes one file per request under a name from the nanosecond clock, and no
  operation reads it (two uploads in one tick of the clock would share a name); logging,
  request ids, CORS, formatting and JSON columns hold no state a property could be
  about.
* Filters other than the status, and the page size, which no handler limits although the
  DTO asks for it: the bindings' errors are dropped. The trend begins at this time of
  day 29 days ago, so its first day is part of a day.
* Token expiry and password hashing: no property depends on them.
* The growth of the limiter's map. Nothing is ever evicted, as the code shows.
* `Score` is the exact floor of the percentage; the code's floating-point
  product is one below it for some totals from 50 on (29 of 50 gives 57). No
  property depends on its value.

## Plan

Done, in this order: incident service with its abstract specification and proofs;
inspection service with proofs; rate limiter with proofs; certification service with
proofs; training service; user service; startup; request pipeline with proofs; the
abstract plan of an inspection and the proof that the service implements it; dashboard
and lists; web client. Then the proofs of the training and user services and of the
startup, of the dashboard and lists and of the web client, and of what holds when
requests do not race.

Left:

* More safety halves of the liveness properties: that a start which no fault hits gets
  further with each step and has boundedly many left, and that each save uses up one of
  the stale copies of a closed incident.
* An abstract specification of a certification (decided, and dated once), which the
  service implements with one request at a time.
* The forms of the remaining pages of the client, once there is something about them to state.
