# Maquette-ERP in TLA+

Maquette-ERP turns a consultant's timesheet (the *Cra*) into an invoice: a consultant records
and submits a month, the manager validates it, which drafts one invoice per client, and someone
else issues the drafts, which gives each a number in a gapless legal series. This directory
models the parts of it in which several requests, transactions, scripts or answers can meet, says
what must hold when they do, checks it with TLC on small instances and proves part of it with
TLAPS for every instance. Paths below are relative to `src/`.

## 1. The system and its parts

| Component | State | Operations | Talks to |
|---|---|---|---|
| Invoice issuance (`apps/api/src/chain/issue-invoice.ts`, `packages/billing`) | `billing.invoices`, `billing.numbering_series`, unique indexes on number and key | `POST /invoices/:id/issuance` under an `Idempotency-Key` | drafts come from validation; one transaction per request |
| The month (`chain/record-month.ts`, `validate-cra.ts`, `refuse-cra.ts`, `packages/timesheet`) | `timesheet.cras`, `cra_lines`, `cra_flags` | record, submit, validate, refuse | reads assignments and reference data; validation publishes `TimesheetValidated` on the in-process bus |
| Drafting (`packages/billing/src/application/draft-invoices.ts`) | `billing.invoices` (drafts), `billing.declined_days`, `public.domain_events` | subscriber of `TimesheetValidated`, in the same transaction | reads rates, clients, mission kinds |
| Staffing (`apps/api/src/staffing/assignment-admin.ts`, `packages/timesheet/src/domain/assignment-policy.ts`) | `public.assignments` | create, update | reads `cra_lines`, habilitations, missions |
| Transactions and pool (`persistence/unit-of-work.ts`, `composition.ts`) | a client per request | BEGIN, COMMIT, ROLLBACK, release | every write above |
| Money, VAT, payment terms, documents (`packages/billing/src/domain`) | none | pure arithmetic and resolution | used by drafting and issuing |
| Dates, dated references, hierarchy, working calendar (`packages/platform`, `packages/timesheet/src/domain`) | none | pure resolution | used everywhere |
| Access and scope (`personas/*`, `packages/platform/src/scope.ts`) | the persona cookie | choose, clear; a check per row read | every route |
| Read compositions (`composition/*`, `routes/dashboard.ts`, `economics/*`) | none | several SELECTs per answer | tables of the month and of billing |
| HTTP boundary, server-rendered pages (`server.ts`, `routes/*`, `web/*`, `packages/contracts`) | requests in flight, the pool, its queue | origin check, persona, access table, handler, answer; readiness and shutdown | the chains |
| Single-page application (`apps/web/src`) | the query cache, the route and its guard, the unsaved grid, the issuance dialog | navigate, edit, save, submit, decide, issue, switch persona | the API; other tabs through `localStorage` |
| Seed (`scripts/seed.ts`, `scripts/lib/seed-data.ts`, `ids/uuidv7.ts`) | every table, in one transaction; two counters of identifiers | clear, insert the reference rows, drive each month through the domain, issue and cancel the history | the domain of both packages; run by every release and every night |
| Release on the host (`deploy/*.sh`, `scripts/migrate.ts`) | two digest files, a lock file, the container, the schema | poll, rollback, nightly reset | the registry's tag, the database |

What is hard, component by component:

* **Issuance**: two issuances of one year at once, a retry that races the request it repeats, a
  COMMIT whose acknowledgement is lost, midnight between the date and the number. Correct means
  that numbers of a year are 1..n without a hole, that an answer given once is true for ever,
  that an issued document never changes, and that nobody issues what they validated.
* **The month**: two first saves of a month that does not exist, a save against a decision, two
  validations, part of a validation surviving a failure. Correct means one object per month:
  decided as read, billed in the instant it is validated, each quarter-day once.
* **Staffing**: two assignments checked for overlap before either commits; an edit against a
  submission, which take different locks; the off-by-ones of the sweep over habilitations.
* **Release**: a command that fails or a host that goes down between any two commands. Correct
  means the app never runs ahead of its schema, the record says what runs, the host catches up.
* **Editing in the browser**: answers that arrive late, out of order or in error under unsaved
  edits, and the two halves of a save that are not one instant.
* **Reading**: an answer is put together from several statements at READ COMMITTED, between which
  a month is validated or an invoice issued. Correct means that what is shown as validated or
  billed is whole, that counts lose nothing, and that a list shows nothing its address refuses.
* **Serving**: every request needs one connection for its persona and another for its work, from a
  pool that may be empty, lost or closing. Correct means each request is answered once, as the
  access table says, and no connection comes back with a transaction open.
* **Navigating**: the cookie is shared by the tabs, answers are late, and three places decide what a
  role may do. Correct means no answer of one persona stays under another, no screen offers what
  the API refuses, and a command refreshes what it changed.
* **Seeding**: 148 months of data typed by hand go through every guard of the domain at once.
  Correct means nothing is refused, the books of every year close, and the demonstration can be
  performed by a visitor.
* **Documents**: integer arithmetic at the edge of exactness, three dates that decide a price, and a
  document that is rebuilt from its rows every time it is changed.

`PROJECT.json` lists every hazard at its line with the properties that would catch it.

## 2. Modules

| Module | What it models |
|---|---|
| `Issuance` | the issuing transaction, statement by statement, with its three locks |
| `InvoiceSeries` | abstract: the register an issuance writes, one atomic step per invoice |
| `IssuanceProofs` | the theorems about `Issuance` and their proofs |
| `Timesheet` | the three write chains of a month and the drafting a validation runs |
| `CraLifecycle` | abstract: one object per month, changed in one step |
| `TimesheetProofs` | the theorems about `Timesheet` and their proofs |
| `AssignmentPolicy` | pure: the rules of an assignment and of a recorded day |
| `Staffing` | the writes of assignments under the advisory lock of their pair |
| `StaffingProofs` | the theorems about `Staffing` and `AssignmentPolicy` and their proofs |
| `Firm` | `Timesheet` and `Staffing` over one database and one pool |
| `Readings` | every read route, one statement at a time, between the steps of `Firm` |
| `ReadingsProofs` | the theorems about `Firm` and `Readings` and their proofs |
| `Calendar` | pure: dates, day numbers, periods, dated references, the working calendar |
| `Amounts` | pure: line amounts, rounding, VAT, the recapitulative, totals, payment terms |
| `Drafting` | pure: drafting from the event, issuing, cancelling |
| `InvoiceRows` | pure: what a save writes of an invoice, what is read back, what the lists compute in SQL |
| `Documents` | `Drafting` and `InvoiceRows` under a calendar that advances and reference data that changes |
| `ReferenceRows` | pure: the reference tables and what the domain's snapshots read from them |
| `Dataset` | the rows of `seed-data.ts`, as values for the constants of `Seed` |
| `Identifiers` | the bytes of a deterministic UUIDv7 |
| `DocumentsProofs` | the theorems about `Documents` and the arithmetic under it, about `Identifiers` and about the books of `Seed`, with their proofs |
| `Seed` | the seed's transaction, over `Drafting`, `ReferenceRows` and `Identifiers` |
| `Deployment` | the host's scripts, command by command |
| `Matrix` | pure: the grid of a month, its tools and what its totals say |
| `GridSync` | one browser tab that edits a month against the server and its query |
| `GridSyncProofs` | the theorems about `GridSync` and their proofs |
| `Access` | pure: routes, the roles that carry them, the answer to a cookie |
| `Desk` | abstract: what the API promises of a request |
| `Server` | the process: requests, pool, outage, shutdown |
| `HostProofs` | the theorems about what runs on the host, `Server` and `Deployment`, and their proofs |
| `Screens` | pure: what each screen reads, links to, offers and invalidates |
| `Browser` | one tab: navigation, cache, persona, commands, over the `Desk` |
| `BrowserProofs` | the theorems about `Browser` and their proofs |
| `MC*` | small instances for TLC: values for the constants, nothing else |

Who is composed with whom: `Issuance` and `Timesheet` refine an abstract object each; `Firm` is
`Timesheet` and `Staffing`, and `Readings` is `Firm` with a reader; `Server` refines `Desk`, and
`Browser` is a client of `Desk`; `GridSync` uses the abstract month of `CraLifecycle` as its server;
`Documents` and `Seed` run the operators of `Drafting`.

In every module a definition whose name ends in `_` and a defect (`KeyFree_Unlocked`) is a faulty
variant of the definition it stands before. It is used by no action: mutation runs put it in the
place of the real one to confirm that a property can fail.

### Transactions (`Issuance`, `Timesheet`, `Staffing`)

A process is a client of the pool. `pc[c]` (`stage[c]` in `Staffing`) is the next statement of
its transaction, and one action is one statement or the code between two statements, which is
what other transactions can see under READ COMMITTED: a statement reads what is committed when it
runs. What a transaction wrote is kept in the connection's own variables until `Commit` makes all
of it visible at once. Locks are functions from what is locked to its holder; `SELECT ... FOR
UPDATE` and `pg_advisory_xact_lock` are enabled when the lock is free and `End` releases all of
them, as COMMIT and ROLLBACK do. `Rollback`/`Abort` may happen at any statement: a failed
statement, a lost connection, a dead process. `CommitUnacknowledged` is the COMMIT that took
effect while the caller is told it failed, after which the same request is simply another
`Begin`. Advisory locks are taken on a hash, `KeySlot`, `MonthSlot` and `PairSlot`, which may
collide, and some runs make everything collide.

* `Issuance`: `LockKey`, `ReadKeyOwner`, `LockInvoice`/`FindNoInvoice`/`RefuseScope` are
  `prepareIssuance` of `pg-invoice-repository.ts`; `AnswerKeyReused`, `AnswerNotFound`,
  `AnswerReplayed`, `ReadClock` the early returns of `issueInvoice` and the clock it reads;
  `NextSequence` the three statements of `pg-numbering-counter.ts` (the first that conflicts waits,
  and from then on the transaction is alone on the counter); `Refusal`/`Issue` the guards of
  `Invoice.issue()` in their order; `Save` the upsert with its two unique indexes, which waits for
  the uncommitted entry of another and fails on a committed one. `Midnight` moves the clock.
* `Timesheet`: `command[c].kind` says which chain runs. `Recordable` is what `recordDay` and
  `craLine` refuse, `Submittable` the submission checks, `Recorded`/`Submitted` the aggregate's
  transitions, including that an edit keeps the flags. `Coherent` is `assertCraStateIsCoherent`, and
  `RowsCoherent` that no chain leaves a row it would refuse. `SaveDrafts` and `PersistEvent` are the
  bus's subscriber and the event store, which run inside the validation. Lines are sets of
  (day, day type, mission) triplets with summed quarter-days, as `record-month.ts` builds them.
* `Staffing`: the lookup of an update is outside the lock, as in the code; the policy, the overlap
  query and the recorded-days query are separate statements.
* `Firm`: `Timesheet`'s `assigned` is computed from `Staffing`'s rows and `Staffing`'s `recorded`
  from `Timesheet`'s lines, so each transaction reads what the other module wrote.

### Reading (`Readings`)

A request is one transaction whose statements run in the order of the code (`Script`, one sequence
per route), each on what is committed when it runs (`Result`); what a later statement asks may
depend on what an earlier one returned (the declined days of the months read, the sources of the
page read). `NotFound` and `OutOfScope` are the early answers. The answers are then composed from
`Got` as the code does (`GridResponse`, `PreFacturierRows`, `Lineage`, `PrintedTotals`). Drafts are
issued in one step, which `Issuance` shows they may be. Reads of names, rates and calendars, which
no chain writes, are not statements.

### Documents (`Calendar`, `Amounts`, `Drafting`, `InvoiceRows`, `Documents`)

`Calendar` and `Amounts` hold one operator per function of `iso-date.ts`, `period.ts`, `dated.ts`,
`working-calendar.ts`, `money.ts`, `vat.ts`, `document.ts` and `payment-terms.ts`; a branch that
throws is a predicate (`IsTimeline`, `IsTjm`, `IsAgreedRate`, `Exists`) or the value `None`.
`Drafting` is `draftInvoicesFrom`, `Invoice.issue` and `creditNote`. `InvoiceRows` is
`pg-invoice-repository.ts` between two transactions: the INSERT, what ON CONFLICT leaves alone, the
rows under an invoice rewritten by every save, `#reconstitute`, and the projections of the lists,
which reconstitute nothing and sum in SQL. `Documents` drafts, saves, reads back, issues, saves
again, cancels: `Draft`, `RefuseDraft`, `Issue`, `CreditNote`, each on what `Reconstituted` gives
back, while `AmendReference` changes seller and client once a document was drafted from them.
`Midnight` advances `today` the way a wall calendar does, with `dayNumber` and `weekday` counted
one by one beside it, so that the arithmetic of the code meets a count that does not use it.
One operation runs at a time here, because their interleavings are the subject of `Issuance` and
`Timesheet`. Only the seed calls `creditNote`, and it does not save the note.

### Seed (`Dataset`, `ReferenceRows`, `Identifiers`, `Seed`)

`Begin` is BEGIN, the DELETEs and the reference rows; `OpenSubmitValidate` one month through
`Cra.open`, `recordDay`, `submit`, `validate` and `save`; `Draft`, `SaveInvoice` and `Publish` its
documents; `Commit` or, anywhere, `RollBack`. It runs twice, the second time over what the first
left. `Dataset` is the literal data, row for row where the seed reads it, with the fillers computed
as the code computes them. `ReferenceRows` is what the running API reads from those rows
(`reference-reader.ts`), so that the demonstration is checked through the API's eyes and not the
seed's own snapshot. `Identifiers` gives every row its identifier, from the reference data's
counter or the write side's, which starts at 1000.

### Release (`Deployment`)

One action per command of `deploy_digest`, `main` and `nightly-reset.sh` that changes something:
`echo >current-digest` is two (`TruncateCurrent`, `RecordCurrent`), because a crash can fall between
them. `Interrupted` ends the script anywhere, as `set -e` or a crash does; `SwapFails` is a
`--force-recreate` that removed the old container and did not start the new one. An image in
`Healthy` always becomes ready in time; another may or may not.

### Editing (`Matrix`, `GridSync`)

React renders after every update, so each action is an update followed by `Render`, which is the
render-time resync of `use-cra-draft.ts`. The edits are those of the grid: a cell, a row added,
emptied or removed, a row or a week filled, the previous month copied, undo, discard, and either
way out of a conflict. References are compared by a stamp that grows when an answer differs from
the data, which is what structural sharing gives. A save is `Save`, `Apply` (the server, which
refuses what `cra.ts` and the submission checks refuse), `Invalidate` (`onSuccess`, whose promise
waits for the query's request), `MarkSaved` (what follows the await). `Refetch` is any reason for a
new request; it cancels the one in flight, and a cancelled or paused request resolves whoever
awaited it. A query in error unmounts the grid.

### Serving (`Access`, `Desk`, `Server`)

A request in `Server` goes from stage to stage: the origin check, the lookup of the persona on a
connection of its own, the access table (`Access`, read off every route's `forRoles`), then a
handler that reaches no database, asks one thing, or runs a transaction on another connection. The
pool has a queue; the database may go away with every connection and come back, and a ROLLBACK may
fail on the way; a signal closes the listener, answers what is under way, and ends the pool. `Desk` is
the same without pool, transactions or stages: one decision per request.

### Navigating (`Screens`, `Browser`)

`Browser` has what TanStack Router and Query keep for one tab: the screen and the navigation that
waits on the session, the cache with its marks of invalidation, and the requests under way. The
cookie is shared with the other tabs, whose change reaches this one as `news` some time later. A
command's answer runs its hook's invalidations; `behind` says that an answer was read before a
command the server has since carried out. What a screen reads, where its links lead and which
commands it offers is `Screens`, from the role of the shell's persona and of the answer shown.

## 3. What is checked

Safety runs state invariants and action properties; "violation" runs check one statement that a
document or comment of the repository makes and that the code does not keep.

| Run | Configuration | What it shows |
|---|---|---|
| `issuance` | `MCIssuance_series`: 2 connections, 2 invoices, 2 keys, 1 day in each of 2 fiscal years, 2 numbers a year | under rollbacks, lost acknowledgements, retries and a change of year: `Gapless`, `Frozen`; no upsert meets an index (`NoIndexConflict`); no set of transactions waits only for itself (`NoStandstill`); the transactions refine `InvoiceSeries` (`ImplementsSeries`); the inductive invariant `IInv` of the proofs holds, with which answers stay true, nothing read under a lock goes stale and nobody issues what they validated |
| `chronology` | `MCIssuance_chronology`: violation | numbers and dates of a year in opposite orders around midnight |
| `month` | `MCTimesheet_month`: 2 connections, 1 month, 6 postings, 2 rosters, 4 people | `Conserved`; the unique indexes are only backstops (`NoIndexConflict`); the transactions refine `CraLifecycle` (`ImplementsLifecycle`); `TInv`, with which a decision is taken on what is committed, a validation is whole and its replay answers the same |
| `assignment_contention` | `MCStaffing_contention`: 2 connections, 2 assignments, 1 lock, 4 dates, 4 consultants with different habilitations | `NoOverlap` and the invariant `SInv` it rests on; `PolicyIsExact`: the sweep agrees with the per-day rules |
| `firm_race` | `MCFirm_race`: 2 connections, violation | an edit and a submission under different locks leave a submitted day uncovered |
| `readings` | `MCReadings_readings`: 13 routes, 5 readers of 3 roles and 2 offices, 1 writer, 2 changes under a request | `MonthShownWhole`, `BilledShownWhole`, `CountsLoseNone`, `NothingBeyondReach` |
| `documents` | `MCDocuments_documents`: 12 years and four ends of February day by day, 4 clients, 6 missions, 2 months, every pair of agreed rates over 3 bounds | `CalendarAgrees`; `RefusedExactly`, `PricedAtTheClose`, `RoundedOncePerRate`; `NotesReverse`, `NeverAmended`, `RowsTellTheDocument` from draft to cancellation |
| `seed` | `MCSeed_seed`: the whole dataset, 2 seedings | `SeedIsAccepted`, `SeededBooks`, `DemoPerformable` |
| `releases` | `MCDeployment_releases`: 3 images, of which one may never be ready; fairness of the timer and of a running script | `AppHasItsSchema`, `RunsWhatIsRecorded`, `CatchesUp` |
| `grid_editing` | `MCGridSync_editing`: 2 missions on offer and one ended, 2 working days and one off in 2 weeks, 2 edits, 2 writes | `LostOnlyByMishap`, `GridFollowsAnswers`, `SentAsShown`, `FillsAreSafe` |
| `serving` | `MCServer_serving`: 2 requests, 1 connection, one route of each kind of handler, 2 personas | `PoolSound`, `EveryRequestAnswered`, and the refinement of `Desk` (`ImplementsDesk`) |
| `browsing` | `MCBrowser_browsing`: 3 personas, 2 requests under way, 4 screens besides the dashboard, 2 commands | `NoLateAnswer`, `DeniedOnlyAcrossPersonas`, `ListedProjectionsFollow` |

Type invariants are conjuncts of `IInv`, `TInv`, `SInv` and `PoolSound`. Every property of a passing
run has a mutant in `PROJECT.json`: a plausible bug in one modelled definition under which TLC finds
the property violated in that same run.

### Bounds and why they are enough

Most variables are finite by construction. The bounds are constants, named in the modules:

* **Connections**: 2. Every conflict of the code is between two transactions on one row, key or
  index entry; a third connection queues behind the second and can be let in before it. `readings`
  has one writer at a time: the conflicts of writers are the subject of the other runs.
* **Invoices, assignments, keys**: 2. One to be issued first and one whose issuance, key or number
  can collide with it. `issuance` gives each key its own advisory lock, so that both can be taken
  at once; that a shared one leaves nobody waiting for ever is proved for every hash.
* **Months**: 1. Two months share nothing but, possibly, the hash of their advisory lock, and a
  lock that another month holds only delays the first.
* **Calendar** (`LastDay` of `Issuance`): a day of one fiscal year and a day of the next, with the
  midnight between them falling anywhere in a transaction; `chronology` has both in one year.
  `MaxSequence` is 2, as many as there are invoices.
* **Days of a month**: one workable, one not. Submission checks days one at a time; the postings
  contain a full, a split, a repeated, an incomplete, two overfull and an empty month.
* **Dates** (`LastDay` of `AssignmentPolicy`): four: a certificate that ends, a gap of one day, an
  adjacent renewal, and an end after the mission's.
* **Readings**: `MaxChanges` 2: a month is submitted and validated, or validated and its draft
  issued, under one request; one consultant's month with a priced and an unpriced mission.
  `PageSize` 2 never cuts in a month of one client.
* **Documents** (`Windows`, `Openings`, `Events`, `MaxSequence`): every day of the years of the
  holiday table and the ends of February of 1900, 2000, 2100 and 2400, so that each rule of the
  leap year and each correction of the day numbers is crossed. Operations happen on four days: the
  two sides of a year's end, the last day of a month and a leap day. One month is validated in a
  behaviour, and the parties change once after it. Two lines of a rate each tie at a half cent and
  together do not, and amounts stay small enough for TLC's integers; rate histories are all pairs
  of intervals over three bounds, open ends included. A series of 9 is never full. Deadlock is not
  checked, because the calendar stops.
* **Seed**: nothing is bounded but `MaxSeedings`, 2: the second one runs over what the first left.
  Rates are in tenths of a euro, which every rate of the data is a whole number of, because the
  cents of a month overflow TLC's integers. Deadlock is not checked: it rests after the second.
* **Deployments**: `MaxPushes` 3, `MaxMishaps` 2, `MaxManual` 2: each image is released, and a
  mishap may fall into the recovery from another. Deadlock is not checked there, because the host
  rests when the tag is on record and nobody acts.
* **Editing**: `MaxEdits` 2, `MaxWrites` 2: one's own save and another's. Cells
  take 3 quarter-days or none by hand and what is missing by the tools, so that a day is
  incomplete, full or overbooked.
* **Serving**: one connection is the hardest pool: whoever held it and asked for another would
  wait for itself. Two requests suffice to queue.
* **Browsing**: `MaxChanges` 1 of the persona besides the guard's clears, `MaxKept` 1 cached answer
  off the screen; `Visited` has a list, a detail, a month and a composition; `Given` a decision and
  an issuance.

Connections are interchangeable: runs of invariants alone use them as a symmetry set, runs with
liveness or a refinement do not.

### Fairness and why it is justified

`Deployment!HLiveSpec`: weak fairness of `Poll`, because a systemd timer fires it for ever, and of
`Script`, because a script that nobody interrupts goes on to its next command; pushes, visits,
rollbacks, resets and mishaps are never forced. `Server!LiveSpec`: weak fairness of `Serve` of a slot,
because a handler that runs goes on, to an answer or to an error, and of `Connect`, because the
pool gives a free connection to the head of its line; arrivals, outages and signals are never forced.
Issuing states no fairness: that its statements cannot come to wait for one another in a circle
is `NoStandstill`, an invariant, which is proved and needs none.

## 4. What is proved

Every theorem holds for every value of the constants that satisfies the named assumptions: any
number of connections, months, consultants, slots, images, requests. The assumptions are of three
kinds: the types of the constants (a hash is a function, a year has at least one number), what
the schema or the code guarantees of the data (the lines a client sends are a sequence,
`PostingsAssumption`; what `RowsAssumption` and `LinesAssumption` say of a month; that a matrix offers
a mission once, because `cra-grid.ts:127` builds its columns from a map by id; that a mission with a
price by the day is sold by the day to a client there is, `PricedAssumption`), and that `None` is
no value of the kind it stands beside. The instances of the runs satisfy them all: TLC evaluates
them. Each proof goes through an inductive invariant: `IInv`, `TInv` and `SInv` are checked by the
runs of their modules, and `ServerInv`, `GridInv`, `CellsInv`, `ReleaseInv`, `TabInv`, `RightsInv`,
`DocInv`, `SeedInv` and `ReadInv` (with `FirmInv` in it), of theirs, hold when they are added to
the configuration. There is one lemma per conjunct or per kind of
step, and a last one that puts them together (`NextInvariant`, `GridStep`, `ReleaseStep`, `TabStep`).

| Module | Theorems that state a property of a run | Others |
|---|---|---|
| `IssuanceProofs` | `Invariant` (`IInv`), `GaplessAlways`, `FrozenAlways`, `IndexesNeverConflict`, `NobodyStandsStill`, `IssuanceImplementsSeries` | `TypeCorrect`, `DistinctAlways`, `AnswersHoldAlways`, `DutiesSeparated`, `NothingGoesStale`, `RetryNeverConflicts` |
| `TimesheetProofs` | `Invariant` (`TInv`), `IndexesAreBackstops` (`NoIndexConflict`), `Refinement` (`ImplementsLifecycle`), `Conservation` (`Conserved`) | |
| `StaffingProofs` | `Invariant` (`SInv`), `NeverOverlapping` (`NoOverlap`), `PolicyAgreesWithDays` (`PolicyIsExact`) | `PairsForever`, `AssignedDaysPass` |
| `ReadingsProofs` | `ListsKeepToScope` (`NothingBeyondReach`), `MonthsAreShownWhole` (`MonthShownWhole`), `BilledMonthsAddUp` (`BilledShownWhole`), `CountsAreComplete` (`CountsLoseNone`) | `ChainsCompose` (`FirmInv`) |
| `HostProofs` | `PoolAlwaysSound` (`PoolSound`), `Refinement` (`ImplementsDesk`), `SchemaBeforeApp` (`AppHasItsSchema`), `RecordIsWhatRuns` (`RunsWhatIsRecorded`) | `Invariant` (`ServerInv`), `ReleaseInvariant` (`ReleaseInv`), `OnlyAcceptedIsRecorded` |
| `GridSyncProofs` | `FollowsAnswers` (`GridFollowsAnswers`), `NothingLost` (`LostOnlyByMishap`), `ShownIsSent` (`SentAsShown`), `SafeFills` (`FillsAreSafe`) | `Invariant` (`GridInv`), `CellsInvariant` (`CellsInv`) |
| `BrowserProofs` | `NoLateAnswerStays` (`NoLateAnswer`), `ProjectionsFollow` (`ListedProjectionsFollow`), `DeniedOnlyAcross` (`DeniedOnlyAcrossPersonas`) | `Invariant` (`TabInv`) |
| `DocumentsProofs` | `CalendarNeverDrifts` (`CalendarAgrees`), `RefusedExactlyWhenUnsound` (`RefusedExactly`), `ClosePricesTheMonth` (`PricedAtTheClose`), `NotesTakeBack` (`NotesReverse`), `TaxRoundedOnce` (`RoundedOncePerRate`), `RowsTellTheInvoice` (`RowsTellTheDocument`), `IssuedStands` (`NeverAmended`), `SeedKeepsBooks` (`SeededBooks`) | `BooksAreKept` (`DocInv`), `TaxWithinHalfACent`, `LinesLoseNothing`, `NeighboursSuffice`, `CountersStayApart`, `CountersWrapAround` |

### Issuance

`Gapless` is not inductive: it holds after a commit only because the sequence the
transaction carries is still the counter's next one. `IInv` adds what makes that so. `Held` says
which locks each stage holds; `NothingStale` that what was read under them is still what is
committed, which a step of another connection could only break by committing under the same lock,
and `Held` gives that lock a single holder. `Staged` carries the checks a transaction passed to
its commit, `OwnerKnown` says that the invoice its key was found on (or that none was) still
holds, which is the key lock's work, and `Coherent` that a row carries a number, a date and a key
together, so that an answer compared with the row can never disagree. `NextInvariant` has one
lemma per conjunct; in each, only two steps touch the register, a draft's INSERT and a commit
(`StepKinds`, `CommitFacts`, `CommittedRow`). `NoIndexConflict` follows without a further
invariant: two transactions at their upsert hold different rows, hence differ in key by
`OwnerKnown` and `Held`, and in number because one of them would have to hold the other's counter.
For the refinement a commit maps to `Number`, a replay to `Replay` and everything else to a
stutter.

`NoStandstill` says that every set of transactions has a member that waits for nobody in the set and
for no transaction that has ended: neither a cycle of waits nor a lock left behind. Its proof orders
the stages: whoever waits for a key holds nothing, whoever waits for an invoice holds a key only,
whoever waits for the counter holds a key and an invoice and nobody after it waits; so the member
of a set that is furthest along waits for nobody in it. `Owned`, an invariant proved with it, says
that a lock is held only by a transaction that has passed the statement that takes it.

### The month

`TInv` is the invariant: stages and locks agree, what was read under a lock is what is committed
(`ReadsAgree`), what was checked still holds of it (`ChecksHold`), and the documents are those of
the lines (`DocumentsAgree`). A step is one of nine kinds (`StepKinds`) and only a commit writes;
`CommitStep` says of a commit, in one piece, which of five things it did to the row. The part that
is not bookkeeping is that a decision is taken on the row as committed: the row lock, or before a
first save the advisory lock of the month, keeps every other commit away (`OnePerMonth`,
`CommitReads`), also where the hash of two months collides. The refinement maps a commit to one
step of `CraLifecycle`; `DossierIsBill` is the agreement of the documents of a validation, grouped
by client by the code, with the bill the abstract month draws up mission by mission.

`Conserved` compares sums over sets of lines, drafts and declined days, which are folds. The provers
cannot instantiate an induction theorem, but they can use that a set of numbers which is not empty
has a least element (`LeastNat`): that a sum exists, is a number and splits over a partition is
proved by the least cardinality at which it would not (`SumExists`, `SumNat`, `SumOfOne`). What
remains is that each line of a mission is on the one draft of its client, or on one declined
record (`DraftsShare`, `DeclinesShare`). The same lemmas say that a sum over a set of lines is the sum
of its parts' (`SumByPart`, `AmountsOfParts`), which the readers of a month need.

### Staffing

`SInv` says that whoever is past the advisory lock of its pair is alone on it, that what it read
there still holds when it writes, and that every row passed the policy. `NoOverlap` is then a
matter of the one commit that writes (`CommitWrites`, `OtherPairs`). `PolicyIsExact` is about the
pure sweep over validities, for every set of them: `CoveredThrough` is a recursive function of the
day, its existence and value are proved by the least day at which they would fail (`SweepExists`,
`SweepStands`), and `FullyCoversIsExact` that the sweep reaches the end of the interval exactly
when every day of it lies in some validity. `AssignedDaysPass` joins the two halves: no row of the
table covers a day that the submission of a month would refuse.

### Composition and reading

`TInv` and `SInv` are proved for a month whose assignments change at will and for assignments whose
recorded days do. `FirmInv` says that both hold of the two over one database. A step of one chain is for the other
a step of that environment (`Restaff`, `Record`), or leaves it alone; `ChainsCompose` is that, with the
facts of each chain carried over to the composed one (`SameStep`, `SameStaffing`, `Assumed`). What it
needs of each module is that what it computes from the other has the type the other expects
(`RecordedType`, `AssignedType`). That a submitted day stays covered does not follow, and is false
(section 5).

A request reads one statement at a time while the chains go on, so what its answer shows may never
have been true at once. `ReadInv` says what still can be relied on, for every script, page size and
number of writers.

* `RequestOK`: the statements run in the order of the script (`InOrder`), so that a statement that asks
  about what an earlier one found was asked after it. `ListsKeepToScope` needs no more: whatever month or
  invoice a statement returned was in reach of the persona when it ran, and reach does not change.
* `MonthStands`: a month once validated keeps its status, its lines and its flags (`TablesStep`, from the
  kinds of commits of `TimesheetProofs`). The detail of an invoice reads its source first, and that
  is a validated month; a grid whose row is validated reads what the row was validated with. So
  `MonthsAreShownWhole`, although its statements saw different instants.
* `BillStands`: of a validated month the declined records and the amounts of the drafts are, whenever they are
  read afterwards, those of its lines. A declined record holds the days of one mission, a draft those of
  one client (`DraftAmount`, from `DocumentsAgree`), so that what the code adds up over records
  and rows is one sum over the lines of the month, cut in parts (`LeavesAmount`, `BillsAmount`,
  `QuarterDaysOfRecords`); `WorkAddsUp` joins them and `BilledMonthsAddUp` reads it off the rows.
* `CountsGrow`: invoices are added and leave the drafts, and never go; so a count that was
  taken after another is no smaller than what the first one saw (`CountsRun`). `CountsAreComplete` follows for
  the routes that count before or after they list, each in the order it does.

### Serving, releasing, editing, navigating

* `ServerInv`: a request is in the line once, or on one connection, or neither (`LinesAgree`); a
  handler runs what the table admits (`DecisionsHold`); the pool ends after the last answer
  (`StopsLast`). `ServeKinds` sorts the steps of a request into the few ways they move it. The
  refinement maps the step that fixes the answer to `Decide`, sending to `Reply`, and everything
  between to stutters.
* `ReleaseInv` says where a script stands with respect to what it has done: migrated for its target
  from `seed` on, rows found or made from `swap` on (`Prepared`), recording only what was accepted
  (`Accepted`), and, while nothing was interrupted, what runs is on record until the swap
  (`Followed`). The lemmas follow the phases of the script.
* `GridInv`: the stamps of the answers grow (`Stamped`), so the answer the grid was built from does
  not come back as another; while no request failed, the entries not yet stored are the body of a
  save under way or in a grid that is dirty (`EditsKept`). Its proof is over every month, every
  offer of missions and every content of the cells, because the reducers' effect on the matrix is
  used only where it is known (`Reduced`, `Resynced`, `Rendered`).
* `CellsInv` looks into the cells: the grid shows each row once, the absence row last, and has cells
  for the rows it shows and for nothing else. `SentAsShown` needs it, because a cell of a row not
  shown would be sent and not counted: the totals are sums over the rows shown, the body is a set of
  lines by mission, and `SumRenamed` carries the one to the other row by row (`DayTotalSum`).
  `FillsAreSafe` is about loops, the filter of the days a row can be filled on and the copy of the
  month before, mission by mission. Both are recursive functions of a round, whose existence and
  values are proved by the least round at which they would fail (`LoopExists`, `RoundsHold`). What a
  round keeps is said day by day (`FilledFrom`): a day is as it was, or it was empty
  and one row of it is given the whole day, which it may be. Because that relation is transitive, a
  copy may go over one day several times, once for each mission, and still never overfill it.
* `TabInv`: when no change of persona is still to be heard of (`Settled`), every answer held for
  good and every answer still to come is the cookie's (`AllHis`); and whatever is behind a command
  has that command's answer still to come (`NoneForgotten`), which `HooksCoverTable` then removes.
* `RightsInv`: who reaches a path by links drawn for nobody else may read it (`Reaches`), who was
  given an answer may read it (`Readable`), and a request asks what its screen offered (`InRight`).
  A screen's links and commands depend on the answer it shows, hence the second part: a consultant
  is never led on from the pre-facturier because no consultant was ever given one. `Table` reads
  the access table role by role, and `NavigationCarried`, `LeadsCarried`, `ReadsCarried` and
  `CommandsCarried` compare the screens with it, for one role at a time.

### Documents

`DocInv` says what a document is: the draft of its client from the one month (`AsDrafted`), as it
was issued with a number and on a day, and possibly cancelled (`Stands`), or the note that number
and day make of it (`TakenBack`), whatever became of the seller and the client since; that its rows
are those that one save of it writes into empty tables (`Filed`), however often it was saved; and
that numbers and documents match one to one (`OneSeries`). None of `NotesReverse`, `RoundedOncePerRate` and `NeverAmended` is inductive without it:
an invoice is issued and cancelled from what `Reconstituted` gives back, so that a step preserves
them only because the rows of an invoice say all of it.

The proof has three layers. *Amounts*: `LinesFor` puts the lines of a client into the order of
`InOrder` (`Ranked`: a finite set is numbered once through), an amount is a sum that exists and is a
number (`AmountSum`, by the least number of lines at which it would not be), and each rate has one
group (`GroupFacts`). *Rows*: `ReadsBack` is the round trip of an invoice through its rows, lines
put in order again, and treatments and totals put together again from columns of which some are
NULL; this is where the assumptions that NULL is no amount and no date are needed. *Steps*: `SavedOver` says that
`ON CONFLICT` over the rows of a document leaves those of the new one, its provenance and its key
included, and `OneMore` and `SeriesGoesOn` that one number more and one document more still match. `IssueKeeps`
and `CreditNoteKeeps` put them together, and `IssuedStands` reads the action property off the same
facts: of an entry that has left, a save can only be the cancellation.

What is drafted, and at what price, follows from `DocInv` and from two facts of `Drafting`.
`SoundIsTimeline`: the code sorts a table of rates by its first days and compares each entry with the
next one; that is accepted exactly when no two entries share a day, since of any two the one that
starts first ends before its successor starts (`OneComesFirst`, `EndsBefore`), so a month is refused
exactly when one of its tables is unsound. `RateInForce`: the last day of a month lies in at most
one entry of a sound table, so the rate found there is the rate, whatever the order of the search.
`LinesOfWork`, `BilledLines` and `LinesOfDocument` then carry a mission to the one line of its client
(`OnOneLine`) or to none (`OnNoLine`). They rest on assumptions that the code justifies and that
TLC evaluates on the run: the event groups the days of a month by mission
(`EventsAssumption`), its month is in a year that the calendar knows (`working-calendar.ts` throws otherwise), and a
rate is dated from a day that exists, with an end or none (`IsHistory`).

The lists never put an invoice together again: they sum columns. `RowsTellTheInvoice` needs that a sum
does not depend on what is summed over: the lines of an invoice are numbered, their rows are a set,
and distinct because each row keeps its line's number (`HtOfRows`); the groups have a tax or none, their
rows a number or NULL that counts as zero (`TaxOfRows`). `SumRemove` (any term may be taken out
first), `SumRenamed` and `SumZeros` say so of every finite sum; `SumOver` leaves the drafts, whose totals are
NULL, out of the sum over all invoices, of which there are finitely many (`FewDrafted`).
`DocumentCoherent` shows that `reconstitute` refuses nothing that was saved; for the due date
this takes `DateOfNumber`: `fromDayNumber` answers a month of the year and a day of one for every number
(`EraCut`).

### The seed

`SeededBooks` is about the committed database, and nothing of it is written before the whole
transaction has run; so `SeedInv` follows what the transaction sees, for every dataset whose lists
are sequences, that names a mission once and gives a veteran one month of a period
(`ListsAssumption`, `VeteransAssumption`), and whatever is rolled back where.

* *The series.* A document takes the next number of its year, and the note that cancels it the one after
  (`NumberTaken`), so that the numbers of documents and notes fill the series without meeting. This is
  where the DELETE counts: it starts from an empty counter (`BeginKeeps`), whatever an earlier seed left.
* *The dates.* That they rise with the numbers is not a matter of one statement: the date is the month's
  (`ClockDayAfter`), the months are issued in the order in which they were driven through the
  domain, and that is the order the sort put them in (`HistoricalInTurn`). `InTurn` carries that
  order through three places, the queue, the validated months and the documents; the dense months
  come first and may be of any period, which does no harm because they stay drafts (`DenseAreDrafts`). `KeysApart`
  shows that the sort by period, stable, is one by a number, and `ClockGoesOn` that a later month is
  dated later.
* *The days.* `FiledSoFar` says of every validated month how far it has come: no document yet, those of the
  clients saved so far, or all of them and its declined days. It is stated per month, and a month has
  one row (the unique index, `MonthsOnce`), hence saving one month's document disturbs no other's
  (`FileStays`). Once nothing is left to draft from, each mission of a month is on one line of one
  document or in one declined record, with all its days (`FiledIsAccounted`).

### The calendar

`CalendarInv` is the inductive invariant: the day number and the weekday counted by the walk are
those the code computes for the day, a day that exists. It is assumed of the day a walk starts on
(`WindowsAssumption`, evaluated by TLC on the literal numbers of each window; `Epoch` proves it of
1 January 1970), and every midnight keeps it, over the ends of months, leap days and centuries
(`OneDayOn`), for every year. The argument takes the eras out of `ToDayNumber` (`DayNumber`): in years that start in March the leap day comes
last, so that a day number is a day of the year plus the days of the years before (`LeapDay`).
`WeekdayOfNumber` connects the weekday, for which the code has a second formula, with the day number
modulo 7, and `NumberBack` inverts it: the year of the era by `YearCut` and `YearBack`, the month
by `MonthBack`. Because day numbers are one to one, a holiday falls so many days after Easter on one day only
(`FallsOnOneDay`), and `HolidayTable` computes the twelve rows of the table from the computus.

### Arithmetic

`TaxWithinHalfACent` holds for every base and every rate from 0 to 100 %, `LinesLoseNothing` for
every agreed rate and quantity, `NeighboursSuffice` says that the overlap check of `timeline()`
looks at neighbours only, and still no two entries are ever in force on one day, in whatever order
they are given: each entry ends before the next one starts, and of the entries that come later in
the order of the sort the next one starts first (`NextExists`). Of the eight shifts of `uuidv7.ts`, two
counters below 2 ** 32 never mint one identifier (`CountersStayApart`), and two that agree modulo
2 ** 32 always do (`CountersWrapAround`); `SeedIsAccepted` checks on the real counters that the
reference data's and the write side's never meet.

### Only model-checked

* `CatchesUp` and `EveryRequestAnswered`: liveness, with the ENABLED of its fairness, is beyond the
  prover.
* `SeedIsAccepted` and `DemoPerformable` of `Seed`: they are about the literal rows of `seed-data.ts`,
  and for another dataset need not hold.
* The refuted definitions of section 5, `Firm`'s among them.

## 5. Where the code and its documents disagree

Two have a violation run, quoted with its lines in `PROJECT.json`:

1. `chronology`: the issue date is read before the counter is locked; around midnight a later
   number can carry an earlier date, against ADR-0018's one chronological order.
2. `firm_race`: the recorded-days check and the submission of a month take different locks; each
   misses the other's write, against ADR-0106 and the comment on the lock.

More are stated in the modules, each as a definition that TLC refutes when it is added to the
configuration named here; they are not among the runs:

* `FlagsAreEntries` (`Timesheet`, `MCTimesheet_month`): only a submission recomputes flags, so a
  refused month that is corrected and saved keeps flags of days without entries, against the
  definition of a CraFlag in CONTEXT.md:52.
* `RefusesOnlyLosses` (`Firm`, `MCFirm_race`): the recorded-days query also counts days the edited
  assignment never covered (`assignment-admin.ts:325`), against its comment at :317.
* `DeploySparesVisitors` (`Deployment`, `MCDeployment_releases`): with no digest on record, after a
  crash between the two halves of its write, a poll seeds again over visitors' rows, against
  ADR-0032 and the script's comment.
* `RollbackTarget` (same): recovering from a failed release records the recovered digest as its own
  rollback target (`pull-and-redeploy.sh:122`), against ADR-0029:40.
* `FollowsMain` (same): an interrupted rollback leaves record and tag equal, and no later poll
  notices that something else runs, or nothing (:151), against ADR-0029:82.
* `FailedSaveKeepsEdits` (`GridSync`, `MCGridSync_editing`): an answer adopted during a save
  replaces the edits that save carries; if it fails they are gone, against the comment on
  `decideGridResync`.
* `FailedRefetchKeepsEdits` (same): a failed background refetch replaces the grid by an error
  screen and drops its edits (`cra-grid-screen.tsx:76`), against ADR-0112:132.
* `OwnSaveIsNoConflict` (same): a refetch that is cancelled or paused lets a save settle before its
  own answer arrives, which then shows as someone else's change (`use-cra-draft.ts:74`), against
  ADR-0113:114.
* `ShellFollowsCookie` (`Browser`, `MCBrowser_browsing`): the broadcast of another tab refreshes
  the queries (`cross-tab-sync.ts:130`), but the shell is drawn from the route's context, which
  only the next navigation reads again (`_shell.tsx:130`), and nothing calls `useSession`.

And these were met while reading and modelling, and are remarks:

* *Projections left as they were.* `ListedProjectionsFollow` holds for the table of ADR-0113;
  against its title, a validation does not invalidate the invoice list it adds to, nor an issuance
  the pre-facturier. A first fetch under way when its key is invalidated is not asked again.
* *Torn answers.* The grid of a month that is not yet validated can show the status of one version
  with the lines of another; a pre-facturier can show a month late and billed in one answer; the
  manager's `pendingDecisions` and `awaitingDecision` are two reads; an invoice list filtered to
  drafts can have more rows on its page than its total; a manager's decision carries no version, so
  it may apply to lines changed after the page was read.
* *Sums.* `sumTtcCents` counts a draft for nothing, `sumHtCents` by its lines.
* *Names.* An invoice's timeline and a printed Cra name the validator by identifier, where the grid
  gives a name (`invoices.ts:161`, `cra-grid.ts:61`).
* *Personas.* The guard's clear is not broadcast, and can clear a persona another tab has just
  chosen (`session-guard.ts:31`). A change that arrives while a navigation waits on the session
  ends at the error boundary. Edits kept across a change of persona are saved under the new cookie,
  because the PUT names no consultant.
* *Grid.* On a small screen a copy of the previous month can be confirmed under a save; `Undo` also
  takes back the cells entered after what it undoes; a quantity recorded on a day that is no longer
  assignable is shown as an inert blank cell, and still counted and sent
  (`cra-quantity-cell.tsx:77`). `Issue` is offered on a cancelled invoice.
* *Outage.* `ops.ts:11` describes readiness during an outage of the database, but the pool has no
  `error` listener (`composition.ts:41`), so an idle client that is cut off ends the process.
* *Seed.* `uuidv7.ts:84` says its counters reach about 2040; the write side's ends at 4946. Fillers
  are assigned before their mission starts (IAM EuroSecure, Intercontrat), against `seed.ts:2`. Its
  own billing reference drops a Regie mission without rates, where the API's keeps it and answers
  another reason; no mission of the data is one.
* *Documents.* The comment above `assertDocumentAddsUp` says that it is written for a document
  rebuilt from stored rows, while `Invoice.reconstitute` does not call it and only `issue` and
  `creditNote` do; the comment on `dueDate` calls days-then-end-of-month the shorter computation,
  which an invoice of 31 January at 45 days contradicts (31 March against 17 March).
* *Provisioning* (read, not modelled). `ask` of `provision-host.sh` ends in `[[ -n "$input" ]] &&
  write_env`, so under `set -e` an empty answer with nothing saved ends the script before the
  defaults after it; files it could not install are warned of and not listed as skipped.

## 6. What is not modelled, and why

* Mentions other than early payment, VAT number formats, wording and layout: no property of the
  present modules tells them apart. Totals beyond the exact integers, which the code refuses, are
  out of reach of the bounds.
* Parsing of dates and the firm's time zone: a date is a record, and the clock gives a day.
* Reference data (who manages whom, the workable days) is a constant of `Timesheet`: no operation
  of the program changes it, only the seed; `Seed` computes it.
* `recordDay`'s departure guard: `record-month.ts` always passes no departure.
* The arithmetic of the margin, field-by-field shapes of requests, the text of problem documents
  and pages, filters, sorting and layout of the screens: no state of their own.
* Configuration, logging, the Dockerfile, the CI and `provision-host.sh`: I/O, or run once by an
  operator.
* In `Browser`: history, typed addresses and reloads under a choice, an answer to a choice that is
  lost after its cookie was set, the invoice page's link back, and staleness by time.
* `GridSync` treats a PUT whose screen was replaced by an error as a write from elsewhere, and
  keeps to one period and one consultant.
* The bodies of the transactions in `Server`, and the pool in the transaction modules: a connection
  is there when a transaction begins, which is what `Server` shows of the pool.

## 7. Plan

Modelled in the order of what the program is for: the legal series and the month (`Issuance` and its
proofs, `Timesheet`, `Staffing`, `Firm`), the documents with their calendar, amounts and rows, the
release, the editing of a month; then the readers of all of it (`Readings`), the process and the tab
around it (`Server`, `Browser`), and the data it is shown with (`Seed`). What is left:

1. `Browser` and `GridSync` as one tab, for edits kept across a change of persona.
