# CHEFTRACE in TLA+

CHEFTRACE is the back office of a restaurant kitchen: a FastAPI application
(`src/apps/backend/app`) over one PostgreSQL database, with a web client
(`src/apps/web`).  Goods are received into lots, consumed first-expired-first-out
by recipe productions and by sales the point of sale reports, ordered with
purchase lists and entered from supplier invoices read by OCR; checklists and
temperature logs are kept for food safety.

This directory holds TLA+ specifications of the parts of that application in
which several requests change shared rows, TLC configurations that check them on
small instances, and proofs that TLAPS checks for every instance.

Paths below are relative to `src/apps/backend/app` unless they start with `src/`.

## How to run

    tlc -workers 2 -config MCStockRequests.cfg MCStock.tla
    tlapm StockProofs.tla

(and likewise for `FiniteSums` and the six other modules named `...Proofs`).

`PROJECT.json` lists all runs, what each is expected to show, the lines of source
each definition stands for, the known disagreements between code and comments,
the hazards, and for each property a mutation of the code that breaks it.

## The system

Every request runs in one database session (`core/database.py`): the session is
opened when the request arrives, one transaction spans the request, the endpoint
commits, and any exception rolls everything back.  PostgreSQL runs at READ
COMMITTED, so two requests interleave at every statement unless a row lock
orders them.  SQLAlchemy adds two habits that matter: an object already loaded in
a session is not refreshed by a later query that returns the same row (unless
asked to), and a flush writes only the columns whose values differ from those
loaded.

| Component | State | Operations | Talks to |
|---|---|---|---|
| Stock service (`services/stock_service.py`) | `stock_lots`, `stock_movements` | receive, consume (FEFO), manual in/out, adjustment, discard, edit expiry, peek | called by production, POS, purchase lists, invoices, stock endpoints |
| POS webhook (`services/pos_webhook_service.py`) | `pos_events` (insert), the server's background tasks | accept a delivery, queue a run | the processor |
| POS event processor (`services/pos_event_processor_service.py`) | `pos_events`, `audit_logs` | process, approve, retry, dismiss | provider, stock service |
| POS integrations and mappings (`services/pos_integration_service.py`, `pos_mapping_service.py`) | `pos_integrations`, `pos_item_mappings` | connect, credentials, enable/disable, mode, map items | read by the processor |
| Invoices (`api/v1/endpoints/invoices.py`) | `invoices`, `invoice_line_items` | upload, process (OCR), confirm, delete | OCR, storage, stock service |
| Purchase lists (`services/purchase_list_service.py`) | `purchase_lists`, `purchase_list_items` | create, edit items, send, receive | stock service |
| Recipe production (`services/recipe_production_service.py`) | `recipe_productions` | preview, confirm | stock service |
| HACCP (`services/haccp_service.py`) | templates, items, runs, answers | seed, start, answer, complete | equipment |
| Dashboard (`services/dashboard_service.py`) | none | counts per day, shift, week, month | reads HACCP, stock |
| Restaurants, memberships (`api/v1/endpoints/restaurants.py`) | `restaurants`, `memberships`, `users` | create, invite, change role, remove | permissions of every request |
| Equipment and temperature logs | `equipment`, `temperature_logs` | CRUD, insert | HACCP snapshots |
| Recipes, products, suppliers, categories | catalogue tables | CRUD | |
| Authentication, reports, adapters, OCR, storage | none of the domain | | external services |

What is hard in each, and what makes it right:

* **Stock.** Many requests change the same lot.  No update may be lost, no
  quantity may become negative or be sold after it was discarded; the ledger of
  movements has to explain the quantities; consumption follows expiry dates; a
  plan of several lines is served whole or not at all; transactions that lock the
  lots of several products may deadlock and must recover.
* **POS events.** Deliveries repeat, the background task races with operators,
  the row stays locked through a call to the provider, the server may restart
  between the answer to the webhook and the run it queued, and the stock looked
  at may be gone when it is taken.  A sale must be deducted once, its audit rows
  must tell its history, and a closed event must stay closed.
* **Invoices.** Requests check the status and write it later, without a lock;
  OCR takes seconds between two commits.  Each confirmed line must become one
  lot, a confirmed invoice must not change.
* **Purchase lists.** The same pattern, and a status that is derived from rows
  other requests are changing.
* **HACCP.** Templates, equipment and required items change while a checklist is
  being answered; answers race with its completion; reseeding checks names and
  inserts later.  A completed checklist must have been answered, and stay as it is.
* **Dashboard and reports.** Two implementations count the same completed runs by
  day, shift, week and month; they must agree with the calendar and with each other,
  and a reading out of range must not disappear.
* **Memberships.** The role is read once per request and rewritten by endpoints with
  different rules; nobody may gain rights or return by a race.

## Modules

| Module | Models |
|---|---|
| `AtomicStock` | what the stock service promises: lots that change one request at a time |
| `Stock` | the stock service over row locks; refines `AtomicStock` |
| `PosEvents` | webhook, background task, processor, operators; the deduction is the atomic issue of `AtomicStock` |
| `Invoices` | one invoice, several requests |
| `PurchaseLists` | one list, several requests |
| `Memberships` | users, memberships, roles, the checks every request starts with, and the requests that change members |
| `HaccpSeeds` | the checklist templates of a new restaurant |
| `Haccp` | templates, equipment, temperature logs, checklist runs; extends `Memberships` and `HaccpSeeds` |
| `Dashboard` | the lists of the dashboard and the figures of the reports, as functions of the state of `Haccp` |
| `RecordBook` | what the checklists promise: a book of pages that are only added to |
| `Restaurant` | the composition: people at work, days that pass; refines `RecordBook` |
| `FiniteSums` | lemmas: least elements, induction, sums over finite sets; used by the proofs |
| `StockProofs` | proofs about `Stock`, among them that it implements `AtomicStock` |
| `PosProofs` | proofs about `PosEvents` |
| `InvoiceProofs` | proofs about `Invoices` |
| `PurchaseListProofs` | proofs about `PurchaseLists` |
| `RestaurantProofs` | the types of `Restaurant`, how its requests move, and its members |
| `ChecklistProofs`, `DashboardProofs` | proofs about the checklists and the figures of `Restaurant`; they build on `RestaurantProofs` |
| `MC*` | instances for TLC; each `.cfg` gives the constants values |

The modules share conventions.  A constant set of sessions serves requests of
several steps; `pc[p]` is the step session `p` is at, and further functions hold
what the request has read.  `End(p)` is the end of the session's transaction, and
every action that finishes a request contains it.  `Rollback` (or `Die`) may
happen at any step: an exception, a lost connection or a restart.  A request
that reads nothing before it holds the lock on the row it changes is one step,
since nothing can happen between its read and its write.  The definitions whose
comment begins with "Mutant" are variants of the definition after them and appear
in no behaviour; `PROJECT.json` names the property that each one breaks.

### Stock

*State.*  `remaining`, `status`, `expiry` and `received` are the committed columns
of `stock_lots` (`models/stock_lot.py`); `ledger[l]` is the sum of the committed
movements of lot `l`, and `discards[l]` how many of them are discards; `locks[l]`
is the session that holds the row.  A session has the lines of its plan, the lots
its FEFO query returned and has still to lock (`queue`), those it chose, what it
knows of their quantity (`work`) and what it has taken so far (`took`).

*Requests on one lot* (`Receive`, `ManualIn`, `ManualOut`, `Adjust`, `EditExpiry`)
lock the row first and are one step each.  The CHECK constraint on
`quantity_remaining` is a conjunct of `Move`: a request that violates it is rolled
back and so is no step.  The request schemas do not check the sign of a quantity,
so the quantities may be negative.

*Consumption* (`services/stock_service.py:78-299`) is called for each line of a
plan by recipe production and by the POS processor, and for a plan of one line by
a manual-out without a lot.  `SelectLots` is the snapshot of the
`SELECT ... ORDER BY ... FOR UPDATE`: the rows and their order are settled there.
`LockNext` is the grant of the next lock; PostgreSQL then reads the current
version of the row and evaluates the WHERE clause again, but not the ORDER BY.
`NextLine` and `Commit` are the loop of `consume`; `Short` is
`InsufficientStockError`, which reaches the handler of the session and rolls back
all lines.

*Discarding* is two steps because the endpoint loads the lot without a lock
(`api/v1/endpoints/stock_lots.py:102`); the service's locked query returns the
object the session already holds, so the movement records the quantity of the
first read.

The look at the stock that precedes a POS deduction (`peek_fefo_allocations`) loads the
same rows without a lock, but keeps no object: only numbers and dates leave it, the
identity map holds its objects weakly, and so the locked query reads the rows afresh.

*Deadlock.*  `BreakDeadlock` is PostgreSQL's detector; `Rollback` already allows the
step, and the fairness of `BreakDeadlock` says the detector does its work.

### PosEvents

*State.*  The row of an integration (`active`, `manual` for the confirmation mode,
`token` for the encrypted access token: none, readable, or written with another
key), the mapping of each item, the shelf; the row of an event, the units its
movements took, its audit rows; the queued background tasks and the row locks.
`status[e] = "none"` means that no row exists.

*Actions.*  `Accept` is a first delivery; a replay inserts nothing, schedules nothing
and is a stutter, and so is a delivery the integration cannot accept.  A run of
the processor goes `Load` → `ReadToken` → `Enrich` → `Plan` → `Deduct`, and leaves
early at each of them as `process_event` does: inactive integration, no token,
provider failure, order without items, unmapped item, short stock, the manual
gate.  It is one transaction, and `Finalize` is the commit that carries the
status, the audit row and the movements together.  `AwaitApproval` commits a
status without an audit row.  Three failures change nothing in the database:
`DeductShort` (`InsufficientStockError` after the look at the stock: not caught by
the processor), `DecryptFails` (a failing `pgp_sym_decrypt` aborts the
transaction, so the handler cannot record `failed`) and `Rollback`.  `Crash` is a
restart: the queued tasks live in the memory of the server.

*Abstractions.*  One shelf stands for all products of an order; the lots behind it
are the subject of `Stock`, whose refinement of `AtomicStock` is what allows the
deduction to be one step.  `Enrich` chooses among the outcomes of the provider
call.  Reading event and integration is one step, since an edit of the
integration between the two reads could as well have come before the first.
Target "none" also stands for a recipe whose unit does not match its product, and
"ignore" for a recipe without ingredients: the code does the same for both.

### Invoices

One invoice with its lines.  `Upload`; `ReadToProcess`, `Mark`, `Refresh` and
`Extract` or `ExtractFails` for the two commits of `process_invoice`;
`ReadToConfirm`, `Confirm`; `ReadToDelete`, `Delete`.  Each reads the status in one
step and writes in a later one, as the code does without a lock.  A request that
dies (`Die`) after `Mark` leaves the invoice in `processing`, which no endpoint
leaves again.  `lots[l]` counts the lots received from line `l`, `Decisions` what
the body of a confirmation may say of a line.

### PurchaseLists

One list with its items.  `Read` is the unlocked read each request starts with;
`Add`, `Update`, `Delete` and `Send` are the write of the draft's requests.  A
receipt writes its item and works out the status of the list from the items it
then sees (`Record`: the row of its item is locked by its own write from here
on), and commits (`Commit`), which writes only the columns that differ from what
was read.  `stocked[i]` is the quantity in the lots received for item `i`.

### Memberships

*State.*  `users` are the people with a row in `users`, `members[u]` the row of `u` in
`restaurant_memberships`; `pc[p]` and `req[p]` are the step of the request that process
`p` serves, and what it knows: its user, its kind, the row it is about to write
(`on`) and what it has read (`seen`).

*Actions.*  `SignIn` and `Register` are `get_current_user`: the row of a new user is
inserted and committed before anything else, and of two first requests at once one
fails on the primary key.  `Authorise` is `get_current_membership` and
`require_permission`: an active membership with the permission that `Needs` gives for
the endpoint.  It is read once, and a later change of it stops nothing.  `Found`
creates the restaurant with its owner.  `ReadInvited` and `CommitInvited` are
`invite_member`; `ReadMember` with `UpdateRole` or `RemoveMember` are the other two.
`Die` ends a request at any step without a trace.  A request the code refuses ends in
the step that refuses it.

*The session.*  `Written` is the UPDATE of a flush: the columns whose new value differs
from the value read, so that two requests that change different columns of a row do
not undo each other.  `RowRead` is the identity map: for the caller's own membership the
session already holds an object, and the handler's query does not refresh it.

### HaccpSeeds and Haccp

*State.*  Rows are never deleted, so a template or a run is its position in `templates`
or `runs`.  A template has its columns and the number of its required and optional
items; a run its template, date, status, equipment snapshot, how many required items
are answered (`answered`), and the equipment it has readings of (`readings`).  Items are
not told apart: `NothingMissing` compares the answered with the required items by number,
which says the same because `SubmitAnswer` counts only an item not answered before.
History variables: `edited` (a request wrote the template), `asked`, `late` and
`completions` of a run (the required items its completion found, the answers stored
after it, how often it was completed), `limits` and `created` of a log.

*Actions.*  `CreateRestaurant` is one commit: restaurant, owner and all of
`SEED_TEMPLATES`.  `ReadNames` and `Reseed` are the two steps of reseeding, with no unique
index behind them.  `ReadToWrite` reads the template that `UpdateTemplate`,
`SetTemplateActive` or `DeleteTemplate` write; `ReadEquipment` likewise.  A request that
only inserts (`CreateTemplate`, `CreateItem`, `CreateEquipment`, `LogTemperature`) is one
step after its authorisation: what others commit between its read and its insert could
as well have come after it.  A run is started in two steps (`ReadTemplate`, `StartRun`
with the `Snapshot` of the active equipment), answered in two (`ReadRun`,
`SubmitAnswer`) and completed in three (`ReadRun`, `CheckRun`, `CompleteRun`): the status
is looked at first, and written without a second look.  An empty snapshot is treated as
none (`NothingToRead`), as `if not run.equipment_snapshot_json` does.  Answers are for
any equipment, any item or neither; none is checked for having a content.

The bodies of `CreateTemplate` and `UpdateTemplate` carry a name and a frequency; the
CHECK constraint on the frequency (`models/haccp_template.py:12`) is a conjunct of both, so a
request that violates it is rolled back and is no step.  The rows `Reseed` inserts come in
an arbitrary order: no query reads the order in which templates were inserted.

`work` is chosen in the initial state and never changes: a workload says which kinds of
requests arrive, from whom, on which templates, and how many rows of each sort may be
made.  It bounds an instance and stands for nothing in the code.  `Workloads` is a constant,
and the calendar has to cover the days of each (`DaysAssumption`).

### Dashboard

Functions of the state, named as the methods they are translated from.  Days are
natural numbers; `FirstWeekday` and `MonthStarts` give the calendar.  `haccp_pending` is
the list for one template with its four frequencies; `DoneThisWeek` keeps the code's
week, whose end is the Sunday and excluded.  `temperature_alerts` goes by the day a
log was stored, `temperature_log` of the report by the day the client gave.
`expected_runs`, `completed_by_template` and `compliance_pct` are the monthly summary, in
whole percents.  `expiry_alerts` and `critical_expiry_alerts` take the lots as an
argument.

### Restaurant and RecordBook

`Restaurant` lets people arrive with requests (`Arrive`), serves them (`Account`,
`Request`) and lets the days pass (`NextDay`); requests may stay open overnight.
`clean` is a history variable: the templates that had nothing due on any evening of
the month so far and were not written meanwhile.  `RecordBook` is the abstract
specification: a page is opened with what it needs, readings are noted and never struck
out (the answers are insert-only by the triggers of
`src/apps/backend/alembic/versions/005_immutable_triggers.py`), a page is signed only when
everything it needs is noted, and stays signed.  `Page` maps a run to a page;
`KeepsTheBook` says that everything the restaurant does is a behaviour of the book.

## What the runs check

| Run | Instance | Shows |
|---|---|---|
| `stock_requests` | 2 lots of a product, 2 sessions, quantities 1, up to 2 in a lot, one discard per lot | `TypeOK`, `LedgerBalance`, `ChosenIsFresh`, `DepletedIsEmpty` |
| `stock_fefo` | 2 lots, 2 expiry dates and none, signed quantities, no edits | `FefoRespected`, `NoDeadlock` |
| `stock_atomic` | 3 lots, 2 products, plans that lock them in opposite orders, one of them with a product twice | `LooksAtomic` (refinement of `AtomicStock`), `EveryConsumerEnds` |
| `stock_discard` | as `stock_requests` | violates `LedgerExact` |
| `stock_fefo_edit` | as `stock_fefo`, with edits | violates `FefoRespected` |
| `pos_events` | 1 event of 2 items, 2 sessions, 2 operator runs, 2 units | `TypeOK`, `TakenOnce`, `AuditTimeline`, `TerminalIsFinal`, `RunsEnd` |
| `pos_replay` | 2 events | violates `SkippedReplaysAreHandled` |
| `invoices` | 1 processor, 1 reviewer, 4 lines | `TypeOK`, `OneLotPerConfirmedLine`, `ConfirmedIsFinal`, `ReadOnce` |
| `invoices_twice` | 2 processors | violates `ReadOnce` |
| `purchase_lists` | 1 editor, 1 receiver, 3 items, quantities 1 to 3 | `TypeOK`, `ListInStep`, `StockInStep`, `SentIsFrozen` |
| `purchase_lists_twice` | 2 receivers | violates `ListInStep` |
| `restaurant` | seven workloads, 3 people, 2 processes, 2 pieces of equipment | `TypeOK`, `OnlyTheFounderManages`, `OnlyInvitationsReadmit`, `SeededOnce`, `RacesAreBounded`, `CompletedIsAnswered`, `KeepsTheBook` (refinement of `RecordBook`), `PendingIsHonest`, `ClearedStaysCleared`, `CleanMonthIsCompliant`, `BreachIsShown`, `LotsRipen` |

*Bounds.*  Two sessions are enough for every race of the stock and the POS modules:
a consumption races with another consumption, with a discard, and with the
requests of one step, of which there may be any number.  Two lots of a product
make FEFO choose and make it stop in the middle of a lot; with up to two units a
lot gives all, a part or nothing.  Two expiry dates and the missing one give
every relation between two lots; reception dates and row ids break ties.  One
event is enough for what `pos_events` says of each event, since events share only
the shelf and the settings, which change at any moment anyway; two operator runs
after the background task give a retry after every outcome, and a dismissal
after or during each.  `MaxStock`, `MaxDiscards`, `MaxStarts` and `MaxReceived` bound
the counters; each is a conjunct of a guard and none of them of a property.
Sessions are interchangeable, hence the symmetry of `stock_requests` and
`stock_fefo`; the runs with a liveness property use none.

The workloads of `restaurant` are: *Staffing*, in which three people sign in, invite,
change roles and remove each other on two processes, without a bound;
*Seeding*, two processes that reseed, rename a seed template, make another one its
namesake, and delete, up to two more templates than seeds; *Rounds*, one run of an
equipment round answered and completed by two processes while equipment is registered
and deleted; *Questions*, one run of a written checklist that gets a sixth required item
and becomes an equipment round meanwhile; *Readings*, one log on either side of each
limit (0, 1, 5, 6 degrees for limits 1 to 5 and 4 to 9) over three days with the
equipment edited and deleted; *Fortnight*, a weekly checklist of the restaurant's own
with two runs over fifteen days, a month of fourteen days that starts on a Monday, and
a form with a frequency the table refuses;
*Shifts*, three runs of a round of three shifts over two days.  A race needs two
requests, so two processes are enough; a third would be one more to be counted by
`SeededOnce` and `RacesAreBounded`, which count processes.  A workload of one process
asks for the calendar only.  A month of two weeks starting on a Monday is the least
forgiving for a weekly check: two runs are expected, and neither can have been done in
the month before.  Runs are dated today or yesterday, since the client gives the date;
a date in the future would only move the day on which it counts.

*Assumptions of single runs.*  `FefoRespected` holds only while no expiry is edited
(`stock_fefo_edit` shows why) and no plan has two lines of one product; `NoDeadlock` for
plans that name their products in one order, which those of one line do;
`DepletedIsEmpty` only for quantities that are not negative; `ReadOnce` with one processing request at a time, and
`OneLotPerConfirmedLine` and `ConfirmedIsFinal` with one reviewer at a time (with two reviewers
both may confirm, and each line is received twice; with two processing requests one
may reopen an invoice that was confirmed after it read it); `SentIsFrozen` with one
request editing at a time, `ListInStep` and `StockInStep` with one receiving at a
time as well.  `OneLotPerConfirmedLine` is about bodies with one
decision for each line, as the docstring asks of the client; the code does not
refuse a body that decides a line twice.

*Fairness.*  `Stock!Fairness`: PostgreSQL queues the sessions that wait for a row, so
a lock that becomes free again and again is granted (strong fairness of
`LockNext`); a session that waits for nothing goes on; the deadlock detector runs.
`PosEvents!Fairness`: Starlette runs the task it queued (strong, for the same lock),
and a run goes on, since the provider's client has a timeout.  No user is ever
obliged to send a request.  The specifications without liveness properties state
no fairness.

*Deadlock* in TLC's sense is checked for the stock, POS and restaurant runs.  An invoice that is
confirmed and a list that is received admit no further request, so these runs
switch the check off.

## Where code and comments disagree

1. `stock_discard`: a discard records the quantity it read before it had the lock,
   so a movement committed in between leaves ledger and lot apart
   (`api/v1/endpoints/stock_lots.py:102`).
2. `stock_fefo_edit`: an expiry edited while a consumption waits for a lock; lots are
   served in the order of the old dates (`services/stock_service.py:94`).
3. `pos_replay`: the comment at `api/v1/endpoints/webhooks.py:42` says that a replayed
   event was processed or seen by an operator; after a restart that lost the task
   it is neither, and its replays are skipped until an operator finds it.
4. `invoices_twice`: the "optimistic lock" of `api/v1/endpoints/invoices.py:191` is a
   check and a later write; two requests pass it.
5. `purchase_lists_twice`: two receipts at once leave a list partially received with
   every item received (`services/purchase_list_service.py:247`).

Four more that have no run of their own, because the model takes the step and a
property would only restate it:

* a weekly check completed on a Sunday does not clear the dashboard
  (`services/dashboard_service.py:226`); `PendingIsHonest` states the exception;
* an invitation sent to the owner makes them a manager or a chef
  (`api/v1/endpoints/restaurants.py:164`), which a role change refuses at line 195;
  afterwards nobody can manage the members;
* two reseeds at once create a template twice, although
  `services/haccp_service.py:1101` says "Idempotent"; `SeededOnce` bounds the copies;
* `complete_run` "Validates all required items have answer OR skip_reason"
  (`services/haccp_service.py:1255`), but a row with neither is stored and counts.

## What is proved

Each theorem is about the specification of its module and holds for every value of the
constants that satisfies the assumptions of the module; the bounds (`MaxStock`,
`MaxDiscards`, `MaxStarts`, `MaxReceived`, the numbers of a workload) may be any natural
numbers.  TLC evaluates the assumptions in the runs.

| Assumption | Says |
|---|---|
| `StockAssumption` | finitely many lots, numbered in the order of their creation; values of the right kind |
| `PosAssumption` | finitely many items on an order; placeholders are no events or sessions |
| `InvoiceAssumption` | no session both processes and reviews; a body decides something on a line it names |
| `ListAssumption` | no session both edits and receives; quantities are positive |
| `FounderAssumption` | the founder is one of the people |
| `NobodyAssumption`, `NoRequestAssumption` | placeholders are none of the values they stand beside |
| `ProcsAssumption` | finitely many processes |
| `HaccpAssumption` | placeholders are no equipment; machines have limits, temperatures are integers |
| `WorkloadAssumption` | a workload names people, processes and kinds of requests; what its forms carry has the type of its column |
| `CalendarAssumption`, `DaysAssumption` | finitely many months, of a week or more; they do not end before a workload does |

Theorems that need more say so in their hypotheses: `NoNegatives`, `NoEdits`,
`OneLineEach`, `SortedPlans`, `OneAtATime`, `OneDecisionPerLine`, `OneEditor`,
`OneReceiver`.  The runs that violate `FefoRespected`, `ReadOnce` and `ListInStep` show that
three of these are needed; the others are explained under "Assumptions of single runs" and
"StockProofs".

### StockProofs

* `TypeCorrect`: no committed or pending quantity is ever negative, whatever the sign
  of the requests.
* `NoLostUpdate` (`LedgerBalance`): until a lot is discarded, its remaining quantity is
  the sum of its movements.
* `ConsumesFreshStock` (`ChosenIsFresh`): what a consumption is about to take it takes
  from lots it holds, that are on sale, and whose quantity it knows.
* `NothingHidden` (`DepletedIsEmpty`): if no request carries a negative quantity, a lot
  that is marked empty is empty.

`LedgerBalance` and `ChosenIsFresh` are not inductive.  The inductive invariant `IInv`
adds what two-phase locking gives: what a session knows of a row it holds, together
with what it has taken, is the committed quantity (`HeldIsFresh`); it has taken only
from rows it holds (`TakenIsHeld`); what it chose it holds, and it is on sale
(`ChosenIsHeld`); rows it waits for exist (`QueuedExists`).  `HeldIsFresh` survives
the steps of the others because every write of a row requires its lock to be
free or the writer's own.  There is one lemma per action; the requests on one lot
share `RowStepKeepsInv`, the ends of transactions `EndKeepsInv`.

* `RequestsLookAtomic` (`LooksAtomic`): the stock service implements `AtomicStock`.

A consumption commits what it took for all its lines in one step, and `Issue` asks that
this is, product by product, what the plan demands.  `Accounted` is the invariant
behind it: of each product a transaction has taken the sum of what the lines it served
asked for.  It is kept because the loop over the chosen lots takes exactly the need of
its line (`LineTakesItsNeed`): `Give`, summed over the lots up to the `i`-th, is the
smaller of the need and of what those lots hold.  The other parts of `RInv` say that the
lots it took from are on sale (`OnSale`), a lot that was never received has no movements
(`Unborn`), and a lot about to be discarded exists (`TargetExists`).

* `ConsumesByFefo` (`FefoRespected`), when nobody edits an expiry (`NoEdits`) and no plan
  has two lines of one product (`OneLineEach`).
* `NeverDeadlocks` (`NoDeadlock`), when nobody edits an expiry and every plan names its
  products in one common order (`SortedPlans`; plans of one line always do).

`Queueing` is the invariant of both, on top of `RInv`.  A session holds, of the product of
its line, lots that come in FEFO order before those it waits for, and chose them in that
order (`InOrder`); it chose all of them that are on sale and not empty (`Considered`); what
it holds is of the products of its lines so far, and what it has taken of those it has
served (`ByLine`); and the lines it has served respected FEFO (`Emptied`).  A lot that is
held keeps its status, and one that exists keeps its dates, so no step of another session
disturbs this.  `EarlierGiveAll` says of the consumption loop that if a lot gives anything,
the lots chosen before it give all they have.  For deadlocks: in a circle each session would
wait for a lot later in one order - products first, FEFO within a product - than the session
before, and of finitely many lots one has the fewest after it.

The assumptions are needed.  With edits TLC finds `FefoRespected` violated
(`stock_fefo_edit`).  When two lines ask for one product, a lot that expires early may be
received between them: it is not sold for the first line, and both are committed together.
Plans that name two products in opposite orders do deadlock, in the code as in the model:
nothing sorts the lines of a plan, and PostgreSQL breaks the circle (`stock_atomic`).

### FiniteSums

The model sums with the folds of the community modules.  `FiniteSums` proves what such a
sum is: no term for the empty set, one term more for one element more, in any order.
The library's theorems of induction take the property as an operator, which the provers
cannot instantiate; here the property is a set (`NaturalInduction`, `SubsetInduction`),
and both follow from every nonempty set of naturals having a least element.  The library
defines the fold by a recursive function that it chooses; that such a function exists
(`SumsAreFixed`) is proved by induction on the cardinality.

### PosProofs

* `TypeCorrect`: the shelf never goes negative, although the look at the stock and its
  deduction are separate steps.
* `SoldOnce` (`TakenOnce`), `AuditTellsHistory` (`AuditTimeline`), `ClosedForGood`
  (`TerminalIsFinal`, an action property).

The inductive invariant says that a run holds the row of its event, which is still
as open as when the run read it (`RunHoldsItsEvent`): then every new audit row
starts from the present status, and no closed event can be written.  `History` says
how audit rows, status and units taken belong together; it is stronger than
`TakenOnce` in that rows of an event from which nothing was taken carry no units, and
than `AuditTimeline` in that an event that is still pending has no rows.
`TransitionKeepsHistory` is the heart of it: a row appended to an open event keeps
its history in order.

### InvoiceProofs

* `InvoiceTypes` (`TypeOK`), whoever works on the invoice.
* `OneLotEach` (`OneLotPerConfirmedLine`), `ConfirmedForGood` (`ConfirmedIsFinal`) and
  `LinesReadOnce` (`ReadOnce`), when one session at a time reads the invoice with OCR, one
  at a time reviews it, and a body decides once on each line.

No request holds the invoice, so a status that was checked may have changed.  The
inductive invariant says why it has not: for each step between a check and its write it
lists the statuses the row can have by then (`ProcessorInStep`, `ReviewerInStep`), and for
each status what the lines look like (`LinesInStep`).

### PurchaseListProofs

* `ListTypes` (`TypeOK`), whoever works on the list.
* `SentListIsFrozen` (`SentIsFrozen`), with one editor and any number of receivers.
* `ListFollowsItems` (`ListInStep`) and `StockFollowsItems` (`StockInStep`), with one editor
  and one receiver.

The invariant behind the first is that editing and receiving never overlap: while an
editor is between its check and its write the list is a draft, and receipts start only
once it is sent (`SidesApart`).

### RestaurantProofs

* `RestaurantTypes` (`TypeOK`): for any people, processes, equipment and workloads.

The invariant has a part for the tables, one for their consistency (a run is of a
template that exists, and so on) and one for each process: `Knows(p)` says what a
request may still rely on of the rows it read, which is that they exist and have the
types of their columns, because tables only grow and rows are written column by column.
How a request moves from step to step is proved here once, for the two modules below.

* `FounderManages` (`OnlyTheFounderManages`) and `InvitationsReadmit`
  (`OnlyInvitationsReadmit`), both action properties, about the members.

Only the founder's row ever has the role of an owner, and only the founder's requests
have read that role (`Owned`): no request that writes a row writes that role.  So
whoever was let through as an owner, at whatever moment, was the founder.

### ChecklistProofs

* `CompletedAnswered` (`CompletedIsAnswered`).  The request that completes a run checked it
  in an earlier step.  `Evidence` says that what it found missing nothing of is still
  there: readings and answers are only added to, and what a run needs is fixed when it
  is started.
* `BookIsKept` (`KeepsTheBook`): every step of the restaurant is a step of `RecordBook` or
  leaves the book alone.  `Pages` is the invariant of the refinement mapping.
* `BoundedRaces` (`RacesAreBounded`): an answer after the completion, or a second
  completion, is one of a request that read the run before.  `Races` counts the requests
  that may still do so (`Serving`) together with those that did: the sum does not grow
  once the run is completed.
* `ReseedsAreBounded` (`SeededOnce`): likewise, the copies of a name and the reseeds that
  have read its absence are together at most as many as there are processes.

### DashboardProofs

* `BreachesShown` (`BreachIsShown`): `Judged` says that the mark of a log is that of the
  limits the equipment had when the log was made.
* `RipeLots` (`LotsRipen`): a lot that is critical stays so, and was announced before,
  whatever the order of the days; it needs the state of no request.
* `ClearedStays` (`ClearedStaysCleared`): what was done for the day stays done until the
  day, the shift or the template changes (`DueRule`).
* `PendingHonest` (`PendingIsHonest`): what the dashboard calls done was done in its
  period, and what it calls due was not, but for the Sunday.  Behind it are facts about
  the calendar proved from its definition - a month has a first and a last day, two days
  of a month have the same first day, and weeks begin on Mondays - and the invariants
  that a template's frequency is one of four (`Frequent`) and a run is dated today or
  yesterday (`Dated`).
* `CleanIsCompliant` (`CleanMonthIsCompliant`): a template that had nothing due on any
  evening of a month is shown at 100 percent by the summary, which is computed by other
  code with other definitions of a week.  The invariant `QuotaMet` says that on every
  evening the runs so far meet what the summary will expect of the days so far: each
  evening with nothing due adds its quota.  For a weekly checklist the quota is one for
  each Monday, since on a Monday evening only a run of that Monday clears the check.

### Only model-checked

* `EveryConsumerEnds` and `RunsEnd` are liveness properties, which the prover does not
  reach.
* All other properties that a passing run checks are stated by a theorem, each with the
  assumptions on the constants listed above.

## What is not modelled

* Decimals: quantities are whole numbers of the smallest unit.  NUMERIC(12,3)
  rounds `quantity_remaining` and a movement separately when a request carries more
  decimals.
* Tenancy: one restaurant, of which all rows are.  Permissions are modelled in
  `Memberships` for the requests of `Restaurant`; in `Stock`, `PosEvents`, `Invoices` and
  `PurchaseLists` every request is one the caller may make.  Tokens are not modelled.
* HTTP, JSON, signatures, OCR, storage and the provider's API: their outcomes are
  choices of the actions that call them.
* The columns no property speaks of: names, notes, costs, timestamps, users.
* `peek_fefo_allocations` and the preview of a production, which only read, and whose
  result binds nothing.
* Products, suppliers, categories, recipes: single-statement edits of rows no other
  component changes; stock and recipe reports; the web client.
* The low-stock list, the lot count and the stock value of the dashboard: sums over
  the lots, without a state of their own.
* What an answer says, and the out-of-range mark of an answer: no request decides
  anything by them.  The mark of a temperature log is modelled.
* The connection of an integration (creation, rotation of credentials, tenancy): the
  processor's view of it is in `PosEvents`.

## Plan

Done, in this order:

1. `Stock` with `AtomicStock`: the rows that everything else changes.
2. `PosEvents`: the concurrent entry into the stock, with crashes and retries.
3. `Invoices` and `PurchaseLists`: the read-check-write entries.
4. `Memberships`, `HaccpSeeds`, `Haccp`, `Dashboard`, `RecordBook` and their composition
   `Restaurant`.
5. The proofs: `StockProofs`, `PosProofs`, `InvoiceProofs`, `PurchaseListProofs`, and
   `RestaurantProofs` with the two modules that build on it.

Next:

* `PurchaseLists`: for any number of receivers, that nothing is received that is not in
  stock (`received[i] <= stocked[i]`).
* Of the system, `Recipe` edits against productions and sales that are computing their
  plan would be the next module, if the plan of `Stock` is to be derived rather than given.
