# A formal model of NailTrace (trace-board-be)

NailTrace serves parsed PCB boardview files to repair technicians.  Admins
upload board files; a Celery task parses them; technicians with a subscription
view the parsed JSON.  This directory holds TLA+ modules of the parts of the
system whose behaviour depends on the order of concurrent steps, TLC
configurations that check them on small instances, and proofs, checked by
TLAPS, that the most important properties hold for every instance.

Line numbers refer to the files of the repository, under `src/`.

## 1. The system

| Component | State | Operations | Status |
|---|---|---|---|
| Board pipeline (`apps/admin_panel/views.py`, `apps/boards/{views,tasks,models,storage}.py`) | rows of `boards_boardfile`, objects in S3, entries in Redis, messages of four Celery tasks | upload, PATCH, delete, reparse, view; `parse_board`, `refresh_cache`, `record_view`, `invalidate_cache` | modelled |
| `seed_board` command | the same rows, objects and entries | one command | modelled |
| Billing (`apps/billing`) | plans, subscriptions, payments; checkouts and events at PayMongo | subscribe, cancel, webhooks | modelled |
| Accounts (`apps/accounts`) and admin user management | user rows, refresh and access tokens with their claims, the blacklist, reset links | register, login, refresh, logout, profile, passwords, suspension | modelled |
| Annotations (`apps/annotations`) | annotation rows | create, update, delete; deletion with the board | modelled |
| Parsers (`apps/boards/parsers`) | none that lasts; while a file is read, the board it fills | format detection, four formats, outlines of parts | modelled except what section 2 lists |
| Access rules (`apps/accounts/permissions.py`) | none | `HasActiveSubscription`, `CanViewBoard` | in `Accounts` and `BoardPipeline`, partly |
| Lists, details, analytics | none of their own | queries | not modelled: they change nothing |
| Settings, Docker, CI, Django admin site, routing, email, throttling | - | - | not modelled: configuration and third-party machinery |

How they interact.  Two gunicorn workers with two threads each run the views; a
Celery worker with two processes runs the tasks.  They share Postgres, S3 and
Redis, and the views start tasks by publishing messages to the broker, which is
the same Redis.  No view opens a transaction and `ATOMIC_REQUESTS` is not set (the
one transaction there is, Django opens itself when a board is deleted together
with its annotations), so every ORM call, S3 call, Redis call and message of a
handler can interleave with those of every other handler.

What is hard in it:

* one handler writes to several stores in turn (S3, then Postgres, then the
  broker; Redis, then S3, then Postgres) and may stop after any of them;
* a row loaded at the start of a handler or task is saved after other work, in
  the case of PATCH with every column;
* two rows of one content would share an S3 object and a cache entry, and
  only a unique constraint, met after the object is written, keeps them apart;
* Celery acknowledges a message before it runs the task, retries after a
  countdown, and gives no order;
* cache entries vanish at any time (TTL, `allkeys-lru`) and are filled by four
  different code paths;
* what a token says was true when its session began; refreshing copies it;
* a row checked in one statement is written in another: profiles, suspensions,
  passwords, reset links, annotations;
* the files the parsers read are other people's: sections in any order, parts
  that come twice or not at all, counts that do not match.

What makes the pipeline correct: no two rows of one content; a cache entry is
always a parse of the content it is filed under; a board shown as parsed has its
counts; a board that tells viewers to check back is owed an outcome by someone; a
board that can be parsed ends parsed; a deleted board stays deleted; a row has its
bytes in S3; every view is counted once, but for errors in between.  What makes
billing correct: money that was taken is put on record, whatever webhooks fail; a
subscription is backed by such money; what was paid for is not taken back, but for
the moments by which webhooks overtake each other.  Of accounts: nobody is let in
who was not entitled when the session began; a session has one refresh token, and
none after a logout; a request writes the columns it is about; a reset link works
once.  Of annotations: they are their owner's, go with their board and stay
deleted.  Of the parsers: pins, nets, parts, boxes and outlines of a board agree
with each other.  The hazards that threaten these, each at its line, are listed in
`PROJECT.json`.

## 2. Modules

| Module | What it is |
|---|---|
| `BoardPipeline` | the detailed model: one action per statement that touches shared state |
| `BoardLifecycle` | what an admin who watches only the parse status is promised |
| `BoardRefinement` | the mapping from the first to the second |
| `MCBoard` | bounds, parser acceptance and symmetry of the TLC instances |
| `BoardProofs` | types, uniqueness, counts and the cache, for every instance; uniqueness and honest parses with the seed command at work |
| `BoardLifecycleProofs` | the refinement and what follows from it; deletions; the view counter |
| `SeedBoard`, `MCSeed` | the pipeline with the `seed_board` command next to it, and its instance |
| `Billing` | checkouts, payments, webhooks, cancellation |
| `MCBilling` | the TLC instances of `Billing` |
| `BillingProofs` | types, and what the webhook guarantees about money and access, for every instance |
| `Accounts`, `MCAccounts` | user rows, tokens, claims, reset links, and the instances |
| `AccountsProofs` | all properties of the run `accounts`, for every instance |
| `Annotations`, `MCAnnotations` | annotations and the deletion of boards, and the instance |
| `AnnotationsProofs` | all properties of the run `annotations`, for every instance |
| `Geometry` | the outline of a part as operators on integer points |
| `PartOutlines`, `MCOutlines` | the pins of one part, as they come, and the outline around them |
| `GeometryProofs` | what the operators of `Geometry` compute, for any points |
| `OutlineProofs` | all properties of the run `geometry`, for any coordinates and any number of pins |
| `ParsedBoard` | the board that a parser fills in, and what all parsers share |
| `Brd2`, `Bv`, `Landrex` | the lines of each format (`Bv`: both as text and as a database) |
| `Parsers`, `MCParsers` | detection, dispatch, and the four formats as one specification |
| `ParsersProofs` | all properties of the run `parsers`, for files of any length |

### BoardPipeline

State.  `rows` maps primary keys to rows or `None`; of a row it keeps the
content hash and extension (hence the S3 key), the admin's access setting, the
parse status, whether the counts are null, and `view_count`.  `s3` is the set of
objects, `cache` maps a hash to the parse stored under it and whether its TTL is
below the refresh threshold.  The four queues are bags, indexed by board and,
where a task retries, by the retries already made.  `web` and `worker` hold what
each thread and process is doing: a program counter, and what the handler loaded
before it went on.  `served` is a history of the 200 answers of the view
endpoint.  A file is a hash and an extension; its bytes do not matter, only
whether the parsers accept them under that extension (`Parses`).

Actions follow the handlers statement by statement:

| Handler | Actions |
|---|---|
| `AdminBoardUploadView.post` | `Upload` (duplicate check), `UploadPut`, `UploadCreate`, `Publish` |
| `AdminBoardDetailView.patch` | `Patch` (load), `PatchSave` (all columns; inserts when the row is gone) |
| `AdminBoardDetailView.delete` | `Delete` (load), `DeleteCache`, `DeleteS3`, `DeleteRow` |
| `AdminBoardReparseView.post` | `Reparse` (load, publish the invalidation), `ReparseSave`, `Publish` |
| `BoardViewEndpoint.get` | `View` (load, checks), `ViewGet`, then `ViewHit`, or `ViewRead` and `ViewSet` |
| `parse_board_task` | `StartParse`, `ParseRead`, `ParseReject` or `ParseCache` and `ParseSucceed`, `ParseFail`, `ParseRetry` |
| `refresh_board_cache` | `StartRefresh`, `RefreshRead`, `RefreshSet`, each with `RefreshRetry` |
| `record_board_view`, `invalidate_board_cache` | `RecordView`, `Invalidate` |
| Redis | `Age`, `Evict` |
| processes and broker | `WorkerDies`, `WebDies`, `Lose` |

An S3 or Redis call that may raise has a disjunct that spends one `fault`.  A
broker that refuses a message ends the handler where it is, as a death of the
process does, and is counted with the deaths.  Two calls share an action only
where this is noted at the action.

What is abstracted: names and other metadata; the 7 days of a TTL (an entry is
fresh, or below the threshold, or gone); the answer codes, except 200 of the
view endpoint; the file checks of an upload (a refused file changes nothing);
which technician asks: `View` leaves open whether a tier suffices for a
restricted board, and a technician without a subscription is answered at once
and changes nothing.  The file system storage of development
(`USE_S3 = False`) behaves like S3 here.

### BoardLifecycle and BoardRefinement

`BoardLifecycle` has two variables: the status of each board (`absent`,
`pending`, `parsing`, `success`, `failed`, `deleted`) and the set of boards an
outcome is still owed for.  A board is created once; it may be queued again; it
begins to be parsed, or gets an outcome, only while it is owed one; once
deleted it stays deleted.  The mapping reads the status from the row and takes a
board to be owed an outcome when a parse message is queued for it, a worker runs
or is about to retry its task, or a view is about to publish one.

### Billing

State.  `plans`, `subs` and `payments` are the three tables, `sessions` and
`events` are PayMongo's: the checkout sessions it opened, with the metadata the
code gave it, and the events it goes on delivering until it is answered 200.  A
session has at most one payment, so a session stands for its payment as well.
`web` holds what each thread is doing, `now` is the clock.

| Handler | Actions |
|---|---|
| `SubscribeView.post` | `Subscribe` (plan and subscription checks), `OpenCheckout` (the call to PayMongo) |
| `CancelSubscriptionView.post` | `Cancel` (load, check), `CancelSave` |
| webhook, `payment.paid` | `Deliver` (plan, clock), `Activate`, `Record`, `Acknowledge` |
| webhook, `payment.failed` | `DeliverFailed`, `Acknowledge` |
| PayMongo | `Pay`, `Decline` |
| Django admin site | `Retire`, `DeletePlan` |
| processes, time | `Stop` (a death, or a statement that raises), `Tick` |

An event may be delivered while another thread handles it, and again after an
answer that was lost.  `update_or_create` locks the row, so each of the two is
one step; nothing joins them.  Time passes at any point, also while a webhook has
read the clock and not yet written, so two webhooks may write in the opposite
order of their clocks.  The one with the earlier clock then brings the end of the
subscription forward, perhaps before the end of a payment on record.  The history
variable `slowest` is the longest a webhook has taken from its clock to its write;
`PeriodCovered` and `NeverShortened` bound what is lost by it.  Between the two a
webhook runs no more than a SELECT, but nothing in the code sets it a limit
(gunicorn's `--timeout` does not end requests of threaded workers), so the
properties do not assume one.

What is abstracted: the signature (an event that fails it changes nothing),
amounts and payment methods, `cancelled_at`, the statuses `trial` and
`past_due`, which no code writes.  Users are not deleted.  How PayMongo behaves
is taken from what the webhook reads and the answers it gives.

### SeedBoard

`SeedBoard` extends `BoardPipeline` with one process, the command
(`seed_board.py`): `SeedStart` (duplicate check, parse), `SeedPut` (the object),
`SeedSave` (a new row, or with `--force` every column of the row loaded at the
start), `SeedCache`, and `SeedDies`.  Every other step is one of the pipeline.
One command runs at a time.  With `--force` and a file of the same content under
another extension, the row keeps its file name and `s3_key`, and the object is
put under the new one.

### Accounts

State.  `rows` is the user table without admins (primary keys are user names
too), `tokens` the refresh tokens in the order of issue with their claims and
whether they are on the blacklist, `access` the claims of access tokens that have
not expired, `links` the reset links that were sent, with what Django's token
hash covers.  Passwords and the instants of `last_login` are numbers, none used
twice.  `paid` says whose subscription is active; `Billing` says how it changes,
here it may at any time.  The other variables are history that the properties
read.  `opened` says of each session whether it was right to begin it: whether the
user table, not the row the login had loaded, showed the account as not suspended,
unless the suspension was saved between the two (`overtaken`).  `meant` is the
table as it would be had each request written its own columns only; `exposed`
holds the columns that were written while some PATCH held an older row.

| Handler | Actions |
|---|---|
| `RegisterView.post` | `Register` (validation), `RegisterCreate` (insert, tokens) |
| `LoginView.post` | `Login` (`authenticate`), `LoginMint` (claims, `last_login`, the check of `is_suspended`) |
| refresh (simplejwt, settings `base.py:118-125`) | `Refresh` (blacklist check), `RefreshMint` (new tokens with the old claims, the old one blacklisted) |
| `LogoutView.post` | `Logout` |
| `MeView.patch`, `AdminUserDetailView.patch` | `Profile`, `AdminUserPatch` (load), `PatchSave` (every column) |
| `ChangePasswordView.post` | `Change`, `ChangeSave` (the column `password`) |
| password reset | `ResetRequest`, `ResetConfirm` (`check_token`), `ResetSave` |
| Billing, the clock | `PaidChanges`, `AccessExpires` |

`LetIn` is what board and annotation endpoints ask: an active row
(`JWTAuthentication`) and `HasActiveSubscription`, which reads claims only.

What is abstracted: names, phones and companies (an address stands for all that
`PATCH me/` writes); that refresh tokens and links expire by themselves; wrong
passwords, which change nothing.  Users are not deleted.

### Annotations

State.  `boards` keeps of a board whether it is disabled, `notes` the annotations
by id.  Of an annotation's contents it keeps who wrote them last.
`Post`/`PostInsert`, `Patch`/`PatchSave` and `Delete`/`DeleteRow` are load and
write of the three views, `SetStatus`/`SetStatusSave` those of the admin's PATCH of
a board, and `DeleteBoard`, `Sweep` and `Commit` the deletion.  `board.delete()`
runs in Django's own transaction: `Sweep` deletes the annotations it sees, `Commit`
the board, or rolls back when an annotation came in between.  In Postgres the rows
swept stay visible and locked meanwhile, so a writer of one waits (`Locked`).  A
thread may `Stop` at any point, and a transaction it had open is rolled back.
`save()` of a row that is gone inserts it again: of an annotation if the foreign
key allows it, of a board always, without its annotations.

All technicians here have a subscription (`Accounts`).  What the deletion of a
board does to S3 and Redis is in `BoardPipeline`.  Whose annotations are shown
(`GET`) is a query and not modelled; `PrivatePerUser` is about writing.

### Parsers

A file is its extension, the signs `detect_format` looks for, and its lines,
which the model chooses one at a time (`ReadLine`), so that TLC explores every
file up to a length.  `parts`, `pins`, `nails` and `nets` are the lists the
parsers fill; `nets` is `net_map`.  A pin keeps in `of` the part whose box it was
added to, and nets, pins and nails keep in `key` what `net_map` files them
under; the properties read both.  Ids are tuples where the code joins strings, so
the model does not see two ids whose strings happen to be equal.

* `Brd2`: one action per kind of line (`Brdout`, `Component`, `Pin`, `Nail`,
  `NetList`, `OutlineLine`), `Brd2End` for geometry, outline and dimensions.
* `Bv`: sections in any order for text (`Section`, `FileInfo`, `BvPart`,
  `BvPin`, `BvNail`, `BvEnd`); tables in the order the code exports them for
  databases (`LayoutRow`, `PinRow`, `NailRow`, `MdbEnd`).
* `Landrex`: rows are read first (`Row`), then the board is assembled pin by pin
  (`TakePin`, `FinishPart`, `TakeNail`, `LandrexEnd`) from the shares that the
  parts' end indices cut out of the pin rows.  Headers come once and in order.
* `Parsers`: detection, the registry (`fz` and `asc` are named there and do not
  exist), and failure.

Left out: the byte encodings and number formats, sides, diameters, rotations,
package types, ground and power nets, and lines that a parser skips.  A place
that cannot be read is the origin or another place the code names, which is in
`Place` anyway.

`Geometry` works with integers where the code turns by an angle and rounds: an
outline lies along an integer vector, distances are compared by their squares and
areas without dividing, so hull, brackets and the choice of the smallest
rectangle are exact.  The margin of 10 mils around a box is left out, so that no
property relies on it.  `PartOutlines` adds pins to one part and looks at its
outline after each.

## 3. Runs

Bounds: `MaxBoard` primary keys, and for each kind of request, for faults and
for deaths how many there may be (`Limit`); a run names them in `MCBoard`.  A
run ends where its requests are used up and every queue is empty, so deadlock is
not an error and is not checked.

| Run | Instance | Checks | Result |
|---|---|---|---|
| `clean` | 2 threads, 2 workers; 1 upload, 1 deletion, 1 reparse, 3 faults | `NoStranded`, `DeleteIsFinal`, `ImplementsLifecycle`, and `Recovers`, with fairness | holds, about 45 000 states |
| `views` | 2 threads, 2 workers; 1 upload, 1 deletion, 2 views, 1 fault, 1 death | `TypeOK`, `ViewsAccounted` | holds, about 11 000 states |
| `all` | 2 threads, 1 worker, 1 content under 2 extensions, one of which parses; 2 uploads, 1 PATCH, 1 deletion, 1 view, 1 death | `OneRowPerContent`, `SuccessIsCounted`, `CacheIsOwnParse` | holds, about 150 000 states |
| `seed` | 2 threads, 1 worker, 2 contents of which one parses, 2 extensions; 1 upload, 1 `seed_board`, 1 PATCH, 1 deletion, 1 fault, 1 death | `OneRowPerContent`, `SuccessWasParsed` | holds, about 800 000 states |
| `lost_object` | 2 uploads, 1 deletion | `RowHasObject` | violated |
| `webhooks` | 1 technician, 2 plans, 2 checkouts, 2 threads, a month and a moment after it, 1 stop or lost answer | `TypeOK`, `PeriodCovered`, `SubscriptionIsPaidFor`, `AcknowledgedIsRecorded`, `NeverShortened` | holds, about 2 680 000 states |
| `honoured` | the same with 1 checkout and 2 stops or lost answers | `PaidIsHonoured`, with fairness | holds, about 113 000 states |
| `accounts` | 1 technician, 2 addresses, 2 threads, 6 requests | `TypeOK`, `LetInAtLogin`, `OneTokenPerSession`, `RowsAsMeant`, `LinkIsSpent`, `LogoutIsFinal` | holds, about 1 560 000 states |
| `annotations` | 2 technicians, 1 board, 3 threads, 8 requests | `TypeOK`, `NoOrphans`, `GoneForGood`, `CascadeIsAll`, `PrivatePerUser` | holds, about 201 000 states |
| `parsers` | 2 part names, 2 places, 3 spellings of nets; 5 lines, 6 of a text `.bv`, 10 of a Landrex file | `TypeOK`, `NetsAgree`, `StaleIdsNameNothing`, `MadeUpIdsDiffer`, `PinsHaveParts`, `BoxesHoldPins`, `OutlinesHoldPins`, `PinIdsUnique`, `RowsBecomePins` | holds, about 2 090 000 states |
| `netids` | the same | `NetIdsMatch` | violated |
| `geometry` | up to 5 pins on a 3 x 3 grid (0, 20, 100 mils), passives up to 4; letters C, L, U | `HullIsConvex`, `NoSmallerRectangle`, `OutlineHoldsPins` | holds, about 81 000 states |

Why the bounds are enough to be of interest.  Two uploads of one content meet at
every point of the upload, and in `seed` an upload meets a command; an upload, a
deletion and a reparse put three handlers with stale rows next to two workers; in
`views` two threads answer and two workers count at once; three faults exhaust
exactly the retries of one message (with `ParseRetries` lowered to 2 the run
`clean` fails); two extensions of one content give two S3 keys under one hash.
What the bounds leave out (more boards, threads and requests) is covered by the
proofs: every property of a passing run is also a theorem, except the two of
liveness.  What a run leaves out on purpose: `clean` has no PATCH and no death,
which strand boards (see below), and a second upload of the same content could
take away the bytes that `Recovers` needs (`lost_object`); `all` has no reparse
and no fault, with which it would be too large, and the theorems on the same
properties do have them.

In `webhooks` the second checkout may be opened before the first is paid, or a
month later when the subscription has run out (`Month` and `MaxTime` are 1, so that
a webhook which the clock passes may write a whole month late);
either payment may be announced twice, before or after the other, and to two
threads at once.  One technician is enough because no action reads another's
rows.  Nothing forces the system to go on once all plans are deleted, so
deadlock is not checked.

In `accounts` the shortest behaviours that matter take five requests: register,
two that overlap, one in between, and one that shows it.  One technician is enough
for the tokens; that addresses are shared needs two, and no property is about it.
`MaxAsked` counts requests and changes of the subscription.  In `annotations`
three threads are what it takes to foil a deletion (the deletion, a post and a
PATCH), and eight requests let a board be deleted, inserted again and annotated
again.  In `parsers` a file of five lines has a part, two pins of one net under two
spellings, and a nail; a text `.bv` needs a line more for its section headers, a
Landrex file has headers and then rows for two parts, two pins and a nail.  In
`geometry` the distances 20, 80 and 100 and the diagonals between them fall into a
bracket, between brackets, and on both sides of the 50 and 90 mils from which
inductors and capacitors are drawn differently; the grid has collinear triples.
TLC's integers, of 32 bits, do not allow for a much larger grid: areas are
compared after multiplying them with two squares.

The violated runs are disagreements between the code and what its comments say;
each is quoted in `PROJECT.json` under `findings`:

* `lost_object`: an upload passes the duplicate check and puts its object, a
  deletion of the first upload of the same content removes the object they
  share, and the second row is inserted without bytes.
* `netids`: a Landrex net has a made-up id until a pin brings its number; pins
  recorded before keep an id that no net has (never another net's:
  `StaleIdsNameNothing`).

Other disagreements the models contain, which need no model checker to be seen
and have no run:

* PATCH of a board saves all columns of a row it loaded earlier.  When the parse
  task finishes in between, `pending` is written back over `success` with nothing
  queued, while viewers are told to check back shortly (`boards/views.py:152`); when
  the board is deleted in between, the row is inserted again, with neither bytes nor
  annotations.  (`clean` and the proofs of `NoStranded` and `DeleteIsFinal` exclude
  PATCH.)
* `seed_board --force` with a file of another extension marks the row success, but
  the row keeps its file name and `s3_key`, so a view that misses the cache reads
  another object than the one the command stored, and one that its parser may
  reject; `seed_board.py:12` says that the fallback read works.  `SuccessWasParsed`
  therefore speaks of the content and not of the file of the row.
* A death or an error between the removal of the S3 object and the deletion of the
  row leaves a row without bytes; so does an annotation that foils the deletion.
* A worker that is killed leaves its board parsing, as its message is acknowledged.
* A thread that dies, or whose message the broker refuses, between INSERT and
  publication leaves a pending board that nothing will parse.
* A failure the parser reports is not retried (`tasks.py:44` says it is);
  exceptions are.
* The permission decides by the claims of the token, which are those of the login
  however often it is refreshed, so a technician suspended later is let in
  (`LetInAtLogin` says what holds); `accounts/models.py:30` says suspended users
  cannot access any features, and `permissions.py:63` that they are handled before
  this check.
* A suspension saved between a login's load of the row and its tokens is not seen by
  that login, neither in the claims nor by the 403 (`overtaken`).
* A cancelled subscription is not active, although its period runs on and the
  answer says that access does.  Two checkouts opened before either is paid are
  both paid, and the second period does not extend the first, as
  `billing/views.py:189` says, but overlaps it.
* Pin ids join two names in BRD2, `.bv` and database files, so a file that names
  one pin of a part twice gives two pins with one id, though `parsers/models.py:37`
  says ids are unique; in Landrex files they count (`PinIdsUnique`).
* In a BRD file no part's box ever grows (`brd2.py:281` returns as long as it is a
  point, although its docstring says the box includes the pin); in a database it
  moves to the pin instead of growing once.
* A Landrex part whose end index is smaller than the one before takes no row and
  lets the next begin earlier; `RowsBecomePins` is about ends that do not decrease.
* The outline of a passive with three pins is drawn from the first and the last
  of them and need not hold the one in the middle.

### Fairness

`FairSpec` assumes weak fairness of each thread's `WebStep` and of each worker's
`WorkerStep`: a thread that is running a request goes on with it, and a worker
process takes a message or goes on with its task.  gunicorn and Celery do this
as long as the processes run, and no more is assumed: not that requests come,
not that a given message is served before others.  The latter is not needed,
since every run publishes finitely many messages.  Faults are bounded by
`Limit`; this is needed for `Recovers` to hold at all, since the code gives up
after three retries.

`Billing` assumes weak fairness of each thread's steps, as above, and strong
fairness of the delivery of each event: PayMongo tries again until it is answered
200, and a thread becomes free again and again.  Stops and lost answers are
bounded by `MaxTrouble`; without a bound every answer could be lost.

## 4. Proofs

All hold for every set of contents, extensions, threads and workers and every
bound, from the three assumptions of `BoardPipeline`: the bounds are naturals,
`Parses` is a set of files, and `None` is no row, file or entry.

`BoardProofs`: `TypeInv` adds to `TypeOK` what the program counters imply (a
thread about to publish holds the key of a board that exists or existed, a
worker that reads holds a file, a PATCH holds a row) and that keys not yet handed
out have no row, no recorded and no served view.  One lemma per action shows it
inductive.  On top of it, `SafeInv` strengthens three invariants so that each is
inductive.

* `UniqueContent`: besides the rows, a PATCH's image must agree on the content
  with the row it was loaded from while that exists.
* `CountsWithSuccess`: a PATCH's image with status `success` has counts.  It then
  does not matter how stale the image is.
* `CacheSound`: a thread about to fill the cache, and a worker about to, hold a
  file the parsers accept; these are the only fillers.

`BoardLifecycleProofs`: under `Undisturbed`, which says that there is no PATCH
and no death (`Limit` is 0 for both), `CleanInv` adds that no thread is in a
PATCH and that no parse is queued for a key not handed out.  Each action is then
a step of the lifecycle or a stutter:

* `Implements`: the pipeline implements `BoardLifecycle`;
* `NothingStranded` follows from the lifecycle's steps.

`ViewsCounted` and `DeletionIsFinal` need `NoPatches` only, and so also hold when
threads and workers die.  `ViewsCounted` is inductive: each step changes
`view_count`, the queue and the history together, or spends the fault or the death
that keeps them apart.  Deletions are final because the task's and the reparse's
saves name their fields or look at the row first, and an upload takes a key that
was never handed out.  No assumption can be dropped: PATCH breaks all four
properties and a death the first two, as described above.

`BoardProofs` ends with `SeedSpec`, the pipeline with the command next to it.
`SafeInv` is kept by the command's steps too, which gives
`UniqueContentWithSeeds`.  `SuccessAlwaysParsed` needs more, because a row
says `success` for a file that a task, a PATCH or the command had loaded earlier.
`OneFile` says that all who hold a board, in its row, a task, a PATCH's image or
the command, hold the same file for it: a step makes someone a holder of a board
only if someone was before, or if the key is new.  With it, what the holders know
carries over to the row: a task about to succeed (`JobsParse`) and the command
(`SeedHolds`) hold a file the parsers accept, and a PATCH that holds `success`
(`PatchesParse`) one whose content some parser accepts.

`BillingProofs` holds for all sets of technicians, plans, checkouts and threads,
any length of a month and any bounds.  `TypeInv` says what a thread holds at each
point of a handler.  `SafetyInv` adds what a webhook knows between its clock and
its answer: the money was taken and its event not forgotten, unless it is on
record or its plan is gone (`Justified`); when it records the payment, the
subscription already covers it (`Extended`); when it answers, the payment is on
record or its plan is gone (`Finished`).  With `WithinMonth` (no subscription ends
more than a month from now) a write can bring the end forward by no more than the
time since its webhook read the clock, which gives `PeriodsHardlyShrink` and, as
`slowest` is no less, `PeriodIsCovered`; with `Protected` (no plan in use is
deleted) a payment behind a subscription is never the one that was given up, which
gives `SubscriptionsArePaidFor`.  `NothingForgotten` follows from `Finished`.

`AccountsProofs` holds for all sets of technicians, addresses and threads and any
number of requests.  `Base` has the types, what a thread holds at each point of
a request (`Holding`: its row, token or link exists, and rows, tokens and links
stay), that `meant` has a row just where `rows` has one (`Known`), and that no
password is newer than the last stamp (`Aged`).  On top of it:

* `ClaimsTrue`: claims that let somebody in belong to a session it was right to
  begin.  Refreshing copies them; when they are made, the subscription is looked up,
  and the row at hand agrees with the table about a suspension unless the login was
  overtaken (`Overtaken`).  `LetInFromLogin` follows.
* `Noted`: when a token is refreshed twice at once, or blacklisted while it is
  being refreshed, its session is in `forked`.  With it `RotationIsLinear` is
  inductive, and `LogoutHolds` follows: to mint into an ended session is to
  refresh a token that was blacklisted after its check.
* `Staleness`: in the columns it does not set, the row a PATCH holds is that of the
  table, but for columns that are `exposed`, which grows with every write under a
  PATCH, whatever the PATCH does later.  With it `WritesAreMeant` is inductive: a
  write of one column changes `rows` and `meant` alike, and that of a whole row leaves
  the other columns as they are or meets an exposed one.
* `Spent`: a link that was used is older than its user's password, which only
  `PatchSave` can bring back, and then it is exposed.  Hence it is not good again
  (`LinksAreSpent`).

`AnnotationsProofs` holds for all sets of technicians, boards and threads.  Its
invariant has what a thread holds (`Holding`); that what a thread holds of an
annotation agrees with its row, as long as that exists (`AgreesWithRow`), and with
what other threads hold (`AgreesWithOthers`); that an annotation deleted while a
PATCH holds it is noted in `raced` (`Noticed`), which makes `GoneForGood`
inductive; and that every contents is its owner's (`Authored`).  `NoOrphans` is
inductive because `Commit` deletes a board only if everything on it was swept,
and because inserts ask for the board.  `CascadeIsWhole` rests on `Swept`: what a
transaction has swept are annotations of its own board that are still there, and no
two transactions have swept the same one.

`ParsersProofs` holds for all sets of names, nets and places, and for files of any
length.  One classification carries it (`EveryStepConnects`): a step of any parser
leaves pins, nails and nets alone, or adds one pin, or one nail, and then its net
lists it too and no other net changes.  Likewise no step takes a part away or
renames one (`EveryStepKeepsParts`).  What is inductive beyond the properties:

* `CountedIds`: an id made up for a Landrex net counts nets that were there before,
  and nets only become more; hence a new one is new (`MadeUpIdsAlwaysDiffer`).
  `CountedPins` says the same of pins (`PinIdsAlwaysUnique`).
* `KeptIds` says it of the ids that pins have kept: such an id is that of the pin's
  own net or of none, and no net made later gets it (`StaleIdsNameNoNet`).  Nails
  come when all pins are there (`NailsLast`), after which no id changes.
* `PinsHome` and `PartsAreRows`: a pin of a Landrex file is one of its row's part,
  even before that part is on the board; with them `PinsAlwaysHaveParts`.

A second induction, `Built`, is about what is assembled from the lists:

* `BoxesTyped` and `SizeTyped` complete the types (`BoardsAlwaysTyped`); they rest
  on the least and greatest of finitely many integers existing.
* `EveryStepHolds` classifies what a step does to boxes: none changes, a part comes
  whose box holds the pins it brings along, or a pin comes and its part's box grows
  by it.  So the boxes hold their pins (`BoxesAlwaysHoldPins`).
* `InShares`: while a Landrex file is assembled, the pins made so far are the rows
  of the finished parts' shares and those taken of the current one, in order,
  provided that the shares' ends do not decrease.  At the end that is all rows
  (`RowsAlwaysBecomePins`).
* `DrawnIs`: what was drawn at the end is the geometry of each part's positions;
  with `PartGeometryHolds` of `GeometryProofs`, `OutlinesAlwaysHoldPins`.

`GeometryProofs` and `OutlineProofs` hold for any set of integer coordinates, any
bound on the pins, and any letters.  `Induction` and `Recursion` are stated over
sets and functions, where the prover can apply them: a loop whose rounds stay in a
set has a value for each round, which is what unfolds `Chain` and `MultiPin`.  On
this rest `SortedIs` (sorting loses no point and repeats none), `ChainSteps` and
`HullIn`, `MultiPinIs`, and `RectangleHolds`, `StripHolds` and `PartGeometryHolds`,
which give `OutlineAlwaysHoldsPins`.

`HullAlwaysConvex` is the correctness of the monotone chain.  All vectors between
points that are passed in order lie in one half plane, where turning left is
transitive (`HalfPlane`, `Fan`).  `Chained`, the invariant of a pass, says that the
chain runs from the first point to the current one in order, turns left at every
inner vertex, and leaves no point passed so far to the right of an edge; popping
keeps it.  The two passes are halves of a polygon (`Half`, `HullHalves`), which
turns left also where they meet (`JointTurns`) unless all points lie on a line; in
any case both passes keep the first and the last point (`HasEnds`).

`OutlineAlwaysSmallest` is the argument of the rotating calipers, in integers:

* `Supports`: the four points that hold the rectangle along a vector give its area
  (`AreaIs`).  The directions in which the same four hold it are those no gap
  between a holding point and another one points against (`GapsSupport`).
* If a gap is closed, two points lie on one side of the rectangle, and the hull has
  an edge along it (`ClosedGap`, `FlushWithEdge`, from the halves of the hull).
* Otherwise the outermost gaps to the left and to the right (`Outermost`) give two
  directions, one on each side, in which a gap closes and the same points still
  hold.  Between two such directions the area is not less than the lesser of the
  two (`BetweenIsNotSmaller`); this is where the inequality of the arithmetic and
  the geometric mean enters, as a difference of squares (`MixedIsLarge`).
* Hence an edge's rectangle is not larger than that along any vector (`Calipers`),
  and `MultiPin` takes the first of the smallest among the edges
  (`ChosenIsSmallest`), shortened to whole headings, which changes no area
  (`HeadingIs`, `AlignedAreas`).

Only model-checked: `Recovers` and `PaidIsHonoured`; liveness under fairness is
beyond the prover.

## 5. Not modelled, and what could follow

* Lists, details and analytics (`apps/boards/views.py`, `apps/admin_panel`):
  queries that change nothing and whose results are the rows of the modules above.
* The Landrex byte encoding and number formats, `_geometric_rotation` and
  `_infer_part_type`, sides and package types: pure conversions of one value,
  which unit tests reach.
* Which tier may view a restricted board: a comparison of two constants.
* Settings, Docker, CI, the Django admin site except for plans, routing, email,
  throttling: configuration and third-party machinery.

What could follow: `Accounts` composed with `Billing`, which would replace
`PaidChanges` by the steps of a subscription.
