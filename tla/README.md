# Finance Tracker: TLA+ models, checks and proofs

Finance Tracker is a set of Python services that own one PostgreSQL database
each and talk through RabbitMQ: every service writes its events to an outbox
table in the transaction that changes its data, a publisher sends them, and the
consumers of the other services apply them. The one long-running business
process, a bank sync, is a saga driven by `saga-service`. This directory models
the parts in which that architecture can go wrong, checks them with TLC on small
instances and proves with TLAPS every safety invariant and every action property
that a passing run checks.

Paths below are relative to `src/services/` unless they start otherwise.

## 1. Inventory

| Component | State it keeps | Operations | What makes it correct |
|---|---|---|---|
| **saga orchestrator** `saga-service/app/application/orchestrator.py`, `workers/` | `saga_instances`, `saga_step_log`, its outbox | `start_saga`, `handle_reply`, `handle_compensation_reply`, `check_timeouts` | step log and row agree; nothing is done or undone without a participant's word; a failed saga has undone what it could; terminal rows stay; every saga ends |
| **in-flight claim** `banking-service/app/application/service.py` | the claim columns of a connection | `start_sync_saga`, scheduler sweep, `mark_sync_complete` | a running saga keeps its claim; one completion event per saga; a user's sync is reported as the user's |
| **connect / disconnect** `banking-service` | pending authorizations, connections | `start_connect`, `complete_connect`, `disconnect` | a connection lands on the account its user left with; an authorization stores a bank account once |
| **bank import, CSV** `transaction-service`, `banking-service/.../enable_banking` | `transactions` (soft-deleted), outbox | fetch, `bulk_import`, `import_csv`, `delete_transaction`, rollback | no transaction twice, none missing; one deletion event per row; a rollback removes its own rows and all of them |
| **transactions** `transaction-service` | `transactions`, taxonomy copy, inbox | create, edit, delete, `CategorizedConsumer`, taxonomy sync | a user's category stays; what the pipeline stores is a pair that belongs together; the copy follows the master |
| **categorization** `categorization-service` | taxonomy, rules, cached engines, inbox | taxonomy and rule CRUD, categorise, learn from a correction | the learned rule decides; no rule points nowhere |
| **taxonomy upgrade and reclassification** migrations 008 and 009, `*/reclassification.py`, `src/scripts/` | ledger of ids, reports, manifests, approval | install, bootstrap, repair, scan, aggregate, approve, apply | one id per key everywhere; nothing written that was not approved |
| **outbox** `shared/messaging/messaging/outbox.py`, `worker.py` | `outbox_events` | `add`, `fetch_pending`, `_try_publish`, `record_failure`, `purge_published` | nothing marked unsent, nothing forgotten, no double sends without a fault |
| **consumer base, account projection** `shared/messaging/messaging/consumer.py`, `banking-service/app/consumers/` | queue, retry header, dead-letter queue, `processed_events` | `_on_message`, `_republish`, `handle` | no message lost, effects once, poison leaves the queue |
| **budget** `budget-service` | monthly budgets, lines, `closed_at` | budget CRUD, `close_month`, close and alert workers | a month is closed once, and when it is due, and credits what was really left of it |
| **goal** `goal-service` | goals, allocation history, unallocated surplus | goal CRUD, `BudgetMonthClosedHandler` | a surplus is placed once, no credit is lost |
| **notification** `notification-service` | notifications by `source_key` | five event handlers, feed requests | one notification and one mail per occasion; what is dismissed stays gone |
| **analytics, write side** `analytics-service` | Elasticsearch documents with timestamps, vectors | projections, guarded upserts, embedding worker, backfill, reconciliation | the newest event wins in any order of delivery; vectors follow |
| **analytics, read side; budget periods; gateway** | none | queries, calendar, resolvers | every answer agrees with the others; paging shows all once |
| **user, account** `user-service`, `account-service` | users, accounts, groups | registration, login, profile, account CRUD, default account on `user.created` | identities stay distinct, everyone gets one default account |
| **ai, frontend, health job, deployment** | none | views, calls to a model | stateless |

How they interact. `start_sync_saga` puts `saga.bank_sync.start` into banking's
outbox; the saga start consumer creates the saga and writes the first command to
saga-service's outbox; banking fetches, transaction-service imports, banking
marks the sync complete, each answering on `saga.reply.*`; the reply consumer
advances the saga or turns it back (`saga.cmd.rollback_import`); banking asks
saga-service over REST whether the saga that holds a claim still runs.
`transaction.created` leads to `transaction.categorized` and back; a correction
teaches categorization-service a rule. `budget.month_closed` moves a surplus to
goal-service. `user.created` opens an account. Analytics and notifications
listen to everything. All queues are at-least-once, and unordered as soon as a
retry or a second consumer is involved.

The hard behaviours: replies that are late, repeated or contradict each other;
the timeout sweep racing them; commands redelivered while their first delivery
still runs; the claim changing between four separate statements; rows read
without a lock and written at commit; checks long before the insert they guard;
caches of rules; crashes between publish, commit and acknowledge; retries that
reorder; tools run by hand on files that a later run rewrites. `PROJECT.json`
lists them as hazards, each at its line.

## 2. Modules

| Module | Models | State ↔ code |
|---|---|---|
| `SagaOrchestrator` | engine and its three workers | `saga[s]` is the row with step log and outbox rows, written in one transaction; `replies` every reply ever published, delivered late, again or never; `sweeping/scan/locked/draft` the open transaction of `check_timeouts` |
| `SagaPromise` | abstract specification | per saga a phase, the steps whose work stands and those owing an undo; `KeepsPromise` is the refinement |
| `SyncClaim` | claim of one connection | one request per caller, its `pc` between the statements of `start_sync_saga`; `handler` what a running `mark_sync_complete` has read; `lapsed`, `wiped` are histories |
| `ImportSources` | what an import is given | pure operators: the three CSV dialects, the refusals of an upload, a bank's pages; a cell is how it is written and what it means |
| `SyncImport` | import, rollback, upload and delete on one account | a worker runs a job in steps, one per transaction; commands stay queued until acknowledged |
| `Outbox` | table and publishers | `row` committed, `draft` as updated by the transaction holding the lock, `copies` what the broker took, `strays` copies whose mark was lost |
| `EventConsumer` | `ConsumerBase` around the account projection | FIFO queue, one `at` per running delivery, `orphan` when its channel is gone |
| `Platform` | what composed services share | `bus`, a set: delivered at any time, any number of times; bounds on requests and faults |
| `MonthlyBudget`, `GoalSavings` → `MonthClose` | budget-service, goal-service and their composition | tables as functions of ids; `closing[c]` the `close_month` call of the button or the scheduler, `handling` a delivery between read and commit |
| `Notification` | notification-service | `notices` the table, `noticing` a delivery between check, commit and mail |
| `Taxonomy` ⊂ `Rules` ⊂ `Ledger` → `Categorization` | taxonomy and its read copy; rules and engines; transactions; their composition | `log/queue` the taxonomy's events in order; `engine/overlay` the caches of two processes; `editing/categorizing` open sessions with the columns they read |
| `Projections` | analytics write side, and the rows it is reconciled with | a queue is a set of messages with a retry count; `working` a handler between two awaits, or between the copy it republished and the acknowledgement; `docs/store` the indices; `rows` the category side of transaction-service's rows; `crossed` is a history |
| `Users` ⊂ `Accounts` ⊂ `BankConnect`; `BudgetPeriod`, `Reports` ⊂ `Gateway` → `Dashboard` | sign-up, accounts, bank connections, calendar, queries, resolvers; their composition | `serving/opening/returning` calls between a check and its write; a query is a function of `docs` |
| `TaxonomyUpgrade` ⊂ `Reclassification` | migrations, bootstrap, repair; scans, aggregation, approval, application | `table/ledger/outbox/copy`; `reports/manifests/approval` are the files, `applying` an open transaction |
| `MC*` | values of the constants for TLC | |
| `*Proofs` | theorems | extend the modules they are about and TLAPS; nothing else depends on them |
| `Sums` | none of the code: lemmas about the community module's `MapThenSumSet` | what `BudgetNoticeProofs` and `DashboardProofs` need to add amounts up |

⊂ reads "is extended by", → "are composed in".

One action is one database transaction, one call to the broker or one stretch
between two awaits. Between two of them anything else may happen; inside one
nothing does, because of a row lock or because it is a single statement. Data is
reduced to what the properties tell apart: a saga's context to the steps that
have something to undo, a description to the patterns in it, a hash to what it
hashes, an event to its key. `0`, `None` or `Null` stand for NULL. A composition
says nothing new about its parts: their actions are conjoined with UNCHANGED of
the others' variables. Mutated variants of a definition stand directly before it
and are used only to show that a property can fail.

Abstractions worth knowing. `Platform` makes an outbox row and its publication
one step, and delivery anything that is at least once: `Outbox` and
`EventConsumer` are about how the messaging library earns that. `error_detail`
is reduced to whether it holds the re-emit marker, because the code searches for
that text. Bank tokens, HTTP errors other than a refusal, rounding, balances,
labels, consent dates and Elasticsearch's analysis and ranking are left out or
parameters. Events have timestamps of their own, where the code keeps
milliseconds and lets the last delivery win a tie
(`analytics-service/app/application/projections.py:40`). The users' requests of
`TaxonomyUpgrade` create, rename and delete categories and create and rename
leaves; moving a leaf and deleting one are in `Taxonomy` only. Counts that
migrations and tools check (13, 67, 82, 80) are those of the instance's own
definitions. The `InboxDeduplicator` hook of the consumer base is left out: no
service passes one. Machine-learning and language-model tiers of the
categoriser are not wired in.

## 3. Runs

Every run ends within five minutes with two workers. Deadlock checking is off
because each instance bounds its environment (replies, requests, job runs,
faults) and may come to rest.

| Run | Instance | States | Shows |
|---|---|---|---|
| `saga_orchestrator` | 1 saga, 4 steps, two compensatable with a plain one between, all replies possible | 61 181 | `StepLogAgrees`, `BackedByReplies`, `CommandsEmittedOnce`, `NoWorkLeftBehind`, `TerminalIsFinal`, refinement `KeepsPromise`, and `EventuallyTerminal` if nobody ever answers |
| `sync_claim` | 2 users, the scheduler, 2 concurrent deliveries, the TTL can pass once | 1 088 157 | `OneEventPerSaga`, `OwnManualHeard`, `ClaimHeldInFlight` |
| `sync_import` | 1 saga, 2 handlers at once, 3 job runs, 1 retry | 478 136 | `DeletedOnce`, `AcceptedRunUndone` |
| `sync_import_sequential` | 2 overlapping syncs in chunks of 2, 1 handler, 4 job runs | 1 880 806 | `RollsBackOwnRows`; `EachOnce`: no transaction twice across syncs and files, and none that a completed sync fetched is missing |
| `outbox` | 3 entries, 2 publishers, batches of 2, 2 faults | 184 978 | `CopiesAccounted`, `EventuallySent` |
| `event_consumer` | 2 events (one unreadable), 2 copies each, 2 handlers, 3 faults | 153 800 | `NothingLost`, `AppliedOnce`, `EventuallySettled` |
| `month_close` | 3 months, the first of which can never be fetched and comes first in every sweep, start days 1 and 2, 2 goals, 2 requests, 1 fault | 232 746 | `ClosedIffAnnounced`, `SurplusPlacedOnce`, `CreditsAddUp`, `SurplusWasLeft`, `DueMonthsClose` |
| `notification` | 7 events on 2 accounts, 2 handlers, 2 requests, 1 fault | 334 732 | `NotifiedOnce`, `GoneStaysGone` |
| `categorization` | 1 transaction, 3 ids of each kind, requests may send 3 pairs, one of them of parts that do not belong together, 3 requests, 2 taxonomy edits, 1 fault | 998 208 | `CopyFollowsMaster`, `PairsBelong`, `LearnedRuleWins`, `ManualKept` |
| `projections` | one document of each kind, 3 events, at most 2 of them not of transactions, 1 disturbance, 1 retry | 1 463 228 | `NewestWins`, `Reconciles`, `VectorFollows` |
| `dashboard` | 2 users, 4 account ids, 2 authorizations, 2 callbacks, 2 deliveries, 3 requests, 1 fault | 28 508 | `FoundByOneName`, `ConnectedAsAsked`, `ReportsAgree`, `SearchesCover`, `EveryoneGetsAccount` |
| `reclassification` | 6 references in 3 services, 1 request, 3 installs, 4 scans, 7 operations | 463 104 | `OnlyApprovedWritten`, `IdentitiesAgree` |

Why the bounds are enough. A saga row's handlers look at one saga only; sagas
meet only in the timeout sweep, and the theorems of section 5 hold for any
number of them. Three requests are needed for a holder, a thief and a loser of
the second claim. Two handlers are what one queue and one lost connection
produce; three job runs are import, redelivery and rollback, four leave room for
a second sync between a deletion and a late rollback. Payloads have an item with
an id, a look-alike with another id and one without, in the same chunk as the
first and in a later one; files have each dialect and each refusal. Two faults
allow a lost mark and a failed republish of one outbox entry, or a dead entry.
One overlap needs two sessions, so one fault and two or three requests reach
each race of `month_close`, `notification`, `categorization` and `dashboard`: a
close against an edit, a delivery against its redelivery, a categorisation
against a correction, a registration against a rename. The month that can never
be fetched stands for every row that one sweep meets before the others and
cannot close. Three events of one transaction are the least in which the middle
one arrives last. Four scans are three reports and one that is repeated after
they were aggregated. The reclassification instance resolves no row by evidence
from the engine: that branch is in the model, and only its unresolved side is
reached; a larger instance does not end in the time above.

Fairness. `saga_orchestrator`: the timeout worker is a `while True` loop, time
passes, and from some point on its sweeps do not crash; participants, broker and
reply consumer are not assumed to do anything. `outbox`: `run_forever` polls for
ever and survives exceptions, hence strong fairness of a worker's fetch (another
worker may take the row in between) and weak fairness of finishing a batch.
`event_consumer`: a running handler takes its next step and an idle one receives
what is queued. `month_close`: the close worker's loop sweeps again, and each of
its calls ends; nothing is assumed of users. `dashboard`: the consumer of
`user.created` goes on handling. Faults are finitely many in each.

### Where a property stops

Some properties name an exception. Each is a behaviour of the code, met while
modelling:

* `ClaimHeldInFlight` (`lapsed`, `wiped`): the TTL hands the claim of a saga that
  still runs to a second one; and `mark_sync_complete` reads the owner without a
  lock and clears by id (`banking-service/app/workers/saga_command_consumer.py:359`
  says only our own claim is cleared), so a claim stolen in between is wiped.
  The loser of a second race may get its own id, of a saga that never started,
  where `service.py:297` promises the winner's.
* `EachOnce` is checked with one handler: lookup and insert are separate, so
  overlapping deliveries both insert an item without external id
  (`transaction-service/app/workers/saga_command_consumer.py:123`). Within one
  payload it lets two look-alikes through of which one has an external id:
  `bulk_import` keeps the ids and the fuzzy keys of a batch in two sets
  (`transaction-service/app/application/service.py:477`), so such a pair is one
  transaction across two imports and two transactions in one chunk.
  `AcceptedRunUndone` speaks of the accepted run: an import that times out, or
  whose redelivery answered with no ids, leaves its rows ("rollback on failure",
  `saga-service/README.md:3`).
* `AppliedOnce` says nothing of order: a retried older event overwrites a newer
  name in the account projection, which is unguarded.
* `CreditsAddUp` and `SurplusPlacedOnce` are checked with one goal handler: with
  two overlapping deliveries and a changed default goal in between, a surplus is
  credited twice; a goal deleted after the handler read it is still credited.
* `DueMonthsClose` excepts the month whose expenses never come (`Failing`): it
  stays open, and tried again, as it must. The scheduler sorts rows of all
  accounts by month; the model has one account, and the failing month is what
  another account's row would be.
* `SurplusWasLeft` is about closes. A summary answers without expenses when
  analytics-service is unavailable (`monthly_budget_service.py:100-104`,
  `test_get_summary_degrades_gracefully`), and the gateway asks with the account's
  start day where the scheduled close takes day 1
  (`month_close_scheduler.py:80-85`), so what a user was shown and what is
  credited may differ; reading changes nothing and is not modelled. In the model
  expenses are only added, so what was fetched lies between what was spent at
  the start of the call and at its end.
* `PairsBelong` excepts a pair the caller sent. `POST /transactions`
  (`transaction-service/app/application/service.py:71-135`) and the bulk route
  (`service.py:490-545`) store whatever category, subcategory and tier they are
  given, also two that do not belong together; the property says that no other
  foreign pair arises, and that a row keeps the sent one or gets one that
  belongs together. "none" stands for the tier "fallback" as well.
* `CopyFollowsMaster` (`disturbed`): a failed taxonomy event re-queued behind a
  later one can leave the read copy stale.
* `ManualKept` (`overlapped`): `categorized_consumer.py` reads the tier without a
  lock; a choice committed between read and write is overwritten, in part even.
  The category typed in when a transaction is created is not pinned as manual,
  so the pipeline replaces it, although `service.py:83` says it always wins.
* `LearnedRuleWins`: rules name their subcategory by name; where two categories
  have one of that name, the other one may be chosen. A pattern is learned from
  the description without its numbers, so it need not occur in the very text it
  was learned from, and of two learned patterns in a text the first decides
  (`Applies`).
* `NewestWins` compares the core fields and the category each by its own
  timestamp. `Reconciles` is about all the facts the tool compares, but for the
  category of a transaction in `crossed`: one of its edits and its
  categorisation overtook one another, at transaction-service
  (`categorized_consumer.py:172` keeps a manual choice there, while the index
  shows the automatic category) or at analytics-service, where the
  categorisation's script compares with its own timestamp only: delivered after
  a newer manual edit it overwrites the category the user chose. That is the
  difference the tool would report, and not what
  `docs/adr/0004-analytics-elasticsearch-read-store.md:75-76` says, that the two
  streams of events may arrive in any order without clobbering each other.
* `VectorFollows` (`behind`): a change that does not move `updated_at` forward, a
  rename for one, is never embedded again. The worker's retry goes to the topic
  exchange and so to every queue on the topic.
* `FoundByOneName`, `EveryoneGetsAccount`: two deliveries of `user.created` with a
  rename between them open two accounts; whoever opens an account first gets no
  default one, and the gateway then finds none without a header.
* `ConnectedAsAsked`: two authorizations that return at once store a bank account
  twice, after which reconnecting it fails; a state is consumed before anything
  is stored, so a failure in between costs the user another authorization.
* `ReportsAgree` holds within one request: the gateway falls back on start day 1
  when account-service does not answer, and the next request may use another. It
  speaks of months with no more categories than a breakdown has buckets
  (`BreakdownSize`, 200 in `query_store.py:177`): beyond that the breakdown is cut
  off, what it leaves out differs from month to month, and the answers do
  disagree. The lists are asked for with as many rows as there are documents, so
  that none is cut off; for merchants and transactions that is only possible up
  to the 100 and 500 rows their routes allow. Merchants add up to the expenses
  whose description the index keeps as a keyword, at most 256 characters
  (`mappings.py:60`).
* `IdentitiesAgree` (`reinstalled`): a downgrade after publication followed by an
  installation with other ids reuses the correlation ids, so the copy keeps the
  old ones. A row of the read copy may also have no key where the owner's has one:
  `_apply_identity` (`transaction-service/app/workers/taxonomy_sync_consumer.py:184`)
  is to erase no identity "on a late legacy event", but sets every field the
  payload names, and the version 2 event of a user's edit names them all as null.
  `OnlyApprovedWritten`: an edit committed between the tool's read and
  its write is overwritten; a legacy parent without a leaf stops the whole
  manifest.
* `ImportSources`: the fuzzy key has no sign, so a refund equal to a purchase of
  the same day and text is taken for a duplicate in imports without ids; a line
  too short for a required cell fails the whole file.

## 4. What a reader may rely on

The runs say, for every interleaving of the instance: the engine keeps its rows
consistent and ends every saga; a bank sync is announced once; deleting is
exactly-once; imports lose and repeat nothing as long as deliveries do not
overlap; outbox and consumer neither lose an event nor apply one twice; a month's
surplus is announced and placed once and the sums add up; an occasion is notified
once; read models converge on the newest events; a user's pinned category stays
unless two sessions overlap; answers of the dashboard agree; and the
reclassification writes only what was approved.

## 5. Proofs

All proofs are for arbitrary constants (any number of sagas, steps, requests,
deliveries, entries, workers, batch sizes, retries; any payloads, any date and
start day), from the named assumptions in the modules only. What those assume
beyond numbers being numbers: `ItemsAssumption` (what a fetch and a parser
return are sequences), `StoredAssumption` and `StoredGoalsAssumption` (the rows
the month close starts from are rows of their tables), `StoredUsersAssumption`
and `StoredAccountsAssumption` (the rows of users and accounts satisfy their
unique indexes to start with; a start day is within 1 to 28, to which the entity
clamps it whenever it is read or written), `DocumentsAssumption` (the index starts
with finitely many documents, one per transaction and of accounts that exist),
`AccountAssumption`, `UserAssumption` and `LedgerAssumption` (serial ids start at
1), `TaxonomyAssumption` (the seeded rows are tables), `RulesAssumption` (the
priorities of a user's rules are below that of a learned one),
`UpgradeAssumption` (the target taxonomy is a tree with keys of its own, legacy
rows have no key, and the fixed ids lie below the sequences) and
`MappingAssumption` (a mapping file passed the validation it is loaded with),
`EventsAssumption` (the notification queue carries the event types it is bound
to). TLC evaluates each on the instances of the runs. Where a property holds
with one handler at a time only, the theorem says so as a hypothesis, `OneWorker`
or `OneHandler`; section 3 says what two of them do.

* `SagaOrchestratorProofs`: `Invariance` (`Spec => []IInv`) and from it
  `TypeCorrect`, `StepLogSound`, `EmissionBounded` and the action property
  `TerminalStays`. `StepLogAgrees` is not inductive: a compensation reply moves
  `current_step` to the next step with something to undo, so the invariant must
  also say which compensations were sent (`RowEmission`), that none was sent
  below `current_step` (`RowProgress`), and that what a sweep has staged for a
  locked row is the committed row or its stale-handling (`SweepInv`), without
  which its commit could write anything. The lemmas follow the functions of the
  orchestrator: each keeps `RowInv`, and each action applies one of them.
  `RepliesBackRows` and `NothingLeftBehind` add what a row owes to the replies
  that were ever published; as replies only accumulate, a sweep that commits an
  older reading of a row is still backed. `EngineKeepsPromise` is the refinement
  of `SagaPromise`: each action maps to an abstract step of one saga or of the
  set a sweep had staged, or to a stutter.
* `SyncProofs`, claim: `ClaimInvariance` and from it `OneEvent`, `ManualReported`,
  `ClaimHeld`. The strengthening says that a call which has not returned has
  started no saga, that only a saga known to be terminal is stolen from (status
  is stable once terminal, so the stale answer is still true), that inbox row
  and event are one fact, and that claim and handlers say manual of a user's
  own saga.
* `SyncProofs`, import: `SyncInvariance` and from it `DeletionAnnouncedOnce`,
  `RollbackSparesOthers`, `RollbackComplete` and `NothingSkipped`, for any number
  of handlers at once. `AcceptedRunUndone` needs the most: an import has in
  `made` every row of its run, so the ids a reply carries are `Whole`, all the
  rows of some run; the run must also be over (`Settled`), or a later chunk could
  add a row behind the saga's back; and a rollback has deleted whatever it need
  not try again and did not fail on. That each item is covered goes chunk by
  chunk: one that the seen-sets drop shares its key with the first of its kind in
  the batch (a least element of a set of positions), which is inserted.
  `ImportedOnce` is `EachOnce` under `OneWorker`; its invariant `FreshNow`, that a
  batch to be inserted is still what a lookup would return now, is what a second
  handler breaks.
* `DeliveryProofs`, outbox: `CopiesKept`. `CopiesAccounted` needs that a locked
  row is still the pending row its holder read (`LockedUnchanged`); that is what
  FOR UPDATE until the commit buys.
* `EventConsumerProofs`: `EffectOnce` and `NoEventLost`. `NothingLost` needs to
  know who still has to work on an event (`Held`): its copies in the queue and
  the deliveries on a live channel, but not one that has republished its copy
  already; `AppliedOnce` that a delivery on its way to the acknowledgement has its
  inbox row; and the retry header never exceeds the exceptions that were raised.
* `BudgetNoticeProofs`, month close: `CloseAnnouncedOnce` from `BudgetInv` (a row
  is closed or deleted exactly if a close of it may have been announced, and a
  month has one live budget); `NoFictitiousSurplus` from it and `CallsHonest`
  (what a call has fetched lies between what was spent when it began and what is
  spent by now); `SurplusOnce` and
  `CreditsKept` from `GoalInv`, under `OneHandler`: the goal a delivery has read
  differs from the row by a user's edit only, and an unedited goal holds the sum
  of its history. The sums rest on the lemmas of `Sums` (adding a term,
  splitting a sum in two, grouping it, renaming what is summed over), proved by
  induction over sets of subsets rather than with the library's induction
  theorems, whose operator parameters the provers cannot instantiate.
* `BudgetNoticeProofs`, notifications: `OccasionsNotifiedOnce` and
  `DismissedForGood`. The check of `source_key` is worth nothing against a
  second handler; the invariant rests on the table instead: a row is added only
  under a key no row has, none is ever removed, and whoever is about to mail is
  the one that inserted (`NoticeInv`). The two event types that announce a
  reached goal share its key (`DispatchKeyed`), so the theorem is about
  occasions and not about keys only.
* `DeliveryProofs`, projections: four invariants, each on top of those before.
  `ProjectionInv` compares every document with the set of events it was told:
  each of its timestamps is that of the newest of their kind, so that an event
  that comes late changes nothing; one lemma per script says what it writes.
  From it `ProjectionsConverge`. It also says that a worker which has
  republished a message has its copy in the queue (`CopyWaits`), which is why a
  crash before the acknowledgement loses nothing. `DeliveryInv` says where the
  event of a transaction is while it is not applied: in the queue, under its own
  or a republished copy, or given up. `CategoryInv` compares the row of
  transaction-service with the events: unless its transaction is in `crossed`,
  the row, the document and the newest event that carries a category agree. The
  three give `NothingToReconcile`. `EmbeddingInv`
  is about documents that never changed unnoticed: `updated_at` names the event
  that wrote it last; the vector is of that moment, or the embedding worker still
  has that event's message, as it has those of all newer events; and a text the
  worker or the tool holds is the document's text if `updated_at` has not moved.
  `VectorsFollow` is what remains of it when every queue is empty.
* `DashboardProofs`, calls: `NamesFindOne` and `ConnectionsAsAsked` from
  `DashboardInv`. What a call read before its write is worth nothing in the
  first; the argument is that a row is only written past its unique index
  (`UserWritten`, `AccountWritten`), whoever else wrote in between. In the
  second, a state is consumed by one callback (`CallInv`): no other callback and
  no connection has a state that could still be consumed, so what a callback
  writes under its state meets only its own rows, one per bank account
  (`RowsWritten`); and since no account changes hands (`OwnersKept`), a
  refreshed connection is still its user's although the callback carries no
  token.
* `DashboardProofs`, answers: `SearchesComplete` is `SearchesCover`. Every query
  starts from the same visible documents (`Visible`); a list is in the order of a
  key no two documents share, so consecutive pages repeat and lose none
  (`PagesCover`); and the fusion of two rankings has each document of either
  once, and first what both have, since two reciprocal ranks add up to more than
  any single one (`FusionCovers`, for rankings of one or two documents).
* `DashboardProofs`, calendar: `PeriodsPartitionDays`, every date lies in the
  period of the budget month it is assigned to and in no other; and
  `BucketsNameBudgetMonths`, the shifted month histogram of Elasticsearch names
  the same month as the calendar.
* `DashboardProofs`, months: `AnswersAgree` is `ReportsAgree`. Both calendars
  give that the documents between two dates, those in a run of buckets and those
  of the months in between are one set (`WindowShows`, `WindowBuckets`,
  `MonthsOfWindow`). Every answer is then a sum over one of these sets grouped
  by month, category or merchant, and groups add up to the whole (`AbsGrouped`).
  What is left is that sorting a set of rows into a list neither drops nor
  merges one (`RowsAdd`, `GroupsListed`), for which rows that look alike in what
  they are sorted by must still differ: merchants do by their latest document
  (`FirstsDiffer`), categories by themselves. A breakdown of no more categories
  than there are buckets has a row for each.
* `TaxonomyProofs`, read copy: `CopyFollowsMasterAlways` from `CopyInv`. Master and
  copy are both described by the log: a row is what the last event about it says,
  among all events for the master and among those handled for the copy
  (`Settled`). While nothing was re-queued, the handled events are the first of
  the log and the rest wait in its order (`QueueInOrder`), so that an empty queue
  makes the two sets of events one.
* `TaxonomyProofs`, transactions: `PairsBelongAlways`, `ManualKeptAlways` and
  `LearnedRuleWinsAlways` from `LedgerInv`. A pair of category and subcategory
  travels from the master through the copy, two caches and two events before it
  is stored, so all of them must hold pairs that the taxonomy once had
  (`parents`), or the pair the caller of that very row sent; and a session that
  no other one overlapped still holds the row as it is (`Holds`), which is what
  makes the pair a categorisation writes whole and a choice it must leave
  visible to it.
* `TaxonomyProofs`, reclassification: `OnlyApprovedWrittenAlways` from
  `ApprovalInv`: what is within the mapping in force when the summary is drafted
  stays so on every file made of it, and a service writes from what was approved
  although the files change. `IdentitiesAgreeAlways` from `IdentityInv`: there is
  a naming of the keys with which tables, ledger, events, read copy, looked up
  targets and written references all agree (`Agreed`). Before anything is
  installed every naming will do; each installation fixes one, and so the proof
  gives the witness there and only there.

Each inductive invariant was given to TLC as an invariant of its run before it
was proved, but for `IdentityInv`, which quantifies over all namings of keys and
was checked for the namings of the instance. The exception in `EachOnce` for
look-alikes of one payload came out of its proof: with chunks of one item no run
can tell it apart. So did the one in `LearnedRuleWins` for a text that another
learned pattern matches first.

Model-checked only: liveness, which needs fairness and ENABLED and is outside the
prover's reach (`EventuallyTerminal`, `EventuallySent`, `EventuallySettled`,
`DueMonthsClose`, `EveryoneGetsAccount`).

## 6. Plan

Done: saga engine, claim, import with its sources, outbox, consumer; budgets,
goals and the close of a month; notifications; taxonomy, rules, ledger;
projections and embeddings; users, accounts, bank connections, queries, gateway;
taxonomy upgrade and reclassification. Proved: every safety property that a
passing run checks, and the refinement of the saga's promise.

What could follow: single-category budgets and planned transactions, should
anything come to depend on them; and leads-to lemmas for the liveness properties,
once a prover for them is at hand.

## 7. Not modelled

* Single-category budgets: rows nothing else reads, written sequentially.
* Summaries and other answers of budget-service: computed per request, stored
  nowhere; section 3 says where a summary and a close differ.
* Planned transactions and listings: rows that nothing acts on, filters over a
  table.
* Gateway, in part: the budget, category and saga resolvers pass one call
  through.
* AI assistant: stateless calls to a language model and to analytics.
* Shared contracts, authentication, observability: schemas, token checks and
  counters.
* Frontend, serverless health job: views and probes without state of their own.
* Deployment, monitoring and other scripts: checks of build files and one-off
  clean-ups of old data.
