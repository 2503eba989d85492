# TLA+ models of the dispatcher CRM

The repository is a dispatcher CRM for a property management company: staff
work through private dialogs with a MAX bot (`src/app/bot`), owners also through
a small HTTP API (`src/app/auth`, `src/app/crm`), and everything is kept in
PostgreSQL, with Redis for login budgets and launch-data replay. All sessions run
at READ COMMITTED, the isolation `src/app/core/database.py` leaves at its default.

This directory holds the specifications of the parts in which concurrency,
failures and ordering decide whether the program is correct, the TLC
configurations that check small instances, and TLAPS proofs for all instances.

## 1. Inventory

| Component | Code | State it keeps | Operations | What makes it correct |
|---|---|---|---|---|
| Webhook | `bot/routes.py`, `bot/updates.py` | `bot_receipts`; one transaction per request | `max_webhook` for the staff and the observer bot | an event acts at most once; 200 only for what is committed; a failed handler leaves no half of its changes |
| Staff dialogs | `bot/dialogs.py` | `bot_conversations` (state, data, last timestamp) | `handle_staff`: menu, flow of a new request, lists, cards, assignment, results with and without a text | one request from one flow; a text answers the question asked; old events are not obeyed |
| Reply queue and worker | `bot/worker.py`, `models/bot.py` | `bot_deliveries`, the advisory lock | `reply` inserts, `deliver_one` sweeps, claims, posts, records; `run` takes the lease | never two copies; results are true; nothing is sent under a lost access or too late; nothing stays pending for ever |
| MAX messaging client | `integrations/max/messaging.py` | none | `send_text`, `answer_callback`, `_post` | an ambiguous answer is never taken for a definite one |
| Provider identities | `bot/identity.py` | `users` | `native_actor`, `access_stamp` | strangers are refused; the stamp changes with the access |
| Task workflow | `crm/task_workflow.py`, `models/task_progress.py` | `requests` (assignee, status, revision), `request_status_history`, `task_progress`, `audit_log`, `request_statuses` | `assign_request`, `report_progress`, reads | no decision lost; reports by the assignee only; a gapless history |
| Access rules | `crm/access.py` | `employees`, `roles` | `load_access`, `access_from_membership`, predicates | decisions use the access of the moment |
| Request intake | `crm/requests.py` | `requests`, idempotency keys | `create_manual_request`, list, detail, history | one request per key, also in races |
| Catalog | `crm/catalog.py`, `crm/catalog_service.py` | organizations, areas, houses, categories, employees, roles, statuses | create and PATCH by owners | references stay within one organization, scopes stay consistent |
| Chat observations | `bot/dialogs.py`, `bot/routes.py` | `chat_observations`, `house_chats` | store, show, convert, dismiss | a message becomes at most one request |
| Sessions and login | `auth/*` | `users`, `auth_sessions`, Redis keys | login, authenticate, logout, budgets | launch data opens one session; a revoked session stays closed |
| Bot setup | `bot/setup.py` | catalog, `house_chats` | `init`, `bind-chat` | repeatable; no chat is bound anew |
| Read-only MAX client, probe | `integrations/max/client.py`, `probe.py` | none | reads | - |
| API shell, schema, deployment | `main.py`, `core/*`, `api/*`, `migrations`, `ops` | settings, tables | exception mapping (503), health, deployment script | - |

How they interact: MAX calls the webhook; its transaction inserts the receipt,
locks the conversation, runs a dialog step in a savepoint - which may call the
task workflow, the intake and the access rules in the same transaction - queues
replies for the user and for others, and commits once. The worker, another
process, reads the queue and calls MAX. The catalog API changes memberships and
roles in transactions of its own at any moment in between.

What is hard here: two events of one user, or decisions of two users, at the same
time; events repeated while their first request is open, after its commit, or
after newer ones; processes and connections that die between two commits; reads
before and after a lock; answers of the provider that say nothing; buttons of
dialogs long left. `PROJECT.json` lists each of these hazards at its line with
the properties that cover it.

## 2. The modules

| Module | Role |
|---|---|
| `DeliveryWorker` | the reply queue, its workers, the lease, the provider |
| `AtMostOnceDelivery` | abstract: what the recipient of a message is promised |
| `TaskWorkflow` | assignment and reports as concurrent transactions |
| `TaskLedger` | abstract: one atomic decision after another |
| `StaffDialog` | abstract dialog of a user: one event at a time, at most once |
| `BotWebhook` | concurrent, repeated, failing webhook requests; extends `StaffDialog`, which supplies what an event does |
| `RequestIntake` | creation of requests with idempotency keys |
| `IdempotentIntake` | abstract: one request in a slot, every answer true of it |
| `ChatTriage` | messages of house chats, their binding, and the dispatchers' decisions on them |
| `TriagedInbox` | abstract: one final decision per message |
| `LoginSessions` | launch data, its key in Redis, users, sessions, logout |
| `LoginBudget` | the script that limits login attempts |
| `CatalogAccess` | creation and PATCH of employees and roles, the bot's renaming |
| `AccessRules` | operators only: who may read and do what, as each place decides it |
| `TaskCards` | the cards an event queues, their stamps, numbers and sending; extends `AccessRules` |
| `BotLocks` | the order of row locks over tables, and the deadlock detector |
| `*MC` | small instances for TLC: functions, membership values, symmetry |
| `DeliveryWorkerProofs`, `TaskWorkflowProofs`, `RequestIntakeProofs`, `CatalogAccessProofs`, `TaskCardsProofs` | TLAPS proofs of the module named |
| `BotWebhookProofs` | proofs of `StaffDialog` and of `BotWebhook`, which implements it |
| `TriageAndLocksProofs` | proofs of `ChatTriage` and `BotLocks` |
| `LoginProofs` | proofs of `LoginSessions` and `LoginBudget` |

The composition goes by what one module may assume of another. `BotWebhook` takes
what an event does from `StaffDialog` and is proved to implement it. `TaskCards`
runs on the operators of `AccessRules`. The others meet at committed rows: a row
`TaskCards` queues is one `DeliveryWorker` sends, the status `TaskWorkflow` names may
have been created by the catalog, a press in `ChatTriage` is an event that
`BotWebhook` handles at most once, and the access that `TaskWorkflow`, `RequestIntake`
and `ChatTriage` read at a certain statement is what `AccessRules` computes and
`CatalogAccess` changes.

### DeliveryWorker

`row` is `BotDelivery.state` (with "none", "open" and "void" for rows not yet
inserted, inserted by a transaction still open, and rolled back), the number of a
row is its `sequence`. `deliver_one` is one action per awaited statement: `Wake` (`now`
is read), `Sweep` (the UPDATE, which waits for another worker's rows), `Select`
(`FOR UPDATE SKIP LOCKED`) or `FindNothing` and `CommitSweep`, `CheckUser`
(`native_actor`), `CheckStamp` (`access_stamp` and the age), `Claim` or `Discard` (the
first commit), `Post` (the HTTP request) and `Record` (second commit, by primary key,
whatever the row has become). `LockedByOther` is the row
lock of an open transaction. `Start`, `LoseLease` and `Crash` are the life of a
process and of the one connection that holds the advisory lock. What a delivery depends
on is two variables, as it is read by two statements: `active` (the user may use the
bot) and `access` (the value of the stamp). Times are ages in ticks, and `elapsed` counts
the ticks since a worker read its clock: ages are compared as of that instant, and
`attempted_at` is that instant. `LongestPass` bounds it. `Answers` says which
answers of the client are possible for what MAX did.

### TaskWorkflow

A transaction goes through the statements of `assign_request` or
`report_progress`: `Lock` (`SELECT ... FOR UPDATE`, remembers what it read),
`Authorize` (access read after the lock), `Check` (revision, eligibility of the
employee or authorship of the report), `UpsertStatus` (`ON CONFLICT DO NOTHING`,
waits for another open insertion of the code) and `Commit`; `Refuse` is every
early exit, `Abort` a rollback at any point. `ChangeMember` and `CreateStatus`
are the catalog. Requests are in one organization: organizations share no row.
`decisions` stands for the rows of `audit_log` and `task_progress`, with the
revision of the card each decision was taken on, which the tables do not keep.

### StaffDialog and BotWebhook

Events are numbered as they happen at the provider and may be handled in any
order; choices in a dialog are named by the event that made them, flows by the
event that began them. `Handled(c, e)` is `handle_staff`: the set of ways event `e`
may change conversation `c`, where the catalog's answers (no house, one, several)
and the outcome of a decision are left open. `Outcomes` adds the expiry of the
conversation, the comparison of timestamps and the refusal that rolls the
savepoint back but keeps the timestamp. Page buttons count as "other": a page
changes nothing unless its offset is 0, and the keyboards never contain that.

`BotWebhook` runs requests against it: `Deliver` (MAX, any number of times),
`InsertReceipt` or `Duplicate`, `Reject` (strangers), `Answer` (the conversation's
lock, the handler, the replies with the next numbers, all uncommitted), `Commit`,
`Respond`, and `Fail` at any point. A receipt inserted by an open transaction makes
others wait (`ReceiptWaits`), and so does the conversation's row
(`ConversationWaits`). Since what an event does is taken from `StaffDialog`, the
refinement `ServesDialog` (which is `DialogSpec`, the specification of the dialog, on
the same variables) says that concurrency, repetition and failure add
nothing to the dialog and lose nothing of it; the properties of the dialog itself
are checked where the state is smaller, in `DialogFlows`, and carry over
(`DialogThroughWebhook`).

### RequestIntake

A slot is what the unique key of `requests` spans: an organization, an author, a
key. A payload stands for the validated body, so equal payloads are equal hashes.
A call goes through `Authorize`, the look for an earlier request, `Draw` (the
sequence, which no rollback gives back), `Insert` (`ON CONFLICT DO NOTHING`, which
waits while `PendingByOther` holds), `Reread` for the loser, `Commit` and `Respond`;
`Abort` may come at any point, also after the commit, when the answer is lost and
the caller repeats. `ChangeAccess` is the catalog.

### ChatTriage

The observer's webhook is `Deliver`, `Ignore` (chat not bound), `Receive`, `Store` and
`Respond`, with `Fail` before and after the commit; its receipt and its message are one
transaction. `Bind` is `bind-chat`, which refuses a chat that is bound to another
place. A dispatcher's button is `Press`, `Lock` (`FOR UPDATE` on the observation),
`Authorize` (after the lock), then `Decide`, `Show` or `Refuse`; `Abort` rolls back.

### LoginSessions and LoginBudget

The clock of `LoginSessions` goes in fractions of a second, while the code compares
whole ones (`int(time.time())`): that is where a key could end before the launch it
guards. `BeginLogin` verifies age and signature, `Consume` sets the key with its life
in Redis, and `UpsertUser`, `LockUser`, `InsertSession`, `Commit` are the transaction;
`BeginBot` enters `native_actor`, which creates users on the webhook's path, and
`BeginLogout`, `Revoke`, `CommitLogout` close a session. `LoseKeys` is a Redis that
restarts empty, `Redeploy` changes the list of the environment, `SetActive` disables a user.

`LoginBudget` is one key of `rate_limit.py`. Redis runs a script without
interruption, so `Check` is one action; the difficulty is time: TTL answers in
seconds, rounded to the nearest, and a key may be gone (`Forget`) between checks.
A module that two others meet in has names of its own for what they share
(`BudgetSpec`, `DialogSpec`, `LocksSpec`, `tick` beside `now`), so that one proof
module can extend both.

### CatalogAccess

Calls lock the row they change, validate the houses and the area against what
they read, and write the columns whose value differs from the one read, as the ORM does.
Houses are created meanwhile. `ReadName` and `UpdateName` are the two statements with
which the bot replaces the placeholder of an employee's name.

### AccessRules and TaskCards

One rule is written in several places: as predicates of lists, as checks on rows,
as buttons on a card, as what a decision accepts. `AccessRules` has an operator for each
place, over every combination of list, account, membership, scope and permissions.

`TaskCards` uses them for the way from a change to the cards that tell of it: an
event locks the request, reads it and the recipients' access, draws the numbers of its
replies and commits; the stamp of each card is computed at its own statement, later
than the check that allowed the card. The worker is `Take` (the lowest number),
`CheckUser`, `Compare` (the stamp), `Claim` or `Discard` (the commit) and `Post`;
`ChangeAccess` comes at any moment, also between these, and `late` records that it came
after the worker had read what it changes. What the worker's failures do to a
row is `DeliveryWorker`'s and left out here.

### BotLocks

An event locks, in this order, the sender's users row if the name has changed, the
sender's conversation, the request and, at an assignment, the users row of the recipient
where the name differs. `Detect` is PostgreSQL's detector: it ends one transaction of a
circle, whose event is delivered again.

## 3. What the runs check

| Run | Instance | Properties | Shows |
|---|---|---|---|
| `DeliveryTwoWorkers` | 1 row, 2 stamps, 2 workers, passes of 2 ticks, 1 crash, 1 lost lease, fair | `ResultIsTruthful`, `SingleSenderUntilLost`, `KeepsPromise`, `NothingSentAfterAccessEnds`, `NothingExpiredIsSent`, `EventuallySettled` | the promise to recipients needs no lease; one sender until the lease is lost; an account, rights and an age that change between any two statements; every row is settled |
| `DeliveryLostLease` | 1 row, 2 workers, 1 lost lease | `SingleSender` (violated) | what the lease does not survive |
| `TaskTwoSessions` | 2 requests, an employee with 3 memberships and an owner listed as an employee, 2 transactions, 3 operations, fair | `NoDecisionLost`, `StatusesExist`, `ReportsFollowAssignment`, `ActsAtomically`, `RevokedEmployeesStop`, `OperationsEnd` | races on requests and on a status row they share; a request given to somebody else while its former assignee reports |
| `DialogFlows` | 1 user, 4 events of 7 kinds, 2 timestamps | `CreatedFromOneFlow`, `AnswersTheQuestion`, `ObeyedInOrder` | old buttons, questions, reordered events |
| `WebhookRepeats` | 1 user, 2 events of 4 kinds, 2 requests at a time, 1 failure, fair | `HeardIsHandled`, `RepliesFollowDialog`, `ServesDialog`, `EventuallyHeard` | repetition, concurrency, failure |
| `IntakeRaces` | 1 author, 1 key, 3 payloads in 2 organizations, 2 sessions, 3 calls, fair | `RecordedOnce`, `KeepsOneRequest`, `RevokedAuthorsGetNothing` | winners, losers, retries, rollbacks and lost answers of one key |
| `Triage` | 1 message, 2 places, 2 dispatchers, 2 hooks, 2 sessions, 2 presses, 1 failure, fair | `MeaningKept`, `HeardIsStored`, `TriagesAtomically`, `RevokedDispatchersStop`, `MessagesArrive` | a message delivered twice at a time and pressed by two |
| `Login` | 1 user, 1 launch, 3 calls, half seconds up to tick 9, all lifetimes 1 s | `OneSessionPerLaunch`, `KeyOutlastsLaunch`, `RecordsMatch`, `SessionsOfActiveUsers` | a launch presented again around the end of its age and of its key, with a Redis that forgets |
| `LoginBudget` | limit 2, window 2 s, quarter seconds up to tick 19, 6 checks | `RateBounded`, `RefusalsEnd` | attempts at every offset from the window's edges |
| `CatalogPatches` | 1 employee, 1 role, 2 houses, 2 areas, 2 transactions, 5 calls | `PatchesCompose`, `RowsConsistent` | creations, PATCHes of scope, name and role, and the bot's renaming |
| `Cards` | 2 owners, 1 employee with 4 grants, 1 request, 2 sessions, 2 events | `NoticesInOrder`, `OwnersHearEveryReport`, `OnlyRacesReveal` | who hears of a request, in which order, and what a change of rights at any statement can reveal |
| `Locks` | 4 events of 2 users, one of whom also takes a request, 2 requests, 3 transactions, fair | `OnlyRenamingsDeadlock`, `EventsHandled` | which deadlocks exist and that they lose nothing |

Bounds. Two workers, sessions or requests are enough for every pairwise race, and
the interference is pairwise: a lock has one holder and the others wait. Where a circle
or a bystander matters there are three (`Locks`, `Login`). What is promised of a
reply concerns its row alone, so the workers have one row, and the rows' interplay (the
sweep of one with the claim of another, rows passed over because they are locked) is
covered by the proofs, except for `EventuallySettled`, which says nothing here of
more rows than one. Passes of two ticks are longer than the limit of one by which a row
expires, so a row may expire in the middle of one. Three operations let an assignment, a
reassignment to somebody else and a report of the former assignee meet on one request, or
two on one request and another beside them; the second employee is an owner who is
also on the list of employees, as `allowed_max_ids` (`dialogs.py:509`) permits, and keeps
one membership, while the other's has the right to assign, is deactivated or is
moved out of scope (a disabled account only keeps operations from beginning); three calls are a winner, a
loser and a retry; four events are the longest chain the dialog's properties speak
of; two timestamps make events equal and older; two organizations show that a slot
is not a key alone; two presses are two dispatchers on one message or one
dispatcher twice. The clock of `Login` runs past the age of the launch, the life of its
key and the session's end, that of `LoginBudget` past two whole windows. Faults are counted
(`MaxCrashes`, `MaxDrops`, `MaxFaults`). Everything that could grow without end has a
named bound (`MaxDelivery`, `LongestPass`, `MaxEvents`, `MaxOperations`, `MaxCalls`, `MaxPresses`,
`MaxChecks`, `MaxTime`, `LastTick`). For all larger values every property that is not a
liveness property is proved, see section 5. The events of `Locks` are assignments and a
report; one that touches no request takes the first of the report's locks. Runs with temporal properties of fair specifications use no symmetry.
`DialogFlows` and `CatalogPatches` allow deadlock because a user may simply stop
writing and an owner calling.

Fairness. `DeliveryWorker`: the clock goes on; compose restarts a worker that
exits (`restart: unless-stopped`, `compose.yaml`), its loop has no end, and every
database call and HTTP request has a timeout, so each step of a worker is weakly
fair. Nothing is assumed of users, of commits or of MAX's answers. `TaskWorkflow`
and `RequestIntake`: a transaction that can go on does; nobody must begin one.
`BotWebhook`, `ChatTriage` and `BotLocks`: a request that can go on does, and MAX
delivers an event again as long as it heard no 200 (`docs/simple-bot.md:101-102`);
strong fairness, because the requests it needs may be busy from time to time.
`BotLocks` assumes one thing more, `PromptNext`: a transaction whose row has become free
gets it before another event is delivered. Repetitions come after a network delay and lock
queues are served at once; without the assumption two events could end each
other in turn for ever.

Sensitivity. For each property of a passing run `PROJECT.json` names a mutant,
an operator that changes one definition the way a bug would (no row lock, no
comparison of revisions, a receipt that waits for nobody, access read before the
lock, a key that lives as long as the launch and no longer, ...), under
which TLC finds the property violated. The mutants stand next to the definitions
they change and are used nowhere else.

## 4. What the checks met

One documented promise fails. `docs/simple-bot.md:118` says that one worker per
database is ensured by the advisory lock. `SingleSender` holds as long as the
connection that holds the lock lives (`SingleSenderUntilLost`, checked and proved), but
`run` never looks at that connection again, and when PostgreSQL ends it a second
worker starts beside the first: `DeliveryLostLease` shows the three steps. What
recipients are promised does not rest on the lease (`KeepsPromise`, with lost leases).

Some properties hold only in the form given here, and a reader of the documents
might expect more:

* `RefusalsEnd` grants the caller half a second more than told. Redis rounds TTL to
  the nearest second, so `Retry-After`, "the time to wait" of
  `docs/authentication.md:90`, may end up to half a second before the window does.
* `OnlyRacesReveal` has two exceptions. One are changes of rights inside the event's
  transaction: `access_stamp` (`identity.py:51`) is computed after the card was
  allowed, so a change committed between the two statements gives a card that its
  recipient may no longer open the stamp of the new access, and the worker's
  comparison (`docs/simple-bot.md:116-117`) finds nothing changed. The other is the gap
  in the worker: between reading the user and the stamp (`worker.py:47-48`) and the HTTP
  request lie a commit and the connection to MAX, and a change made there is not noticed.
* `NothingSentAfterAccessEnds` speaks, for the same reason, of an account or a stamp that
  ends for good before the worker reads it, and of each of the two by itself: they are
  read one after the other, so a reply may pass although at no instant both were right.
* `NothingExpiredIsSent` speaks of rows that are too old by the clock of every pass under
  way. `now` is read first (`worker.py:24`): a row that passes 30 minutes while the
  worker waits for the sweep, selects or commits is still sent, a little later than
  `docs/simple-bot.md:128` ("messages older than 30 minutes are not sent") lets one expect.
* `PatchesCompose` counts the bot's renaming as a change like any other. The bot
  reads the placeholder name and updates the row in two statements
  (`identity.py:40-46`); a name the owner chooses in between is overwritten with
  MAX's, although only the placeholder is to be replaced (`docs/simple-bot.md:68-69`).
* `OnlyRenamingsDeadlock` is not the absence of deadlocks: an assignment that renames its
  recipient takes locks against the order of everything else. The events
  concerned are repeated and handled (`EventsHandled`). The recipient need not be
  another user, as an earlier form of the property said before its proof was tried: who takes a
  request may have read the own name before another event changed it, and then waits
  for the own users row, which a second event of the same user has renamed while it
  waits for the conversation.
* `OwnersHearEveryReport` speaks of owners with an enabled account who have used
  the bot: the others are skipped (`dialogs.py:154-157`).
* `ShownButtonsAreAccepted` does not say that a role with `requests.create` alone can
  create in the bot: the card of the new request needs `requests.view` in the same
  transaction, so such a role is offered houses and refused at the end (`CreationAccepted`).

## 5. What is proved

For all values of the constants - any number of rows, workers, requests, sessions,
users, events and faults - under the assumptions named in the modules (the bounds
are natural numbers, special values are not among the ordinary ones, functions
have the domains they are used on):

* `DeliveryWorkerProofs`: `TypeCorrect`, `RepliesAtMostOnce`, `ResultsAreTruthful`,
  `WorkersAreExclusive`, `QueueKeepsPromise` (refinement of `AtMostOnceDelivery`),
  `OneSenderUntilLeaseLost`, `ResultsStandUntilLeaseLost`, `NothingSentAfterEnd`,
  `NothingSentTooLate`. At most one attempt is not
  inductive: one must know that a worker in phase "claimed" has not posted its
  row, that nobody else has the row, and that a sweep touches no row another open
  transaction has locked. This is `OneWorkerPerRow`; `DeliveryInv` is the conjunction
  of the two with `ResultIsTruthful` and the types. `LeaseInv` adds that, while no
  lease was lost, every running worker holds it and a row being sent is still "sending".
  `NothingSentAfterEnd` and `NothingSentTooLate` are about a row that waits when the account
  or the stamp has ended for good, or its age has passed the limit: only a claim takes a
  row to be sent (`OnlyClaimsTake`). A worker that claims it has been in the phases before
  (`ChecksPrecede`), so it has read what had ended; and it has judged the age as of its
  clock (`ExpiryInv`, the age a selected row had when the clock was read), which was then
  beyond the limit and stays so (`TooLateStays`).
* `TaskWorkflowProofs`: `TypeCorrect`, `SessionsAreConsistent`,
  `WorkflowActsAtomically` (refinement of `TaskLedger`), `DecisionsAreNotLost`,
  `HistoryIsAlwaysPath`, `ReportsAlwaysFollowAssignment`, `StatusesAlwaysExist`,
  `RevokedEmployeesAlwaysStop`. All but the last
  rest on `TransactionsConsistent`: what a transaction read under its row lock is still
  true when it commits, although it commits what it computed, not what is there.
* `RequestIntakeProofs`: `TypeCorrect`, `OneRequest`, `EachRecordedOnce`,
  `Consistent`, `Refines` (`IdempotentIntake`), `RevokedAuthorsNeverGain`. `CallsConsistent` is the
  inductive part: drawn numbers and pending slots have one owner, the loser's slot is taken, and
  what a call is about to answer is true and not announced yet.
* `BotWebhookProofs`. Of the dialog: `DialogTypeCorrect`, `RequestsOfOneFlow`,
  `AnswersLastQuestion`, `InOrder`. `DialogInv` says of the conversation what its log
  implies: the flow and the choices it holds were made by obeyed events in this order
  and nothing has replaced them since (`DialogHeld`), and its timestamp is the
  newest obeyed one (`LastHeld`). Of the webhook: `TypeCorrect`, `EventsHandledAtMostOnce`,
  `HeardEventsAreHandled`, `RepliesAlwaysFollowDialog`, `RequestsAreIsolated`,
  `WebhookServesDialog` (refinement of `StaffDialog`). The invariant is
  `RequestsIsolated`: open requests have different events, answered ones
  different users, so the outcome a request computed is still an outcome of its
  event when it commits, and its reply number is above all committed ones of its
  user. `DialogThroughWebhook` puts the two together: the dialog's properties hold of the
  concurrent webhook.
* `TriageAndLocksProofs`. Of `ChatTriage`: `TypeCorrect`, `DecidedOnce`, `MeaningStands`,
  `NothingHeardIsLost`, `Consistent`, `Refines` (`TriagedInbox`),
  `RevokedDispatchersAlwaysStop`. `TriageConsistent` says
  what holders of row locks know, and that a stored message has its chat's place.
  Of `BotLocks`: `OnlyRenamingsEverDeadlock`, from the order of the locks
  (`LocksInOrder`): who waits for a users row of the own, a conversation or a request
  waits for somebody further in this order, so in a circle nobody is the last unless
  somebody waits to rename; and only chosen names are ever restored (`RenamedAreChosen`).
* `LoginProofs`. Of `LoginSessions`: `TypeCorrect`, `OneSession`,
  `RecordedAsMade`, `ReservedWhileAcceptable`, `ActiveUsersOnly`. `LoginInv` adds to the
  properties that the row of a user being logged in has one holder who found it
  active (`UsersHeld`), that a launch about to become a session is not one
  (`LaunchesHeld`), that a session is revoked by one call (`LogoutsHeld`), and that a key
  lasts to the first tick at which its launch is too old (`KeysHeld`), whatever the
  fraction of the second in which it was set. Of `LoginBudget`: `RateAlwaysBounded` and
  `RefusalsAlwaysEnd`. A bound on any stretch of time is not inductive with the counter
  alone: `WindowHeld` says which of the checks that passed are the last window's
  (the last `InLast` ones), that the others are not later than its beginning, and
  that those `Limit` or more places before its first are a whole window earlier. So the
  check that makes attempt i + 2 * Limit comes a window after attempt i, in the same
  window and in a new one. `WaitIsLongEnough` is the arithmetic of the rounded TTL.
* `CatalogAccessProofs`: `PatchesAlwaysCompose`, `RowsAlwaysConsistent`. The invariant
  says that one transaction at a time has a row and that a PATCH has read it as it is
  (`RowsHeld`), so writing the columns that differ is writing all of them; that a row
  inserted is the only one and replaces none (`RowsInserted`); that what was validated
  stays valid, because houses keep their areas (`StillFits`); and that a logged row
  exists (`LoggedRowsExist`), without which a creation could undo a change.
* `TaskCardsProofs`. Of the operators of `AccessRules`, for every access and every request:
  `ListsAgreeWithCards` (what the predicates list is what the checks on rows let open),
  `ShownButtonsAreAccepted`, `AssigneesCanReport`, `EqualStampsOpenAlike` (what the worker's
  comparison rests on). Of `TaskCards`: `TypeCorrect`, `CardsAlwaysInOrder`,
  `NoticesAlwaysInOrder`, `OwnersAlwaysHear`, `OnlyRacesEverReveal`. `CardsInOrder` orders
  the numbers by the locks: an event that has the row has drawn numbers above every card
  committed on the request, tells a user once, the card in the worker's hand is the next
  one of its request (`InHandIsNext`), and no number was sent above one that waits. `OwnersInformed` follows a report from the list of those to tell
  to the cards. `RightsKnown` says that the stamp of a card is one of rights that reach its
  request unless they changed within the event; `EqualStampsOpenAlike` that the
  comparison then lets pass only rights that reach it too; and `WorkerKnows` that these
  last until the request unless a change came after the worker had read them.

Only model-checked is liveness: `EventuallySettled`, `OperationsEnd`, `EventuallyHeard`,
`MessagesArrive` and `EventsHandled` rest on fairness and ENABLED, which are out of the
provers' reach. Every other property of a run is stated by a theorem.

## 6. What is not modelled, and the plan

Left out inside the modules: the wording of messages and cards, the offsets of
pages, the parsing of updates (an update that is not well-formed changes nothing),
the filters and cursors of lists, hashes and signatures (equal exactly for equal data).
A statement that fails is `Abort` or `Fail`. Organizations, districts, areas, entrances
and categories, and roles at their creation, are constants: each is one insertion that
no other row is derived from. `BotLocks` orders the locks of a whole event without the
content of the rows; the other modules have the content and the locks of one operation.

Not modelled: the read-only MAX client and the probe (stateless reads), the HTTP
exchange of the messaging client, configuration, logging and health checks (pure
input and output), migrations (data definition; the unique keys the modules rest on
are theirs) and the deployment script.

What the plan has left, in this order:

1. A composition of `TaskCards` with `DeliveryWorker`, where a crash between claim and
   record drops the card in the middle of a sequence of revisions.
2. The rule that the worker's promise and `NoticesInOrder` give together: what a
   recipient has read is a subsequence of a request's revisions.
3. An abstract specification of the catalog (rows changed one call at a time) that
   `CatalogAccess` implements.

## 7. Running

In this directory: `tlc -config <run>.cfg <module>.tla` for the runs of section 3
(modules and configurations in `PROJECT.json`), and `tlapm <module>Proofs.tla` for the
proofs of section 5.
