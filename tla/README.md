# Verification of the AI Mirror Platform

TLA+ specifications of the AI Mirror Platform (FastAPI backend, RQ/GPU worker,
PostgreSQL, Redis, object storage), the TLC configurations that check them on
small instances, and TLAPS proofs that hold for every size.

Everything is translated from the Python code. Paths below are relative to the
repository; `PROJECT.json` maps every definition to the lines it stands for.

    tlc -workers 2 -config MCJobPipeline_run.cfg MCJobPipeline   # one run
    tlapm JobPipelineProofs.tla                                  # one proof module

## 1. The system

A client submits a generation job (or a pack of them) to the API. In one
database transaction the API looks the idempotency key up, validates and prices
the request, reserves credits, and inserts the job row; it also puts the job on
a Redis queue. A GPU worker fetches the entry, claims the row, runs the stages
and finalizes: outputs plus a debit on success, a refund on failure or
cancellation. Users and admins cancel jobs, admins requeue them, payment webhooks
grant and take back credits, and a daily task purges what users deleted.

| Component | State | Operations | Interacts through | What makes it correct |
|---|---|---|---|---|
| Credit ledger (`backend/app/modules/credits`) | `credit_balances` (balance, held), `credit_transactions` | grant, hold, debit, refund_hold, reverse_grant | called inside others' transactions; row lock per user | one row per key; balance is the sum of the ledger; nothing reserved that is not owned; nothing reserved for ever |
| Job pipeline (`modules/pipeline`) | `jobs`, `job_results` | submit, submit_pack, cancel, claim, finalize | ledger, queue, Redis flag | one job per key; row and hold together; a finished job is charged or refunded |
| Queue (`queue/producer.py`, RQ) | Redis lists, scheduled registry, cancel flags | enqueue, enqueue with delay, cancel | worker, API | no job in two places; no job lost |
| Worker (`ai-engine/ai_engine/worker.py`) | one run at a time | run_job, retries, no-capacity requeue | queue, rows, ledger, object storage | outputs once; bounded attempts; every claimed job is settled |
| Progress stream (`finalize.py`, `pipeline/router.py`) | a Redis channel per job, a subscription per client | set_progress, job_events | Redis pub/sub, job row | a client sees the job go forward, and is told the end |
| Payments (`modules/payments`) | `payments`, `subscriptions`, `invoices` | handle_webhook | ledger | an event is applied once; the ledger reconciles |
| Auth (`modules/auth`) | users, sessions, verification tokens, OAuth identities, login states in Redis | register, verify, login, guest, refresh, logout, reset, OAuth | users, admin (suspension), purge | one account per address; a token works once; ended sessions stay ended |
| Images (`modules/uploads`, `gallery`, `users`, `admin`, `ai_engine/tasks.py`) | `images`, consents, share tokens | upload, share, visibility, delete, moderate, purge | object storage | what was deleted or made private is not served |
| Rate limiter (`core/rate_limit.py`) | Redis counters | hit | every request | no more than the limit in a window |
| Generation (`ai_engine/pipeline`, `models/loader.py`) | the pool of models of a process, the image in progress | get_model, run_stage, the stages | worker | whole outputs, from the best backend there is; every run ends |
| Pricing (`pipeline/pricing.py`) | | price_job | submit | covers the cost, grows with the request |
| Lists (`core/pagination.py`) | a cursor at the client | three list endpoints | rows of others | nothing lost, nothing twice |
| Styles (`modules/styles`) | a catalogue in Redis | list | submit | stale for the TTL at most |

What is hard here: API coroutines and worker processes act on the same rows with
no lock but the balance row's; reads and the writes they lead to are far apart;
the queue is not part of the database transaction; entries can be lost, doubled,
or delivered after a cancel; a run may die anywhere. The `hazards` of
`PROJECT.json` list where each of these bites, line by line.

## 2. Modules

| Module | Models | State |
|---|---|---|
| `CreditLedger` | the ledger operations as whole transactions | `balance`, `held`, `txns`, `lockedBy` |
| `JobPipeline` | submit, queue, worker, cancel, admin requeue (extends `CreditLedger`) | job rows, queue, local state of each call and worker |
| `Payments` | webhook fulfilment, refunds, chargebacks, with spending and settings calls beside them (extends `CreditLedger`) | `payments`, `subs`, `plans`, `opened`, local state of each call, what the provider knows |
| `Images` | uploads, outputs, gallery calls, image and account deletion, retention purge | `row`, `objects`, `account`, local state of each call and of the purge |
| `Accounts` | registration, tokens, sessions, OAuth, suspension, account deletion | `users`, `secrets`, `linked`, `grants`, local state of each call |
| `JobFeed` | the promise to a reader of a job's progress | `log`, `shown`, `reader`, `disturbed` |
| `ProgressStream` | the runs of one job as they are announced and stored, two at once included, and one client; implements `JobFeed` | `row`, `entries`, `flag`, `worker`, `cancel`, `client`, `log` |
| `Generation` | a worker process: its models, the stages of its jobs, its outputs | `pool`, `run`, `status`, `attempts`, `output` |
| `Pricing` | what a job costs: operators, no state | |
| `Paging` | a page, its cursor, a walk through all pages: operators, no state | |
| `MCJobPipeline`, `MCPayments`, `MCImages`, `MCAccounts`, `MCProgressStream`, `MCGeneration` | instances for TLC | |
| `CreditLedgerProofs` | lemmas: what each ledger operation does to the types and to the sum of a user's rows | |
| `JobPipelineProofs` | type correctness and `Solvent`, proved (extends `CreditLedgerProofs`) | |
| `JobSettlementProofs` | every other safety property of `JobPipeline`, proved (extends `JobPipelineProofs`) | |
| `PaymentsProofs` | type correctness and every safety property of `Payments`, proved (extends `CreditLedgerProofs`) | |
| `AccountsProofs` | type correctness and every safety property of `Accounts`, proved | |
| `ImagesProofs` | type correctness and every safety property of `Images`, proved | |
| `ProgressStreamProofs` | type correctness, `ToldIsTrue` and the refinement of `JobFeed`, proved | |
| `GenerationProofs` | type correctness and every safety property of `Generation`, proved; and of the two modules without state, bounds and monotonicity of the price and what a page can lose | |

### How the model relates to the code

*Transactions.* `get_db` commits when the endpoint has returned. So a request's
inserts live in its local record (`request[r].posted`, `.inserted`, `.reserved`)
until `SubmitCommit`, and vanish with `SubmitAbort`; only its effect on Redis is
immediate. A `SELECT ... FOR UPDATE` on a balance row is `lockedBy[u]`: a submit
keeps it from its first hold to its end, because a pack goes on with other items;
a cancel or a finalize takes it in its last step, so that lock, write and commit
are one action that waits for `RowLockFree`. The unlocked "does this key exist"
query before the lock is an action of its own (`SubmitCheckHold`, `CancelCheck`,
`CheckLedger`), which is where the interleavings come from. The unique indexes and
the CHECK on the balance are `SubmitInsert`'s guards, `DebitRejected` and
`RefundRejected`.

*Rows.* SQLAlchemy writes a column only if it changed since it was loaded, and
overwrites whatever another transaction committed in between: `Written(j, seen, new)`.

*Queue.* `queue[j]` counts entries over the three lists. The order is left open:
retries re-enter at normal priority, several workers pop, and no property depends
on the order. RQ's scheduler (`Promote`) and an operator's re-enqueue after a lost
Redis (`Redeliver`, as `docs/runbooks.md` says) are the parts outside the source.
The cancel flag may expire (`ExpireFlag`), but not under a run: it lives for an
hour, a run for half an hour at most. Whether a job is charged is a field of the payload
(`freeEntries`, the jobs whose payload carries `no_charge`): RQ keeps one payload per job
id and every put replaces it (`Carries`), a fetch hands it to the run
(`worker[w].noCharge`), and a retry or a requeue without capacity puts back what the run
has. An entry that an operator makes from the row (`Redeliver`) may lack it, as the row
has no such column.

*Worker.* Each `worker[w].pc` is a place in `run_job` between two transactions or
outside calls. Stages are steps that succeed, fail for good or fail transiently.
`run_job` handles `StageError` only; a rejected commit (`FinishRejected`), a raising
object store (`ObjectStoreFails`) and a dead process (`WorkerLost`) leave the run
with the entry consumed, because the queue has `retry=None`.

*Payments.* A webhook call is one transaction, and FastAPI commits it before the
answer is sent; so a call's record holds what it has read and staged, `Commit` makes
it visible and then answers, and `CallFails` rolls it back at any step, the storing
of the invoice included. The balance is read under the row lock and written back
as a number (`seen`), as SQLAlchemy does. The unique `provider_event_id` makes a
second insert wait (`Insert`); a user without a balance row makes two calls race to
insert it (`Open`). The users row that holds the plans has no lock: the UPDATE of a
settings call comes before or after the commit of a fulfilment, and either way
writes what was read earlier, or any list of plans that the request names, as the body is
an open dictionary (`PatchWrite`). What it takes off the list is remembered (`lost`, a
history field), because it is the one exception to `EntitledByPurchase`. A fulfilment
that finds the plan in the list it read leaves the document alone (`Entitles`). An admin's grant (`AdminGrant`) is one step, because nothing
lies between its row lock and its commit. The spending user is `JobPipeline` in two steps,
`HoldCost` and `ChargeCost`. The provider is external: it repeats an event until it is
answered (`Deliver`), may repeat it besides (`Replay`) and keeps no order.

*Images.* Rows are in the database, bytes in the object store, and no transaction spans
the two. A gallery call loads its row (`Load`) and writes the columns it changed
(`Write`, by the same `Written` as job rows); nothing locks the row in between. An upload
and an output put the object first and commit the row later, as steps of their own. The
purge loads what is due, deletes object by object, and commits all rows at the end; it
can be rolled back after any of them (`PurgeFails`), and a deletion that the store
refuses is swallowed (`PurgeRefused`, remembered in `refused`). `RetentionEnds` waits for
calls that hold the row, because a retention lasts for days and a call for seconds.
UNLISTED and PUBLIC are one value, as every condition in the code treats them alike. An
upload's key holds its id, an output's its job's: a job that is run to its end twice has two
outputs with one object (`ObjectAssumption` gives only an upload its own key). Tokens are numbered in the order of generation, so
that "never used before" is a comparison.

*Accounts.* A call loads rows (`...Load`), works on what it has loaded (`call[c]`) and
commits (`...Commit`); the session factory has autoflush off, so that even a token that
was marked used is marked at the commit. `CallFails` is a refusal as well as a rollback,
at any step: either leaves nothing. That is why expiry is no state: an expired token is
refused, and refusing is always possible. `secrets` holds sessions, verification and
reset tokens in the order of their commits; a family is the number of its first session.
Three fields are history and not columns: `uses` counts exchanges without a bound, `forked` says that
two calls held the token unspent at once, and `standing` how a session relates to the
last time its account's sessions were ended (`good`, `ended`, `raced`). A call that had
read the account or its token before an ending hands `raced` on to what it issues
(`Overtaken`). Roles, access
tokens and passwords are left out: which password is right is a free choice of the call.

*Progress.* `log` is the history of one job: each state when it is announced (`told`) and
each when it is committed. A worker announces inside the open transaction, so that the
two orders differ; `worker[w].next` is what the transaction will store, written over the row
by the columns that differ from what was loaded (`Written`), and `Dies` drops it
(`undone`). `Redeliver` puts an entry for a job that is queued or running, whatever runs of
it there are, and `Requeue` may find one, so that several workers can have the job in hand;
that a run announced while another one was busy is remembered (`overlapped`). A client is a place in `log`: the snapshot is the last committed state
(`Stored`), and the subscription begins behind it (`from`). `JobFeed` knows nothing of
rows, runs or subscriptions: states are added, and a reader is shown later ones with
progress that does not fall, up to a final one. The refinement maps `client` to `shown`
and `reader`, and `undone` or `overlapped` to `disturbed`, after which `JobFeed` promises
order only; each step of `ProgressStream` is a step of `JobFeed` (`Grow`, `Disturb`, `Show`,
`Leave`) or a stutter.

*Generation.* An image is the sequence of what was done to it: the backend that made it,
then each treatment. `pool` remembers for each model that it is loaded or that it
failed (`get_model` keeps `None`); a model is tried on first use and never again in a
process. `run.next` is the place, in the order of priority, of the backend whose turn it
is, and `run.at` the place of the stage in `Order`; the next stage is the first one behind
it that is asked for (`Later`). A transient error begins the stage again (`SampleOutOfMemory`), any other ends the run
(`SampleBreaks`), and a retry of the job begins a run from nothing. `Restart` is a new
process with an empty pool.

*Prices and pages.* Both are pure, and both are relations where the code's answer is not
determined by what is modelled. `Prices` contains the exact price, rounded up, and one
credit more where the rounding of the floating-point product can add it (`MayExceed`):
when the exact price is whole and a factor is inexact (`Inexact`), a multiplier that is no
multiple of a quarter (25 credits at 1.12: 29 instead of 28) or a number of steps above 30
(multiplier 1.5, five credits, four outputs, 32 steps: 32 instead of 31). `MaxBaseCost`
keeps the error of a product far below the grain of exact prices; the multiplier has the
range of its column. `Pages` contains every page the database may choose when rows
are equally old. The costs of `MCJobPipeline`'s jobs are prices of such requests.

*Job ids and keys.* The ids a request mints are fixed by `Plan`; keys come with
them (`KeyOf`), so that two requests can carry the same key, also of two users.

## 3. Runs

All are complete explorations; every deadlock is the end of a finite workload, so
`CHECK_DEADLOCK` is off.

| Run | Instance | Shows |
|---|---|---|
| `submit` | two packs of one user that share a key, another user with the same key; balances that pay for one pack and one request | `Solvent`, `OneJobPerKey`, `AdmittedIffHeld`, `HeldIsOutstanding` under every interleaving of the submits and one worker |
| `run` | two jobs, credits for one of them at a time, two workers, two attempts, one cancel, one fault of any kind, one operator re-enqueue | the ledger adds up, and charges, refunds and holds agree with it, even when a job runs twice at once; until one is re-enqueued, single delivery with at most one set of outputs, bounded attempts, and finished jobs stay finished |
| `live` | a job of two stages and its clone, one cancel, fairness, no faults, nothing re-enqueued by hand | the clone is never charged, through every retry, requeue and cancel; a claimed job is settled |
| `payments` | three purchases (one plan twice, another once), a chargeback, a refund of an unknown purchase; two calls, one replay, one failure; a buyer who spends and whose settings call overlaps the fulfilments | one subscription row per plan, entitlement but for what that call took off, no credit lost or given twice |
| `answers` | two purchases, a refund and a chargeback of one of them, an admin's grant; a user without a balance row; fairness | every event posts under its key, reverses what was bought, and is answered, also the refund that came first |
| `images` | an output and an upload of the same picture, or the outputs of two runs of one job, with one key; two calls of any kind, one token, one failed or refused purge; fairness | rows and objects stay together, only the deletion of the twin takes the bytes of a listed output, and the last row of a key leaves no object; deletion is final, completed, and withdraws its links for good |
| `accounts` | two account ids, one address, one OAuth subject, two concurrent calls, three tokens | one account per address; tokens are exchanged once; one live token per family; what was ended stays ended, but for calls that had read it before |
| `stream` | one worker, a job of two stages, two attempts, a cancel, one fault, one re-enqueue; a client; fairness | the stream implements `JobFeed`; a final state that was told is true; a client that waits is let go |
| `overlap` | two workers, a job of one stage and one attempt that may be re-enqueued under its run, a cancel, one fault; a client | the first two of these as long as no run announces beside another |
| `generation` | a job with every stage, one whose reference is unreadable, one by text; both backend settings, any model missing, one restart; fairness | outputs are whole and from the best backend; every job ends |
| `lookup`, `settle_twice` | one job | what comments and documents promise and the code does not do (section 6) |

Bounds. Two packs that share one key and one stranger are the smallest
workload in which all three races on a key exist (same transaction, same user,
other user). Two workers are enough for every overlap of runs of one job, since a
worker's local state is independent of all but that job, and they are interchangeable
(the symmetry set of `run`); two stages, in `live`, give a place
for cancellation between stages; `MaxRetries = 2` gives a run that retries and one
that gives up; one fault reaches every partial state, and faults do not mask each
other in the properties. Two cancels of one job are left to the proofs. The counters `MaxFaults`
and `MaxRedeliveries` are the
only bounds added to the code; the second is stated as a count (`redeliveries`), so that
what holds until an operator re-enqueues a job is said of each state and not of a whole
instance. In `Payments`, the bounds are `MaxFaults` and `MaxDuplicates`. Two calls
are enough there: the row lock and the unique index pair calls up, and no step looks at
a third one. In `Images` every race is between a row's two writers, or a writer and the
purge, so that two calls suffice; one fault reaches
each partial purge, and the next purge must repair it. An execution makes two of the
three images: the upload and one output, or both outputs (`Together`). One token is what a
stale write needs to revive a link that was withdrawn; that one which a rotation
replaced does not come back either is left to the proof, as a second token takes the
run with its liveness property beyond a few minutes. In `Accounts` every race is
between two calls too; three tokens are a session, its successor and a fork, or a
session, a reset token and what is issued beside its use; five calls let two races follow
each other; ids and calls are interchangeable, which the symmetry set says (no temporal
property is checked there). In `ProgressStream` a client may come at any moment of a run and go again;
a second visit would be like the first. Two workers, one stage and one re-enqueue are the
smallest instance in which two runs of a job meet (`overlap`; its workers are
interchangeable), and `stream` has the second stage and the second attempt. In `Generation` three jobs are
three ways through the stages, run in any order on one pool; two transient errors are
retried and a third gives up, in each of two attempts; the setting `auto` takes the same
branches as `flux`.

Constant-level facts are evaluated with the `MCJobPipeline` runs: `AllIsShown` (five jobs
of different times, any page size: a walk shows all) and `PackIsCut` (three of five in one
pack: what a page cuts off is lost).

Fairness (`answers`). A call runs to its end, and the provider keeps delivering what
is not answered, whenever a call is free (strong fairness, the retry the documents
rely on).

Fairness (`images`). A call ends, by commit or by rollback; time passes; the purge is
scheduled daily, and its transaction goes through in the end, because failures are
bounded. Nothing obliges a call to succeed, or anybody to delete anything.

Fairness (`stream`). A worker takes what is queued and goes on with its run, and the
endpoint subscribes and forwards while its client stays. Nobody has to connect, cancel,
fail or re-enqueue.

Fairness (`generation`). The worker goes on with its run and takes what is queued.
Failures and restarts are not fair, but bounded, by the code (retries) or by
`MaxRestarts`.

Fairness (`live`). Coroutines, workers and the RQ scheduler go on (weak
fairness); an entry is fetched in the end because lists are FIFO, and a job that is
offered to a worker again and again finds capacity in the end, because capacity is
what other runs release (strong fairness on `Fetch` and `ClaimRead`). Faults,
cancels and operator actions are not fair. `RunningSettles` fails as soon as one
fault is allowed (section 6).

`HeldIsBacked` is deliberately one-sided, and `HeldIsOutstanding` is stated for
workloads without cancels and without a second delivery: with a cancel that meets a
finalizing worker, or two runs of one job that end differently, the hold is released
twice, and `held` may fall below what is still outstanding.

## 4. Proofs

Every safety property that a passing run checks is a theorem. A theorem holds for every number of users, jobs, requests, calls, workers
and events, every cost and every balance, from the named assumptions on the constants
only; the run shows that its antecedents occur.

**Sums** (`CreditLedgerProofs`). `SumFunctionOnSet` is defined by a choice: it takes one
element after the other. That it may take any of them (`SumWithout`), and so how a sum
changes with one more row or with a union (`SumWith`, `SumOfUnion`), is an induction over
finite sets. The library's induction rules cannot be instantiated by the provers, so
it is done by hand: the subsets for which a fact fails have a smallest one
(`SmallestSubset`), and that one is refuted. On these stand one lemma per ledger
operation: `DebitSum`, `RefundSum`, `CommitHoldsSum`, `GrantSum`, `ReversalSum`. They need
that a user has finitely many rows (`LedgerFinite`), which is part of the invariants.

**Jobs** (`JobPipelineProofs`, `JobSettlementProofs`). Frame lemmas (`SubmitFrame`,
`WorkerFrame`, ...) say once what each kind of action leaves alone; each step lemma has one
case per action.

- `TypeCorrect`: `held` and `balance` are naturals because of the clamp and of the CHECK;
  the rest needs `InHand`, that a step's job or item is there. `TypeOK` is inductive.
- `SolventCorrect`: `Solvent` is not inductive, as a pack commits a total that was compared
  with the balance item by item, earlier. The invariant adds `ReservedUnderLock`: what an
  open submit has reserved is covered by the balance, and it owns the row lock for as long
  as it has reserved anything. Then nobody else can move that user's balance or holds.
- `CompletedIsChargedCorrect`, `UnfinishedIsRefundedCorrect`: the invariant adds
  `FoundIsPosted`. A transaction that found its ledger row, and so will post none, is still
  right when it commits, because the ledger only grows (`LedgerGrows`).
- `OneJobPerKeyCorrect`, `AdmittedIffHeldCorrect`: `AdmissionInv` says what an open request
  has done so far. Items ahead of it have no row, nor has anyone a row under a key that it has
  flushed (`PendingHasNoRow`); what it has flushed lies behind it, each row with its hold
  (`FlushedOwn`), and no two open requests have flushed one key (`Flushed`).
- `CloneIsFreeCorrect`: where nothing is re-enqueued by hand, every entry of a clone and
  every run of one carries `no_charge` (`EntriesFree`, `RunsFree`), as each put replaces the
  payload with what the run was fetched with; so no run of a clone comes to its commit
  with a debit to post (`PostsAreCharged`).
- `BalanceIsLedgerSumCorrect`: `BalanceInv` is the property and `LedgerFinite`; each commit
  moves balance and sum by the same amount. It needs that a key is posted once, as a row
  that was already in the set would move the balance alone. It also needed an
  assumption that the model had left out, that the opening grant's key is nobody else's.
- `OneDeliveryCorrect`, `FinishedNeverRunsCorrect`: `DeliveryInv`.
  A job that is not re-enqueued by hand is nowhere or in one place (`OnePlace`); before its
  request has enqueued it and after it was settled or refused it is nowhere (`Started`,
  `Ended`); and the claims so far, with the one that its place still allows, are within
  the bound (`ClaimsLeft`). What a step does to the places of a job is classified
  once: no new place, enqueued, put back, promoted.
- `HeldIsBackedCorrect`: `RowsInv` (what an open submit has reserved is what its
  holds cost, and only jobs with rows are settled) tells which commit takes which job off
  the outstanding ones; the clamp takes off `held` as much, or leaves zero.
- `HeldIsOutstandingCorrect`: without cancels and second deliveries a job is settled where it
  ends (`SettledAtRest`), so that no clamp ever bites (`HeldWhole`).

**Payments** (`PaymentsProofs`), invariant `IInv`. From the moment a call posts its ledger
entry it holds the lock of its user's balance row. The balance it has seen, the subscription
it has looked for and the list of plans it has copied all belong to that user, and
a commit of another call writes them under that lock only: `CallPosts` and `CallPlans` say so
step by step. The argument needs that every purchase posts, and so that every plan has
credits (`EventAssumption`; the code refuses a grant of nothing): no lock is taken for
a plan without credits, and two such purchases would insert two subscriptions. The unique
event id makes an event the call's own (`OnePerEvent`), and `CallSource` and
`PaymentSource` remember where user and credits came from. Users and admin move the ledger
of users that no call has locked (`LedgerMoves`).

- `OneSubscriptionCorrect`, `BalanceTracksLedgerCorrect` and `PaymentIsPostedCorrect` follow
  from conjuncts of `IInv`; the last is a step towards the others (a payment and its ledger
  entry are there together), and no run checks it. `BalanceTracksLedger` is an equality for every user from whom
  nothing was taken back, so that it would show a second grant of one event as well as a
  lost one.
- `EntitledByPurchaseCorrect`: no purchase takes another's plan off the list. A settings call
  may, and what it took off is excepted by name (`Overwritten`).
- `RefundReversesCorrect`: the attempt showed that it holds for events that name no user and
  have one purchase they can be about, which the property now says; for these it now also
  says that the user is the right one.

**Accounts** (`AccountsProofs`). Every step does to the tokens one of seven things (`Shape`:
nothing, read, issue, spend, rotate, drop, end a user's sessions) and to the accounts one of
three (`UsersStep`); the invariants are proved from these.

- `TypeCorrect`: the invariant `Typed` adds that a call knows the account and the token it
  works on (`Knows`); accounts are never removed, and rows are only appended.
- `OneAccountCorrect`: among rows with an address there is one per address (`OneAddress`).
- `ExchangedOnceCorrect` (`TokenInv`): a token that has been used is spent, and a call that
  still holds it, or a second one, had read it while it was live, which is what `forked` means.
  `uses` had to become unbounded for this: a bound of two in the type would have said more
  than the code does.
- `OneLivePerFamilyCorrect` (`FamilyInv`): in a lineage without a fork one call at most
  holds a token (`OneHolder`), and then no other token of the lineage is live (`HeldIsAlone`).
- `EndedSessionsStayEndedCorrect` (`EndedInv`): no call holds the standing of an ended session;
  a call that had read before an ending turns `raced`, and what it issues is not covered.

**Images** (`ImagesProofs`): `TypeOK`, `LiveHasObject`, `PurgedIsGone`, `DeletedStaysDeleted` and
`NoLinkRevived`. The inductive invariant `ImageInv` adds to them what the two stores
owe each other: a call writes only rows it loaded live (`LoadedLive`, inside `Typed`), an
upload in progress is alone with its id (`UploadAlone`), an object is in the store before
its row can be, unless its twin is deleted (`PutFirst`), an output that no run has put has
no row (`OutputsFresh`), what the purge has taken is due (`PurgeSound`), and every object
in the store belongs to an image that was put and that the purge has not cleared, or to
one it was refused (`Owned`). `Owned` is a statement about keys and not about rows, because two outputs
may share one; `PurgedIsGone` follows from it. Due rows are never listed again, which is why
the purge may delete an object whose transaction fails later. `Effects` and `CallStep`
summarise once what any step does to a row, an object and a call; the invariants are
proved from these summaries, not action by action.

**Progress** (`ProgressStreamProofs`): `TypeOK`, `ToldIsTrue` and the refinement `FeedIsKept`. The
inductive invariant `FeedInv` adds: that before any overlap one run at most is busy, and
nobody else changes the progress it has loaded (`SoloInv`); that what is announced is never
behind what was stored or announced before it, while a commit may be behind the
announcement that preceded it when the API cancels in between (`LogInv`, relative to
`Reached`); that a subscription begins behind what the client was shown (`ClientInv`); that
a run which is alone meets no final state in the row but the API's (`RunInv`); and that a
final state which was told is about to be stored, or is stored and nobody runs
(`EndInv`). The first announcement of a run beside another one ends what these promise,
and what `JobFeed` then still promises, order and the end of the stream, needs only
`ClientInv`. `StepShapes`
says once which shapes a step can have (it announces, it commits, it is silent, it
is the client's); invariant and refinement are proved shape by shape.

**Runs** (`GenerationProofs`): `TypeOK`, `OutputIsWhole` and `BestBackend`. `OutputIsWhole`
speaks only of what is stored, `BestBackend` only of the backend; the invariant `IInv` says what
a run in progress has done. `ImageInv`: the image is a
function of the position that the run has left behind (`Made`, `Variant`), whatever was
retried on the way there; a stage changes it as that function says (`MadeSteps`), and what is
not asked for changes nothing between one stage and the next (`NothingBetween`).
`TriedInv`: the pool has an answer for each backend before the current one; it stays true
because only a restart forgets (`PoolStep`), and a restart leaves no run. `AttemptsInv`: a
queued job has an attempt left. The model was changed for these proofs: positions
in `Order` and in `Candidates` took the place of a filtered sequence and a suffix of
one, whose library definitions the provers cannot expand. The reachable states correspond
one to one (96412 before and after).

**Prices and pages** (`GenerationProofs`): `PriceIsFair`, a job costs at least one credit and its
price covers the exact one, and with a base cost of at least one credit it exceeds the exact one by
one credit at most; `MoreCostsMore`, whoever asks for more, at a higher exact price, pays no
less, although the product of the smaller request may come out too high. Arithmetic of products is stated once (`Product`) and then
hidden behind `Raw`. Rounding can add a credit only to a price that is not zero: the
first attempt at the proof had left that out. `OnlyTiesAreLost`: a page and the rows behind its
cursor are disjoint, and a row in neither is as old as the page's last item.

Only model-checked: liveness (`RunningSettles`, `EventsAcknowledged`, `DeletedIsPurged`,
`Released`, `JobsEnd`), because the provers know neither fairness nor `ENABLED`; and `Paging`'s walk over all pages, a recursive function whose value for every
table would be an induction over data.

## 5. Plan

Done:

1. `CreditLedger`, `JobPipeline`: the core, money and delivery, with the proofs of all its
   safety properties.
2. `Payments` (with proofs) over `CreditLedger`: webhook dedup, refunds, chargebacks, subscriptions,
   admin grants, reconciliation of ledger and balance.
3. `Images`, with proofs: two stores, stale writes, deletion, purge.
4. `Accounts`, with proofs: tokens, sessions, families, suspension, reset, OAuth, account deletion.
5. `JobFeed` and `ProgressStream`, the abstract feed and the endpoint that implements it.
6. `Generation`, `Pricing`, `Paging`, with proofs: what happens inside a run, what it costs,
   how it is listed.

Left:

7. An abstract ledger (append-only, each job settled once) that `JobPipeline` implements
   where nobody cancels.
8. The rate limiter's windows, and the export of a user's data, beside what is there.

Most components have one passing run, `Payments` and `ProgressStream` two, money
and delivery three; a new question replaces the
less instructive of the properties of these runs.

## 6. Where code and documents disagree

Two are runs:

- *A worker always finds the row* (`pipeline/service.py:141`): the entry is on the
  queue before the transaction commits (`lookup`).
- *Debited or refunded* (`pipeline/service.py:9-10`): a cancel during the last stage
  refunds what is debited a moment later (`settle_twice`).

The others came up while modelling. Money and jobs:

- *An out-of-order refund records a reversing entry* (`docs/gamedays.md:7-10`): not if
  it names its user. Then it is recorded as a refund of nothing, and the purchase that
  comes later is granted in full.
- *Plans are set on fulfilment* (`styles/service.py:68-69`): a settings call that was
  authenticated before the fulfilment writes the old preferences back, and one that names
  `plans` itself sets them to anything (`users/schemas.py:35-36`), both without a purchase
  (`Overwritten`).
- *Never duplicates outputs* (`finalize.py:4-6`): only finished jobs are turned away, so a
  job re-enqueued while it runs is run twice (`OneDelivery`'s second part without its
  condition, in `run`).
- *Jobs that need storage fail and refund* (`docs/gamedays.md:34-35`), *jobs resume after
  a worker outage* (`docs/gamedays.md:15-17`): an exception of the object store is not
  handled, and nothing enqueues the job of a dead worker again (`RunningSettles` with
  `FaultKinds = {"storage"}` or `{"worker"}`, `MaxFaults = 1`).
- *Balance is the sum of the ledger* (`credits/models.py:3`): not after a reversal of
  credits already spent, because the entry is for all of them and the balance stops at
  zero. Where it may not go negative the entry is for what was left, and the ledger does
  not "always record the full reversal" (`docs/production-config.md:29-30`).
- *The mock provider exercises the webhook flows* (`payments/provider.py:4-6`), *webhooks
  are replayable* (`docs/runbooks.md:42-43`): its session id is a hash of user and plan, so
  a pack bought twice has one session, and its refund fails for ever
  (`EventsAcknowledged` with `Session` constant).
- A floating-point product makes some prices one credit higher than the exact one (section 2);
  the default base cost of one credit reaches that only with more than 30 steps.
- A clone that an operator re-enqueues from its row is charged: the row does not say that it
  is free (`CloneIsFree` is stated for `redeliveries = 0`).
- The entry of a cancelled job is removed before the cancel commits; if it fails, the job is
  queued in its row and nowhere else.
- The hourly limit of packs counts items and not outputs, and a pack larger than the limit
  can never pass.

Accounts:

- *Reuse of a refresh token revokes its family* (`docs/security.md:9-10`): the refusal that
  follows in the same transaction rolls the revocation back (`auth/service.py:263-266`).
- Two refreshes that both load a token unspent both exchange it, and two resets use one
  reset token: nothing locks the row. `ExchangedOnce` and `OneLivePerFamily` hold where
  no two calls overlapped so (`forked`).
- *All sessions were revoked* (`auth/router.py:117`): a login or refresh that was under way
  commits a session afterwards (`raced`).
- An admin's suspension or reinstatement overwrites the status of an account that was
  deleted, which the purge then never takes.
- The access-token deny list (`dependencies.py:54-57`) is read and never written.
- OAuth logs suspended users in, links to an account whose address nobody verified, and
  refuses for ever the identity of an account that was purged.

Images:

- *Account deletion schedules the purge of images* (`docs/security.md:40-42`): only of
  those committed when it loads them. The output of a job that is still running comes
  later and is never purged.
- Two runs of one job record two rows with one key (`finalize.py:137-171`): deleting one of
  the images takes the bytes of the other, which stays listed. `LiveHasObject` excepts that
  by name (`TwinDeleted`), and `images` has it. Two uploads of the same bytes at the same
  time give two rows.
- *A private image has no token* (`gallery/service.py:69`): a hide that loaded the row
  without a link and a share that loaded it as visible both commit. The token opens
  nothing while the image is private, and opens it again once it is published.

Progress and generation:

- *The progress a client sees* (`finalize.py:117-134`): a job that is re-enqueued while it
  runs has two runs on one channel. The older claim may announce less progress than was
  shown, and a client told "completed" may face a row that the other run makes "failed".
  `FeedIsKept` and `ToldIsTrue` hold up to the first such announcement (`overlapped`).
- *The client of the stream sees the job complete* (example in `docs/integration-guide.md:89-95`): the snapshot
  is read before the subscription begins, so that a message between them is lost; a cancel
  by the API publishes nothing; and "completed" is told before the commit, which may fail.
- *Stages raise a transient error for what may pass* (`pipeline/base.py:3-6`): only the
  generate stage does.
- *Optional stages are simply skipped without their model* (`models/loader.py:7-8`):
  stand-ins without a model do the work of several. A model that once failed to load is
  missing until the process restarts, however short the failure was.
- *The identity stage fails early* (`pipeline/instantid.py:4-6`): it runs after the image
  was generated.
- *Pages are stable, by (created_at, id)* (`core/pagination.py:3-4`): the id is not compared,
  and the jobs of a pack share one time, so a page that ends inside a pack loses its rest
  (`PackIsCut`). What the driver makes of a cursor that is passed as text is not modelled.

Read in the code, without a model: the moderation event of a refused upload or prompt is
rolled back with the request that is refused (`docs/security.md:38-39` promises it), so
that image moderation events never exist; `decide_moderation` would delete an image
without a purge date; the raw object of a presigned upload is never deleted; exports go to
a queue named "maintenance" that no worker reads, before their row is committed.

## 7. Not modelled

- Prompt screening and safety scoring: text and pixels; a refusal is a free choice of the
  submit or of the stage. Of the stages, what they do to pixels.
- The rate limiter: a count per window in Redis, which only refuses requests; a refusal is
  always possible in the models.
- The style catalogue and its cache, feature flags, the audit log and the consent log:
  nothing modelled reads them but for choices that are free. Consent is checked when a
  request is submitted, and its withdrawal stops nothing that is under way.
- Data exports: one job that reads and writes one archive.
- Access tokens, roles and expiry in `Accounts`: they decide who may call, and a call may
  always be refused. The admin's changes of an account's status are in `Accounts` only, not
  in `Images`.
- Listing, favourites, validation and presigning of images change nothing that `Images`
  looks at.
- Metrics, logging, mail, configuration, seeds, scripts, deployment and the frontend.

`JobPipeline` leaves users without a balance row out: the row is created by the first
operation and behaves like one with zero credits; `Payments` has them. `JobPipeline`
takes no reversals either: `reverse_grant` looks at the balance and not at what is held, so
`Solvent` is a property of spending alone. What a real provider puts into a refund's
session field is external. The stages' progress and its messages are in `ProgressStream`,
for one job; the money of that job is in `JobPipeline`.
