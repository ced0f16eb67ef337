----------------------------- MODULE JobPipeline -----------------------------
(***************************************************************************)
(* The life of a generation job: API submit (single jobs and packs), the   *)
(* Redis queue, the GPU workers, cancellation by user or admin, and admin  *)
(* requeue, over the credit ledger.                                        *)
(*                                                                         *)
(* An API request is one database transaction: what it inserted is visible *)
(* to others at its commit only, but what it put on the Redis queue is     *)
(* visible at once.  A worker uses a fresh transaction for every step of   *)
(* run_job.  Reads take no lock, so a transaction that read a row and then *)
(* writes it is two steps here.                                            *)
(*                                                                         *)
(* A job id is fixed by the request and the position of the item it is     *)
(* minted for (Plan), which makes ids unique as uuid7 does.                *)
(***************************************************************************)
EXTENDS CreditLedger, Sequences

CONSTANTS
    Jobs,           \* job ids
    KeyOf,          \* KeyOf[j]: the job row's idempotency_key
    Owner,          \* Owner[j]: the job row's user_id
    Cost,           \* Cost[j]: cost_credits, what price_job returned
    Clones,         \* ids of the jobs that an admin requeue creates
    Requests,       \* calls of POST /jobs and POST /jobs/pack
    Requester,      \* Requester[r]: the user who calls
    Plan,           \* Plan[r]: the job ids r mints, item by item
    Cancels,        \* calls of the two cancel endpoints
    Workers,        \* worker processes
    Stages,         \* number of stages of a job
    MaxRetries,     \* settings.job_max_retries
    FaultKinds,     \* which of "storage", "worker", "cancel" may fail
    MaxFaults,      \* bound: how many such faults
    MaxRedeliveries \* bound: manual re-enqueues after a lost queue

NewJobs == Jobs \ Clones

ASSUME JobAssumption ==
    /\ None \notin Jobs \cup Requests
    /\ KeyOf \in [Jobs -> Keys]
    /\ Owner \in [Jobs -> Users]
    /\ Cost \in [Jobs -> Nat]
    /\ Clones \subseteq Jobs

\* A clone is free, and its key "requeue:{id}:{uuid7}" is nobody else's.
ASSUME CloneAssumption ==
    \A c \in Clones : /\ Cost[c] = 0
                      /\ \A j \in Jobs \ {c} : KeyOf[j] # KeyOf[c]

ASSUME PlanAssumption ==
    /\ Requester \in [Requests -> Users]
    /\ Plan \in [Requests -> Seq(NewJobs)]
    /\ \A r \in Requests : Plan[r] # << >>
    /\ \A r \in Requests : \A i \in DOMAIN Plan[r] : Owner[Plan[r][i]] = Requester[r]
    /\ \A r, s \in Requests : \A i \in DOMAIN Plan[r], n \in DOMAIN Plan[s] :
         Plan[r][i] = Plan[s][n] => r = s /\ i = n

ASSUME BoundAssumption ==
    /\ Stages \in Nat \ {0}
    /\ MaxRetries \in Nat \ {0}
    /\ MaxFaults \in Nat
    /\ MaxRedeliveries \in Nat

VARIABLES
    status,       \* jobs.status of the committed row, "none" without a row
    attempts,     \* jobs.attempts
    outputs,      \* number of primary outputs recorded for the job
    queue,        \* number of entries of the job on the RQ lists
    scheduled,    \* jobs in RQ's scheduled registry (enqueue_in)
    freeEntries,  \* jobs whose payload in RQ carries no_charge (one per job, the last put)
    cancelFlag,   \* jobs whose Redis key job:cancel:{id} is set
    request,      \* each submit call: its step and what its open tx holds
    clone,        \* each admin requeue: not begun, open transaction, closed
    cancel,       \* each cancel call
    worker,       \* each worker process
    faults,       \* faults so far
    redeliveries  \* manual re-enqueues so far

rowVars     == <<status, attempts, outputs>>
queueVars   == <<queue, scheduled, freeEntries, cancelFlag>>
boundVars   == <<faults, redeliveries>>
apiVars     == <<request, clone, cancel>>
vars == <<ledgerVars, rowVars, queueVars, apiVars, worker, boundVars>>

JobStatus == {"none", "queued", "running", "completed", "failed", "cancelled"}
Terminal  == {"completed", "failed", "cancelled"}

RequestPc == {"lookup", "checkHold", "lockHold", "insert", "commit", "done", "aborted"}
CancelPc  == {"new", "signal", "check", "commit", "done"}
WorkerPc  == {"idle", "fetched", "claim", "load", "stage",
              "retryRead", "retryCommit", "retryEnqueue",
              "finish", "persist", "check", "commit"}

RequestState == [pc: RequestPc, item: Nat, posted: SUBSET NewJobs,
                 inserted: SUBSET NewJobs, reserved: Nat]
CancelState  == [pc: CancelPc, job: Jobs \cup {None}, post: BOOLEAN]
WorkerState  == [pc: WorkerPc, job: Jobs \cup {None}, noCharge: BOOLEAN, seen: JobStatus,
                 attempts: Nat, stage: Nat, outcome: Terminal, post: BOOLEAN]

Idle == [pc |-> "idle", job |-> None, noCharge |-> FALSE, seen |-> "none",
         attempts |-> 0, stage |-> 1, outcome |-> "failed", post |-> FALSE]

\* A call or a run that has begun has its item or its job in hand, and what is free is
\* a clone.
InHand ==
    /\ \A r \in Requests : request[r].pc \in {"lookup", "checkHold", "lockHold", "insert"}
                          => request[r].item \in DOMAIN Plan[r]
    /\ \A c \in Cancels : cancel[c].pc # "new" => cancel[c].job \in Jobs
    /\ \A w \in Workers : /\ worker[w].pc # "idle" => worker[w].job \in Jobs
                          /\ worker[w].noCharge => worker[w].job \in Clones

TypeOK ==
    /\ InHand
    /\ LedgerTypeOK
    /\ lockedBy \in [Users -> Requests \cup {None}]
    /\ status \in [Jobs -> JobStatus]
    /\ attempts \in [Jobs -> Nat]
    /\ outputs \in [Jobs -> Nat]
    /\ queue \in [Jobs -> Nat]
    /\ scheduled \subseteq Jobs
    /\ freeEntries \subseteq Clones
    /\ cancelFlag \subseteq Jobs
    /\ request \in [Requests -> RequestState]
    /\ clone \in [Clones -> {"new", "open", "closed"}]
    /\ cancel \in [Cancels -> CancelState]
    /\ worker \in [Workers -> WorkerState]
    /\ faults \in 0..MaxFaults
    /\ redeliveries \in 0..MaxRedeliveries

Init ==
    /\ LedgerInit
    /\ status = [j \in Jobs |-> "none"]
    /\ attempts = [j \in Jobs |-> 0]
    /\ outputs = [j \in Jobs |-> 0]
    /\ queue = [j \in Jobs |-> 0]
    /\ scheduled = {}
    /\ freeEntries = {}
    /\ cancelFlag = {}
    /\ request = [r \in Requests |-> [pc |-> "lookup", item |-> 1, posted |-> {},
                                      inserted |-> {}, reserved |-> 0]]
    /\ clone = [c \in Clones |-> "new"]
    /\ cancel = [c \in Cancels |-> [pc |-> "new", job |-> None, post |-> FALSE]]
    /\ worker = [w \in Workers |-> Idle]
    /\ faults = 0
    /\ redeliveries = 0

\* One more fault, as far as the bound allows.
Fault(kind) ==
    /\ kind \in FaultKinds
    /\ faults < MaxFaults
    /\ faults' = faults + 1

-----------------------------------------------------------------------------
(* Redis.  The lists are FIFO per priority; retries re-enter at another    *)
(* priority and several workers pop, so any entry may be the next.         *)

\* The payload of an entry.  RQ keeps one per job id, and the next put replaces it.
Carries(j, free) ==
    freeEntries' = IF free THEN freeEntries \cup {j} ELSE freeEntries \ {j}

\* enqueue_job without a delay.
Enqueue(j, free) ==
    /\ queue' = [queue EXCEPT ![j] = @ + 1]
    /\ Carries(j, free)
    /\ UNCHANGED <<scheduled, cancelFlag>>

\* Mutant: the delayed entry is lost.
EnqueueInLost(j, free) == UNCHANGED queueVars

\* enqueue_job with delay_seconds: the registry keeps one entry per job.
EnqueueIn(j, free) ==
    /\ scheduled' = scheduled \cup {j}
    /\ Carries(j, free)
    /\ UNCHANGED <<queue, cancelFlag>>

\* cancel_job: best-effort removal of the entry, then the flag; nothing at all
\* when Job.fetch raises.
QueueCancel(j) ==
    \/ /\ \/ /\ queue' = [queue EXCEPT ![j] = ClampedSub(@, 1)]
             /\ scheduled' = scheduled \ {j}
          \/ UNCHANGED <<queue, scheduled>>
       /\ cancelFlag' = cancelFlag \cup {j}
       /\ UNCHANGED freeEntries
    \/ UNCHANGED queueVars

\* The RQ scheduler moves an entry whose delay is over.
Promote(j) ==
    /\ j \in scheduled
    /\ scheduled' = scheduled \ {j}
    /\ queue' = [queue EXCEPT ![j] = @ + 1]
    /\ UNCHANGED <<ledgerVars, rowVars, freeEntries, cancelFlag, apiVars, worker, boundVars>>

\* The flag lives for an hour and a run for at most half an hour: it never
\* expires under the run it was set for.
ExpireFlag(j) ==
    /\ j \in cancelFlag
    /\ \A w \in Workers : worker[w].job # j
    /\ cancelFlag' = cancelFlag \ {j}
    /\ UNCHANGED <<ledgerVars, rowVars, queue, scheduled, freeEntries, apiVars, worker,
                   boundVars>>

\* An operator re-enqueues a job from its row (docs/runbooks.md, "Redis").  The row has
\* no column for no_charge: for a clone it may be lost.
Redeliver(j) ==
    /\ redeliveries < MaxRedeliveries
    /\ status[j] \in {"queued", "running"}
    /\ \E free \in BOOLEAN : (free => j \in Clones) /\ Enqueue(j, free)
    /\ redeliveries' = redeliveries + 1
    /\ UNCHANGED <<ledgerVars, rowVars, apiVars, worker, faults>>

-----------------------------------------------------------------------------
(* Submit: service.submit_job, run once per item in one transaction.       *)

\* Request r takes a step to the local state s.
Continues(r, s) == request' = [request EXCEPT ![r] = s]

Item(r) == Plan[r][request[r].item]

\* Mutant: the key of a finished job may be used again.
RowUnfinished(k) == \E j \in Jobs : status[j] \in {"queued", "running"} /\ KeyOf[j] = k

\* jobs.idempotency_key is looked up without the user.
RowWithKey(k) == \E j \in Jobs : status[j] # "none" /\ KeyOf[j] = k

\* What transaction r sees of its own inserts.
OwnKey(J, k) == \E j \in J : KeyOf[j] = k

\* The item is done: on to the next one, or to the commit of the request.
ItemDone(r) ==
    [request[r] EXCEPT !.item = @ + 1,
                       !.pc = IF request[r].item = Len(Plan[r]) THEN "commit" ELSE "lookup"]

\* The transaction is over, and what it wrote is no longer its own.
TransactionOver(r, pc) ==
    [request[r] EXCEPT !.pc = pc, !.posted = {}, !.inserted = {}, !.reserved = 0]

\* A key that has a job returns that job; a new one is validated and priced.
SubmitLookup(r) ==
    LET k == KeyOf[Item(r)]
    IN  /\ request[r].pc = "lookup"
        /\ Continues(r, IF RowWithKey(k) \/ OwnKey(request[r].inserted, k)
                        THEN ItemDone(r)
                        ELSE [request[r] EXCEPT !.pc = "checkHold"])
        /\ UNCHANGED <<ledgerVars, rowVars, queueVars, clone, cancel, worker, boundVars>>

\* Mutant: a job that cannot be paid for is let in without a hold.
HoldFoundOrUnpaid(r) ==
    \/ Posted(Requester[r], "hold", KeyOf[Item(r)])
    \/ Available(Requester[r]) < Cost[Item(r)]

\* credits.hold, the query before the lock.
HoldFound(r) ==
    \/ Posted(Requester[r], "hold", KeyOf[Item(r)])
    \/ OwnKey(request[r].posted, KeyOf[Item(r)])

SubmitCheckHold(r) ==
    /\ request[r].pc = "checkHold"
    /\ Continues(r, [request[r] EXCEPT !.pc = IF HoldFound(r) THEN "insert" ELSE "lockHold"])
    /\ UNCHANGED <<ledgerVars, rowVars, queueVars, clone, cancel, worker, boundVars>>

\* Mutant: no FOR UPDATE.
LockIgnored(r) == TRUE

\* The balance row is free, or this transaction locked it for an earlier item.
MayLock(r) == lockedBy[Requester[r]] \in {None, r}

\* credits.hold from the lock to the flush: reserve if the credits are there.
SubmitHold(r) ==
    LET u == Requester[r]
        j == Item(r)
    IN  /\ request[r].pc = "lockHold"
        /\ MayLock(r)
        /\ ~Posted(u, "hold", KeyOf[j])
        /\ Available(u) - request[r].reserved >= Cost[j]
        /\ lockedBy' = [lockedBy EXCEPT ![u] = r]
        /\ Continues(r, [request[r] EXCEPT !.pc = "insert",
                                           !.posted = @ \cup {j},
                                           !.reserved = @ + Cost[j]])
        /\ UNCHANGED <<balance, held, txns, rowVars, queueVars, clone, cancel,
                       worker, boundVars>>

\* The job row is flushed, and the job is put on the queue before the commit.
\* An insert of a key that another open transaction inserted waits for it.
SubmitInsert(r) ==
    LET j == Item(r)
    IN  /\ request[r].pc = "insert"
        /\ ~RowWithKey(KeyOf[j])
        /\ \A s \in Requests \ {r} : ~OwnKey(request[s].inserted, KeyOf[j])
        /\ Enqueue(j, FALSE)
        /\ Continues(r, [ItemDone(r) EXCEPT !.inserted = @ \cup {j}])
        /\ UNCHANGED <<ledgerVars, rowVars, clone, cancel, worker, boundVars>>

\* get_db commits when the endpoint has returned.
SubmitCommit(r) ==
    LET q == request[r]
    IN  /\ q.pc = "commit"
        /\ status' = [j \in Jobs |-> IF j \in q.inserted THEN "queued" ELSE status[j]]
        /\ CommitHolds(Requester[r], r, {KeyOf[j] : j \in q.posted}, q.reserved)
        /\ Continues(r, TransactionOver(r, "done"))
        /\ UNCHANGED <<attempts, outputs, queueVars, clone, cancel, worker, boundVars>>

\* A request may fail at every step: an item is refused (402, consent, prompt
\* screen), an insert conflicts, the client or the database is lost.  The
\* transaction is rolled back; the queue entries stay.
SubmitAbort(r) ==
    /\ request[r].pc \notin {"done", "aborted"}
    /\ Unlock(Requester[r], r)
    /\ Continues(r, TransactionOver(r, "aborted"))
    /\ UNCHANGED <<balance, held, txns, rowVars, queueVars, clone, cancel,
                   worker, boundVars>>

-----------------------------------------------------------------------------
(* admin.requeue_job: a clone of any job row, queued before its commit.    *)

RequeueOpen(c) ==
    /\ clone[c] = "new"
    /\ \E j \in Jobs : status[j] # "none" /\ Owner[j] = Owner[c]
    /\ Enqueue(c, TRUE)
    /\ clone' = [clone EXCEPT ![c] = "open"]
    /\ UNCHANGED <<ledgerVars, rowVars, request, cancel, worker, boundVars>>

RequeueCommit(c) ==
    /\ clone[c] = "open"
    /\ status' = [status EXCEPT ![c] = "queued"]
    /\ clone' = [clone EXCEPT ![c] = "closed"]
    /\ UNCHANGED <<ledgerVars, attempts, outputs, queueVars, request, cancel,
                   worker, boundVars>>

RequeueAbort(c) ==
    /\ clone[c] = "open"
    /\ clone' = [clone EXCEPT ![c] = "closed"]
    /\ UNCHANGED <<ledgerVars, rowVars, queueVars, request, cancel, worker, boundVars>>

-----------------------------------------------------------------------------
(* service.cancel_job, for a user or for an admin.                         *)

\* Call c takes a step to the local state s.
Answers(c, s) == cancel' = [cancel EXCEPT ![c] = s]

\* Any status that is not terminal may be cancelled.
Cancellable(j) == status[j] \in {"queued", "running"}

CancelRead(c, j) ==
    /\ cancel[c].pc = "new"
    /\ Cancellable(j)
    /\ Answers(c, [cancel[c] EXCEPT !.pc = "signal", !.job = j])
    /\ UNCHANGED <<ledgerVars, rowVars, queueVars, request, clone, worker, boundVars>>

CancelSignal(c) ==
    /\ cancel[c].pc = "signal"
    /\ QueueCancel(cancel[c].job)
    /\ Answers(c, [cancel[c] EXCEPT !.pc = "check"])
    /\ UNCHANGED <<ledgerVars, rowVars, request, clone, worker, boundVars>>

\* refund_hold, the query before the lock.
CancelCheck(c) ==
    LET j == cancel[c].job
    IN  /\ cancel[c].pc = "check"
        /\ Answers(c, [cancel[c] EXCEPT !.pc = "commit",
                         !.post = ~Posted(Owner[j], "refund", KeyOf[j])])
        /\ UNCHANGED <<ledgerVars, rowVars, queueVars, request, clone, worker, boundVars>>

\* The status read at the start was not CANCELLED, so the column is written
\* whatever the row holds by now.
CancelCommit(c) ==
    LET j == cancel[c].job
    IN  /\ cancel[c].pc = "commit"
        /\ \/ /\ cancel[c].post
              /\ RefundHold(Owner[j], KeyOf[j], Cost[j])
           \/ /\ ~cancel[c].post
              /\ UNCHANGED ledgerVars
        /\ status' = [status EXCEPT ![j] = "cancelled"]
        /\ Answers(c, [cancel[c] EXCEPT !.pc = "done"])
        /\ UNCHANGED <<attempts, outputs, queueVars, request, clone, worker, boundVars>>

\* Someone posted the refund since the query: the insert fails, 500.
CancelRejected(c) ==
    LET j == cancel[c].job
    IN  /\ cancel[c].pc = "commit"
        /\ cancel[c].post
        /\ RefundRejected(Owner[j], KeyOf[j])
        /\ Answers(c, [cancel[c] EXCEPT !.pc = "done"])
        /\ UNCHANGED <<ledgerVars, rowVars, queueVars, request, clone, worker, boundVars>>

\* The call is lost: what it did to the queue stays, its transaction does not.
CancelAbort(c) ==
    /\ cancel[c].pc \in {"signal", "check", "commit"}
    /\ Fault("cancel")
    /\ Answers(c, [cancel[c] EXCEPT !.pc = "done"])
    /\ UNCHANGED <<ledgerVars, rowVars, queueVars, request, clone, worker, redeliveries>>

-----------------------------------------------------------------------------
(* A worker: worker.run_job and the finalize operations it calls.          *)

\* SQLAlchemy writes a column only if it differs from the value it loaded.
Written(j, seen, new) == IF seen = new THEN status[j] ELSE new

\* Worker w takes a step to the local state s.
Becomes(w, s) == worker' = [worker EXCEPT ![w] = s]

\* The run leaves its loop over the stages.
Finishing(w, outcome) == [worker[w] EXCEPT !.pc = "finish", !.outcome = outcome]

\* What a worker step leaves alone unless it says otherwise.
ApiUnchanged == UNCHANGED <<apiVars, redeliveries>>

Fetch(w, j) ==
    /\ worker[w].pc = "idle"
    /\ queue[j] > 0
    /\ queue' = [queue EXCEPT ![j] = @ - 1]
    /\ Becomes(w, [Idle EXCEPT !.pc = "fetched", !.job = j, !.noCharge = j \in freeEntries])
    /\ ApiUnchanged
    /\ UNCHANGED <<ledgerVars, rowVars, scheduled, freeEntries, cancelFlag, faults>>

\* Mutant: goes on with the job after putting it back.
NoCapacityGoesOn(w) ==
    /\ worker[w].pc = "fetched"
    /\ EnqueueIn(worker[w].job, worker[w].noCharge)
    /\ ApiUnchanged
    /\ UNCHANGED <<ledgerVars, rowVars, worker, faults>>

\* No GPU capacity: back to the queue with a delay, before the row is read.
NoCapacity(w) ==
    /\ worker[w].pc = "fetched"
    /\ EnqueueIn(worker[w].job, worker[w].noCharge)
    /\ Becomes(w, Idle)
    /\ ApiUnchanged
    /\ UNCHANGED <<ledgerVars, rowVars, faults>>

\* claim_job's guard: unknown, finished or cancelled jobs are not run.
MayClaim(j) == status[j] \notin Terminal \cup {"none"} /\ j \notin cancelFlag

ClaimRead(w) ==
    LET j == worker[w].job
    IN  /\ worker[w].pc = "fetched"
        /\ Becomes(w, IF MayClaim(j)
                      THEN [worker[w] EXCEPT !.pc = "claim", !.seen = status[j],
                                             !.attempts = attempts[j]]
                      ELSE Idle)
        /\ ApiUnchanged
        /\ UNCHANGED <<ledgerVars, rowVars, queueVars, faults>>

ClaimCommit(w) ==
    LET j == worker[w].job
        n == worker[w].attempts + 1
    IN  /\ worker[w].pc = "claim"
        /\ status' = [status EXCEPT ![j] = Written(j, worker[w].seen, "running")]
        /\ attempts' = [attempts EXCEPT ![j] = n]
        /\ Becomes(w, [worker[w] EXCEPT !.pc = "load", !.attempts = n])
        /\ ApiUnchanged
        /\ UNCHANGED <<ledgerVars, outputs, queueVars, faults>>

LoadReferences(w) ==
    /\ worker[w].pc = "load"
    /\ Becomes(w, [worker[w] EXCEPT !.pc = "stage", !.stage = 1])
    /\ ApiUnchanged
    /\ UNCHANGED <<ledgerVars, rowVars, queueVars, faults>>

\* Cancellation is honoured between stages.
StageCancelled(w) ==
    /\ worker[w].pc = "stage"
    /\ worker[w].job \in cancelFlag
    /\ Becomes(w, Finishing(w, "cancelled"))
    /\ ApiUnchanged
    /\ UNCHANGED <<ledgerVars, rowVars, queueVars, faults>>

StageSucceeds(w) ==
    /\ worker[w].pc = "stage"
    /\ worker[w].job \notin cancelFlag
    /\ Becomes(w, IF worker[w].stage < Stages
                  THEN [worker[w] EXCEPT !.stage = @ + 1]
                  ELSE Finishing(w, "completed"))
    /\ ApiUnchanged
    /\ UNCHANGED <<ledgerVars, rowVars, queueVars, faults>>

\* Mutant: off by one.
RetryOnceMore(w, transient) == transient /\ worker[w].attempts <= MaxRetries

\* _handle_failure retries a transient error while attempts remain.
MayRetry(w, transient) == transient /\ worker[w].attempts < MaxRetries

StageFails(w, transient) ==
    /\ worker[w].pc = "stage"
    /\ worker[w].job \notin cancelFlag
    /\ Becomes(w, IF MayRetry(w, transient)
                  THEN [worker[w] EXCEPT !.pc = "retryRead"]
                  ELSE Finishing(w, "failed"))
    /\ ApiUnchanged
    /\ UNCHANGED <<ledgerVars, rowVars, queueVars, faults>>

RetryRead(w) ==
    /\ worker[w].pc = "retryRead"
    /\ Becomes(w, [worker[w] EXCEPT !.pc = "retryCommit", !.seen = status[worker[w].job]])
    /\ ApiUnchanged
    /\ UNCHANGED <<ledgerVars, rowVars, queueVars, faults>>

RetryCommit(w) ==
    LET j == worker[w].job
    IN  /\ worker[w].pc = "retryCommit"
        /\ status' = [status EXCEPT ![j] = Written(j, worker[w].seen, "queued")]
        /\ Becomes(w, [worker[w] EXCEPT !.pc = "retryEnqueue"])
        /\ ApiUnchanged
        /\ UNCHANGED <<ledgerVars, attempts, outputs, queueVars, faults>>

\* Mutant: the payload of the retry is made anew.
RetryEnqueueBare(w) ==
    /\ worker[w].pc = "retryEnqueue"
    /\ EnqueueIn(worker[w].job, FALSE)
    /\ Becomes(w, Idle)
    /\ ApiUnchanged
    /\ UNCHANGED <<ledgerVars, rowVars, faults>>

RetryEnqueue(w) ==
    /\ worker[w].pc = "retryEnqueue"
    /\ EnqueueIn(worker[w].job, worker[w].noCharge)
    /\ Becomes(w, Idle)
    /\ ApiUnchanged
    /\ UNCHANGED <<ledgerVars, rowVars, faults>>

\* The three ends of a run: finalize_success, finalize_failure, mark_cancelled.
FinishReload(w) ==
    /\ worker[w].pc = "finish"
    /\ Becomes(w, [worker[w] EXCEPT
         !.pc = IF worker[w].outcome = "completed" THEN "persist" ELSE "check",
         !.seen = status[worker[w].job]])
    /\ ApiUnchanged
    /\ UNCHANGED <<ledgerVars, rowVars, queueVars, faults>>

\* _persist_outputs uploads the objects; its rows wait for the commit.
PersistOutputs(w) ==
    /\ worker[w].pc = "persist"
    /\ Becomes(w, [worker[w] EXCEPT !.pc = "check"])
    /\ ApiUnchanged
    /\ UNCHANGED <<ledgerVars, rowVars, queueVars, faults>>

\* Mutant: a retried run is not charged.
ChargesFirstAttempt(w) == ~worker[w].noCharge /\ attempts[worker[w].job] <= 1

\* The run had no no_charge in the payload that it was fetched with.
Charges(w) == ~worker[w].noCharge

\* The ledger row an outcome posts.
Posting(outcome) == IF outcome = "completed" THEN "debit" ELSE "refund"

\* debit_sync / refund_sync, the query before the lock.
CheckLedger(w) ==
    LET j == worker[w].job
    IN  /\ worker[w].pc = "check"
        /\ Becomes(w, [worker[w] EXCEPT !.pc = "commit",
             !.post = /\ Charges(w)
                      /\ ~Posted(Owner[j], Posting(worker[w].outcome), KeyOf[j])])
        /\ ApiUnchanged
        /\ UNCHANGED <<ledgerVars, rowVars, queueVars, faults>>

\* The ledger row, the balance, the outputs and the status, in one commit.
FinishCommit(w) ==
    LET j == worker[w].job
        o == worker[w].outcome
    IN  /\ worker[w].pc = "commit"
        /\ \/ worker[w].post /\ o = "completed" /\ Debit(Owner[j], KeyOf[j], Cost[j])
           \/ worker[w].post /\ o # "completed" /\ RefundHold(Owner[j], KeyOf[j], Cost[j])
           \/ ~worker[w].post /\ UNCHANGED ledgerVars
        /\ status' = [status EXCEPT ![j] = Written(j, worker[w].seen, o)]
        /\ outputs' = [outputs EXCEPT ![j] = IF o = "completed" THEN @ + 1 ELSE @]
        /\ Becomes(w, Idle)
        /\ ApiUnchanged
        /\ UNCHANGED <<attempts, queueVars, faults>>

\* The insert or the balance CHECK fails: run_job raises, all of it is undone
\* and the entry is not delivered again (retry=None).
FinishRejected(w) ==
    LET j == worker[w].job
    IN  /\ worker[w].pc = "commit"
        /\ worker[w].post
        /\ IF worker[w].outcome = "completed"
           THEN DebitRejected(Owner[j], KeyOf[j], Cost[j])
           ELSE RefundRejected(Owner[j], KeyOf[j])
        /\ Becomes(w, Idle)
        /\ ApiUnchanged
        /\ UNCHANGED <<ledgerVars, rowVars, queueVars, faults>>

\* Object storage raises: not a StageError, so run_job does not handle it.
ObjectStoreFails(w) ==
    /\ worker[w].pc \in {"load", "persist"}
    /\ Fault("storage")
    /\ Becomes(w, Idle)
    /\ ApiUnchanged
    /\ UNCHANGED <<ledgerVars, rowVars, queueVars>>

\* The process dies, and a new one takes its place.
WorkerLost(w) ==
    /\ worker[w].pc # "idle"
    /\ Fault("worker")
    /\ Becomes(w, Idle)
    /\ ApiUnchanged
    /\ UNCHANGED <<ledgerVars, rowVars, queueVars>>

-----------------------------------------------------------------------------
SubmitStep(r) ==
    \/ SubmitLookup(r) \/ SubmitCheckHold(r) \/ SubmitHold(r)
    \/ SubmitInsert(r) \/ SubmitCommit(r)    \/ SubmitAbort(r)

RequeueStep(c) == RequeueOpen(c) \/ RequeueCommit(c) \/ RequeueAbort(c)

CancelStep(c) ==
    \/ CancelSignal(c) \/ CancelCheck(c) \/ CancelCommit(c) \/ CancelRejected(c)

\* What run_job does by itself once it has an entry and capacity.
RunStep(w) ==
    \/ ClaimCommit(w)   \/ LoadReferences(w) \/ StageCancelled(w)
    \/ StageSucceeds(w) \/ (\E transient \in BOOLEAN : StageFails(w, transient))
    \/ RetryRead(w)     \/ RetryCommit(w)    \/ RetryEnqueue(w)
    \/ FinishReload(w)  \/ PersistOutputs(w) \/ CheckLedger(w)
    \/ FinishCommit(w)  \/ FinishRejected(w)

FaultStep ==
    \/ \E w \in Workers : ObjectStoreFails(w) \/ WorkerLost(w)
    \/ \E c \in Cancels : CancelAbort(c)

Next ==
    \/ \E r \in Requests : SubmitStep(r)
    \/ \E c \in Clones : RequeueStep(c)
    \/ \E c \in Cancels : CancelStep(c) \/ (\E j \in Jobs : CancelRead(c, j))
    \/ \E w \in Workers : \/ RunStep(w) \/ ClaimRead(w) \/ NoCapacity(w)
                          \/ \E j \in Jobs : Fetch(w, j)
    \/ \E j \in Jobs : Promote(j) \/ ExpireFlag(j) \/ Redeliver(j)
    \/ FaultStep

Spec == Init /\ [][Next]_vars

\* A coroutine, a worker and the RQ scheduler go on when they can.  The lists
\* are FIFO, so an entry is fetched in the end even if others keep arriving;
\* capacity comes back whenever another run ends, so a job that is offered
\* again and again is claimed in the end.  No fault is fair.
Fairness ==
    /\ \A r \in Requests : WF_vars(SubmitStep(r))
    /\ \A c \in Clones : WF_vars(RequeueCommit(c) \/ RequeueAbort(c))
    /\ \A c \in Cancels : WF_vars(CancelStep(c))
    /\ \A w \in Workers : WF_vars(RunStep(w)) /\ SF_vars(ClaimRead(w))
    /\ \A j \in Jobs : /\ WF_vars(Promote(j))
                      /\ SF_vars(\E w \in Workers : Fetch(w, j))

FairSpec == Spec /\ Fairness

-----------------------------------------------------------------------------
(* Properties.                                                             *)

HasRow(j)  == status[j] # "none"
Debited(j) == Posted(Owner[j], "debit", KeyOf[j])
Refunded(j) == Posted(Owner[j], "refund", KeyOf[j])

\* What an open submit has reserved is covered by the balance for as long as it
\* holds the row lock, and it reserves under that lock only: the balance that
\* credits.hold compared with is still there at the commit of the whole pack.
ReservedUnderLock ==
    \A r \in Requests :
        LET u == Requester[r]
        IN  /\ request[r].reserved > 0 => lockedBy[u] = r
            /\ lockedBy[u] = r => held[u] + request[r].reserved <= balance[u]

\* Two job rows never share an idempotency key, however many submits race with
\* the same key (submit_job looks the key up long before it inserts the row).
OneJobPerKey ==
    \A i, j \in Jobs : HasRow(i) /\ HasRow(j) /\ KeyOf[i] = KeyOf[j] => i = j

\* A submitted job row and its hold are committed together or not at all, also
\* when a later item of a pack fails or a hold of the same key is found.
AdmittedIffHeld ==
    /\ \A j \in NewJobs : HasRow(j) => Posted(Owner[j], "hold", KeyOf[j])
    /\ \A t \in txns : t.type = "hold" =>
         \E j \in NewJobs : HasRow(j) /\ Owner[j] = t.user /\ KeyOf[j] = t.key

\* No job is delivered for free: a completed job that charges has its debit,
\* whatever was retried, redelivered or cancelled on the way.
CompletedIsCharged ==
    \A j \in NewJobs : status[j] = "completed" => Debited(j)

\* A job that failed or was cancelled has given its hold back.
UnfinishedIsRefunded ==
    \A j \in NewJobs : status[j] \in {"failed", "cancelled"} => Refunded(j)

\* A transaction that found its ledger row posted, and so posts none, is right
\* about it until it commits.
FoundIsPosted ==
    /\ \A w \in Workers : LET j == worker[w].job IN
         worker[w].pc = "commit" /\ ~worker[w].post /\ j \in NewJobs
         => Posted(Owner[j], Posting(worker[w].outcome), KeyOf[j])
    /\ \A c \in Cancels : cancel[c].pc = "commit" /\ ~cancel[c].post => Refunded(cancel[c].job)

\* An admin requeue is a "new attempt without re-charging the user": its clone never
\* posts a debit, however often it is retried, put back without capacity or cancelled.
\* The flag that says so is in the payload only, handed on from entry to run to entry; an
\* entry made from the row may lack it.
CloneIsFree == redeliveries = 0 => \A c \in Clones : ~Debited(c)

\* The holds that neither a debit nor a refund has settled.
Outstanding(u) ==
    SumFunctionOnSet(Cost, {j \in NewJobs : /\ Owner[j] = u /\ HasRow(j)
                                            /\ ~Debited(j) /\ ~Refunded(j)})

\* Nothing is reserved without an unsettled job that it is reserved for: no
\* order of holds, debits and refunds leaves credits locked behind.
HeldIsBacked == \A u \in Users : held[u] <= Outstanding(u)

\* Where nobody cancels and nothing is delivered twice, the reservation of an unsettled
\* job is whole: no other job of its user has released a part of it.
HeldIsOutstanding ==
    Cancels = {} /\ redeliveries = 0 => \A u \in Users : held[u] = Outstanding(u)

\* Queue entries and running workers of a job.
Deliveries(j) ==
    queue[j] + (IF j \in scheduled THEN 1 ELSE 0)
             + Cardinality({w \in Workers : worker[w].job = j})

\* Until an operator re-enqueues one, a job is in one place only: retries, capacity
\* requeues and the scheduler never give two workers the same job; its outputs are
\* recorded once; and it is claimed no more often than JOB_MAX_RETRIES says.
OneDelivery ==
    redeliveries = 0 =>
      \A j \in Jobs : Deliveries(j) <= 1 /\ outputs[j] <= 1 /\ attempts[j] <= MaxRetries

\* A job that completed or failed is never queued or run again.
FinishedNeverRuns ==
    [][\A j \in Jobs : /\ redeliveries = 0
                       /\ status[j] \in {"completed", "failed"}
                       => status'[j] \notin {"queued", "running"}]_status

\* The hold of a job is settled one way or the other.
Settled(j) ==
    IF j \in Clones THEN status[j] \in Terminal ELSE Debited(j) \/ Refunded(j)

\* A job that a worker has claimed is settled in the end: stages, retries and
\* cancellation leave no reservation behind.
RunningSettles == \A j \in Jobs : status[j] = "running" ~> Settled(j)

-----------------------------------------------------------------------------
(* What comments and documents say, and the code does not do.              *)

\* pipeline/service.py: the job is enqueued after the row is persisted "so the
\* worker always finds it".
WorkerAlwaysFindsRow ==
    \A w \in Workers : worker[w].pc = "fetched" => HasRow(worker[w].job)

\* pipeline/service.py: the held amount is "converted to a debit on success or
\* refunded on failure/cancellation".
NeverDebitedAndRefunded == \A j \in NewJobs : ~(Debited(j) /\ Refunded(j))
=============================================================================
