--------------------------- MODULE ProgressStream ---------------------------
(***************************************************************************)
(* How one job's progress reaches a client: the worker announces every     *)
(* state on a Redis channel while the transaction that stores it is still  *)
(* open; the SSE endpoint sends a snapshot of the row, subscribes, and     *)
(* forwards messages up to a final one (pipeline/router.py, job_events;    *)
(* pipeline/finalize.py; ai_engine/worker.py).                             *)
(*                                                                         *)
(* The job is stored and queued; credits and outputs are left out.  An     *)
(* operator may re-enqueue it while a run of it goes on, and then two      *)
(* workers announce and write at once.  A stage that succeeds raises the   *)
(* progress by one, completion is one more.                                *)
(***************************************************************************)
EXTENDS Naturals, Sequences

CONSTANTS
    Workers,         \* worker processes
    Stages,          \* stages of the job
    MaxRetries,      \* settings.job_max_retries
    MaxFaults,       \* bound: rollbacks and deaths
    MaxRedeliveries, \* bound: manual re-enqueues
    MaxOpens         \* bound: connections of the client

ASSUME StreamAssumption ==
    /\ Stages \in Nat \ {0} /\ MaxRetries \in Nat \ {0}
    /\ MaxFaults \in Nat /\ MaxRedeliveries \in Nat /\ MaxOpens \in Nat

VARIABLES
    row,        \* the committed job: status, progress, attempts
    entries,    \* number of entries of the job in the queue, due or delayed
    flag,       \* the Redis key job:cancel:{id}
    worker,     \* each worker's run: its step, stage and attempt, its open transaction
    cancel,     \* the API's cancel call: "none", "loaded", "done"
    client,     \* the SSE connection
    log,        \* history: what was announced (told) and what was committed, in order
    undone,     \* history: an announced state was rolled back
    overlapped, \* history: a run announced while another was under way
    faults, redeliveries, opens

vars == <<row, entries, flag, worker, cancel, client, log, undone, overlapped,
          faults, redeliveries, opens>>

jobVars     == <<row, entries, flag, cancel>>
streamVars  == <<client, opens>>
faultVars   == <<undone, faults, redeliveries>>
historyVars == <<log, overlapped>>

-----------------------------------------------------------------------------
JobStatus == {"queued", "running", "completed", "failed", "cancelled"}
Terminal  == {"completed", "failed", "cancelled"}

Full == Stages + 1

Job   == [status: JobStatus, progress: 0..Full, attempts: Nat]
State == [status: JobStatus, progress: 0..Full, told: BOOLEAN]

NewJob == [status |-> "queued", progress |-> 0, attempts |-> 0]

\* pc: no run; about to look at the flag; in a stage; in the transaction that stores
\* what was just announced (seen is the row it loaded, next the row it leaves, then the
\* step after it); about to put a delayed entry.  attempts is what the claim counted.
Run == [pc: {"idle", "check", "stage", "commit", "requeue"}, stage: 1..Full,
        attempts: Nat, seen: Job, next: Job, then: {"idle", "check", "requeue"}]

At(pc, stage, attempts) ==
    [pc |-> pc, stage |-> stage, attempts |-> attempts,
     seen |-> NewJob, next |-> NewJob, then |-> "idle"]

Idle == At("idle", 1, 0)

NoClient == [pc |-> "away", shown |-> 0, from |-> 0]

Kept(j)  == [status |-> j.status, progress |-> j.progress, told |-> FALSE]
Told(j)  == [status |-> j.status, progress |-> j.progress, told |-> TRUE]

TypeOK ==
    /\ row \in Job
    /\ entries \in Nat
    /\ flag \in BOOLEAN /\ undone \in BOOLEAN /\ overlapped \in BOOLEAN
    /\ worker \in [Workers -> Run]
    /\ cancel \in {"none", "loaded", "done"}
    /\ log \in Seq(State) /\ log # <<>>
    /\ client \in [pc: {"away", "snapshot", "subscribed", "ended"},
                   shown: 0..Len(log), from: 0..Len(log) + 1]
    /\ faults \in 0..MaxFaults
    /\ redeliveries \in 0..MaxRedeliveries
    /\ opens \in 0..MaxOpens

Init ==
    /\ row = NewJob
    /\ entries = 1 /\ flag = FALSE
    /\ worker = [w \in Workers |-> Idle]
    /\ cancel = "none"
    /\ client = NoClient
    /\ log = <<Kept(NewJob)>>
    /\ undone = FALSE /\ overlapped = FALSE
    /\ faults = 0 /\ redeliveries = 0 /\ opens = 0

-----------------------------------------------------------------------------
(* The run of worker w *)

\* The job is claimed, and what the run does to its row is not over.
Busy(w) == worker[w].pc \in {"check", "stage", "commit"}

Becomes(w, run) == worker' = [worker EXCEPT ![w] = run]

\* The row is loaded and changed to next, told is announced, and the commit comes later;
\* the run goes on with step then.
Announces(w, next, told, then, stage, attempts) ==
    /\ Becomes(w, [pc |-> "commit", stage |-> stage, attempts |-> attempts,
                   seen |-> row, next |-> next, then |-> then])
    /\ log' = Append(log, Told(told))
    /\ overlapped' = (overlapped \/ \E v \in Workers \ {w} : Busy(v))
    /\ UNCHANGED <<row, flag, cancel, streamVars, faultVars>>

\* Mutants of Claim: the progress begins again; a finished job is run again.
ClaimAfresh(w) ==
    LET n    == row.attempts + 1
        next == [status |-> "running", progress |-> 0, attempts |-> n]
    IN  /\ worker[w].pc = "idle" /\ entries > 0 /\ entries' = entries - 1
        /\ row.status \notin Terminal /\ ~flag
        /\ Announces(w, next, next, "check", 1, n)

ClaimAgain(w) ==
    LET n    == row.attempts + 1
        next == [status |-> "running", progress |-> row.progress, attempts |-> n]
    IN  /\ worker[w].pc = "idle" /\ entries > 0 /\ entries' = entries - 1
        /\ row.status # "cancelled" /\ ~flag
        /\ Announces(w, next, next, "check", 1, n)

\* claim_job.  A finished or cancelled job is skipped.
Claim(w) ==
    LET n    == row.attempts + 1
        next == [status |-> "running", progress |-> row.progress, attempts |-> n]
    IN  /\ worker[w].pc = "idle" /\ entries > 0
        /\ entries' = entries - 1
        /\ IF row.status \in Terminal \/ flag
           THEN UNCHANGED <<row, flag, worker, cancel, historyVars, streamVars, faultVars>>
           ELSE Announces(w, next, next, "check", 1, n)

\* Mutant of CheckCancel: the loop over the stages begins once too often.
CheckCancelOnceMore(w) ==
    /\ worker[w].pc = "check" /\ worker[w].stage <= Full
    /\ Becomes(w, At("stage", worker[w].stage, worker[w].attempts))
    /\ UNCHANGED <<jobVars, historyVars, streamVars, faultVars>>

\* Between two stages: a requested cancellation is carried out (mark_cancelled).
CheckCancel(w) ==
    LET next == [row EXCEPT !.status = "cancelled"]
    IN  /\ worker[w].pc = "check" /\ worker[w].stage <= Stages
        /\ UNCHANGED entries
        /\ IF flag
           THEN Announces(w, next, next, "idle", 1, 0)
           ELSE /\ Becomes(w, At("stage", worker[w].stage, worker[w].attempts))
                /\ UNCHANGED <<row, flag, cancel, historyVars, streamVars, faultVars>>

Larger(p, q) == IF p > q THEN p ELSE q

\* set_progress: "running" is announced whatever the row says, and not written.
StageDone(w) ==
    LET me   == worker[w]
        next == [row EXCEPT !.progress = Larger(row.progress, me.stage)]
    IN  /\ me.pc = "stage"
        /\ Announces(w, next, [next EXCEPT !.status = "running"],
                     "check", me.stage + 1, me.attempts)
        /\ UNCHANGED entries

\* Mutant of StageRetried: the retry is announced as a failure.
StageRetriedAsFailed(w) ==
    LET next == [row EXCEPT !.status = "queued"]
    IN  /\ worker[w].pc = "stage" /\ worker[w].attempts < MaxRetries
        /\ Announces(w, next, [next EXCEPT !.status = "failed"], "requeue", 1, 0)
        /\ UNCHANGED entries

\* A transient error while the attempt that the claim counted is not the last one.
\* The row is written whatever it says by now.
StageRetried(w) ==
    LET next == [row EXCEPT !.status = "queued"]
    IN  /\ worker[w].pc = "stage" /\ worker[w].attempts < MaxRetries
        /\ Announces(w, next, next, "requeue", 1, 0)
        /\ UNCHANGED entries

\* Mutant of StageFailed: the failure is stored and not announced.
StageFailedSilently(w) ==
    LET next == [row EXCEPT !.status = "failed"]
    IN  /\ worker[w].pc = "stage"
        /\ Becomes(w, [Idle EXCEPT !.pc = "commit", !.seen = row, !.next = next])
        /\ UNCHANGED <<jobVars, historyVars, streamVars, faultVars>>

\* finalize_failure.
StageFailed(w) ==
    LET next == [row EXCEPT !.status = "failed"]
    IN  /\ worker[w].pc = "stage"
        /\ Announces(w, next, next, "idle", 1, 0)
        /\ UNCHANGED entries

\* finalize_success, after the last stage; the flag is not looked at again.
Finish(w) ==
    LET next == [status |-> "completed", progress |-> Full, attempts |-> row.attempts]
    IN  /\ worker[w].pc = "check" /\ worker[w].stage > Stages
        /\ Announces(w, next, next, "idle", 1, 0)
        /\ UNCHANGED entries

\* Only columns that differ from what was loaded are written.
Written(seen, next) ==
    [status   |-> IF next.status # seen.status THEN next.status ELSE row.status,
     progress |-> IF next.progress # seen.progress THEN next.progress ELSE row.progress,
     attempts |-> IF next.attempts # seen.attempts THEN next.attempts ELSE row.attempts]

Commit(w) ==
    LET me == worker[w]
    IN  /\ me.pc = "commit"
        /\ row' = Written(me.seen, me.next)
        /\ log' = Append(log, Kept(row'))
        /\ Becomes(w, At(me.then, me.stage, me.attempts))
        /\ UNCHANGED <<entries, flag, cancel, overlapped, streamVars, faultVars>>

\* The delayed entry of a retry, after the commit.  The registry keeps one entry per job:
\* it may take the place of one that is there.
Requeue(w) ==
    /\ worker[w].pc = "requeue"
    /\ \/ entries' = entries + 1
       \/ entries > 0 /\ UNCHANGED entries
    /\ Becomes(w, Idle)
    /\ UNCHANGED <<row, flag, cancel, historyVars, streamVars, faultVars>>

\* The run ends at any step, by an exception or with its process; an open transaction
\* is rolled back, what it announced is not.
Dies(w) ==
    /\ worker[w].pc # "idle"
    /\ faults < MaxFaults /\ faults' = faults + 1
    /\ undone' = (undone \/ worker[w].pc = "commit")
    /\ Becomes(w, Idle)
    /\ UNCHANGED <<jobVars, historyVars, streamVars, redeliveries>>

\* An operator re-enqueues a job from its row, which a run may have in hand
\* (docs/runbooks.md, "Redis").
Redeliver ==
    /\ redeliveries < MaxRedeliveries /\ redeliveries' = redeliveries + 1
    /\ row.status \in {"queued", "running"}
    /\ entries' = entries + 1
    /\ UNCHANGED <<row, flag, cancel, worker, historyVars, streamVars, undone, faults>>

-----------------------------------------------------------------------------
(* The API's cancel_job: the queue is told first, the row is committed later and     *)
(* nothing is announced.                                                             *)

\* An entry is removed and the flag set, as far as Redis lets it.
CancelLoad ==
    /\ cancel = "none" /\ row.status \notin Terminal
    /\ cancel' = "loaded"
    /\ \/ flag' = TRUE /\ UNCHANGED entries
       \/ flag' = TRUE /\ entries > 0 /\ entries' = entries - 1
       \/ UNCHANGED <<flag, entries>>
    /\ UNCHANGED <<row, worker, historyVars, streamVars, faultVars>>

CancelCommit ==
    /\ cancel = "loaded"
    /\ cancel' = "done"
    /\ row' = [row EXCEPT !.status = "cancelled"]
    /\ log' = Append(log, Kept(row'))
    /\ UNCHANGED <<entries, flag, worker, overlapped, streamVars, faultVars>>

-----------------------------------------------------------------------------
(* The SSE endpoint *)

\* The last committed state in the log.
Stored == {k \in 1..Len(log) : ~log[k].told /\ \A m \in (k + 1)..Len(log) : log[m].told}

\* The row is loaded to authorise the client, and sent at once.
Open ==
    /\ client.pc = "away"
    /\ opens < MaxOpens /\ opens' = opens + 1
    /\ \E k \in Stored :
         client' = [pc |-> IF row.status \in Terminal THEN "ended" ELSE "snapshot",
                    shown |-> k, from |-> 0]
    /\ UNCHANGED <<jobVars, worker, historyVars, faultVars>>

\* Mutant of Subscribe: the channel is read from its start, as a stream would be.
SubscribeFromStart ==
    /\ client.pc = "snapshot"
    /\ client' = [client EXCEPT !.pc = "subscribed", !.from = 1]
    /\ UNCHANGED <<jobVars, worker, historyVars, opens, faultVars>>

\* What was announced before the subscription is not delivered.
Subscribe ==
    /\ client.pc = "snapshot"
    /\ client' = [pc |-> "subscribed", shown |-> client.shown, from |-> Len(log) + 1]
    /\ UNCHANGED <<jobVars, worker, historyVars, opens, faultVars>>

\* Messages that wait for the client.
Waiting == {k \in client.from..Len(log) : log[k].told}

\* One message is forwarded, the oldest; a final one ends the stream.
Receive ==
    /\ client.pc = "subscribed"
    /\ \E k \in Waiting :
         /\ \A n \in Waiting : k <= n
         /\ client' = [pc |-> IF log[k].status \in Terminal THEN "ended" ELSE "subscribed",
                       shown |-> k, from |-> k + 1]
    /\ UNCHANGED <<jobVars, worker, historyVars, opens, faultVars>>

\* The client goes, or its connection or the channel's is lost; it may come back.
Leave ==
    /\ client.pc # "away"
    /\ client' = NoClient
    /\ UNCHANGED <<jobVars, worker, historyVars, opens, faultVars>>

-----------------------------------------------------------------------------
RunStep(w) ==
    \/ Claim(w) \/ CheckCancel(w) \/ StageDone(w) \/ StageRetried(w) \/ StageFailed(w)
    \/ Finish(w) \/ Commit(w) \/ Requeue(w)

CancelStep == CancelLoad \/ CancelCommit
ClientStep == Open \/ Subscribe \/ Receive \/ Leave

Next == (\E w \in Workers : RunStep(w) \/ Dies(w)) \/ Redeliver \/ CancelStep \/ ClientStep

\* A worker fetches what is queued, a stage ends (run_job has a time limit), and the
\* endpoint goes on as long as the client stays.
Fairness ==
    /\ \A w \in Workers : WF_vars(RunStep(w))
    /\ WF_vars(Subscribe) /\ WF_vars(Receive)

Spec == Init /\ [][Next]_vars
FairSpec == Spec /\ Fairness

-----------------------------------------------------------------------------
(* Properties *)

Reader == IF client.pc = "away" THEN "away"
          ELSE IF client.pc = "ended" THEN "closed" ELSE "reading"

Feed == INSTANCE JobFeed WITH
            Final <- Terminal, shown <- client.shown, reader <- Reader,
            disturbed <- undone \/ overlapped

\* A client is shown states in the order in which they were announced and stored, up to
\* a final one.  The job moves forward only, although the snapshot comes from the database
\* and the rest from a channel that runs ahead of it, across retries and re-enqueues, and
\* however a cancellation falls in between; until a transaction is rolled back after its
\* announcement, or a run announces beside another one.
FeedIsKept == Feed!Spec

\* A run is about to commit the end of the job.
Pending(status) == \E w \in Workers : worker[w].pc = "commit" /\ worker[w].then = "idle"
                                       /\ worker[w].next.status = status

\* docs/integration-guide.md: the stream ends with the final state of the job.  It is
\* announced before its commit, and stays the state of the job, whatever is retried or
\* re-enqueued before and after; but the API may cancel a job that was just announced as
\* finished, and a run that goes on may write over "cancelled" as the API stored it.
ToldIsTrue ==
    client.pc = "ended" /\ ~undone /\ ~overlapped =>
        LET last == log[client.shown]
        IN  \/ row.status = last.status \/ Pending(last.status)
            \/ cancel = "done" /\ row.status = "cancelled"
            \/ cancel = "done" /\ last = Kept([last EXCEPT !.status = "cancelled"])

\* The last announcement so far.
LastTold == {k \in 1..Len(log) : log[k].told /\ \A m \in (k + 1)..Len(log) : ~log[m].told}

\* A client that subscribes before the final announcement is let go, unless a fault, a
\* run beside another one or the API's cancellation keeps it from being made.
Released ==
    (client.pc = "subscribed" /\ \A k \in LastTold : log[k].status \notin Terminal)
        ~> (client.pc # "subscribed" \/ faults > 0 \/ overlapped \/ cancel # "none")

=============================================================================
