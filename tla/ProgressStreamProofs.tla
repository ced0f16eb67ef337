------------------------ MODULE ProgressStreamProofs ------------------------
(***************************************************************************)
(* ProgressStream keeps its types, implements JobFeed and tells the truth  *)
(* about how a job ends, for every number of workers, stages, attempts,    *)
(* faults, re-enqueues and connections.  The invariant says that there is  *)
(* one run at a time until two overlap; how far the log has got (Reached), *)
(* so that what is announced is never behind what was stored or announced  *)
(* before it; that a subscription begins behind what the client was shown; *)
(* and that once the end of the job is in the log nobody runs (Over).      *)
(***************************************************************************)
EXTENDS ProgressStream, SequenceTheorems, TLAPS

\* A stage that runs is one of the job's.
StageInv == \A w \in Workers : worker[w].pc = "stage" => worker[w].stage <= Stages

\* No two runs at once have announced, and nobody else changes the progress that a run
\* has loaded; its transaction raises it or leaves it.
SoloInv == ~overlapped =>
    /\ \A v, w \in Workers : Busy(v) /\ Busy(w) => v = w
    /\ \A w \in Workers : worker[w].pc = "commit" =>
         row.progress = worker[w].seen.progress /\ row.progress <= worker[w].next.progress

TypeInv == TypeOK /\ StageInv

Calm == ~undone /\ ~overlapped

\* The job has got as far as progress p, by what was announced last.
Reached(p) ==
    /\ \A w \in Workers : worker[w].pc = "commit" => p <= worker[w].next.progress
    /\ (\A w \in Workers : worker[w].pc # "commit") => p <= row.progress

LogInv ==
    /\ \A k \in Stored : log[k].status = row.status
    /\ Calm => \A k \in 1..Len(log) : Reached(log[k].progress)
    /\ Calm => \A i, k \in 1..Len(log) :
                 i < k /\ log[k].told => log[i].progress <= log[k].progress

ClientInv ==
    /\ client.pc = "away" <=> client.shown = 0
    /\ client.pc = "subscribed" => client.from > client.shown
    /\ client.pc = "ended" => log[client.shown].status \in Terminal

ApiCancelled(status) == status = "cancelled" /\ cancel = "done"

\* A single run meets no final state in the row but the API's, and ends with the one that
\* it writes.
RunInv == ~overlapped =>
    /\ \A w \in Workers : Busy(w) /\ row.status \in Terminal => ApiCancelled(row.status)
    /\ \A w \in Workers : worker[w].pc = "commit" =>
         LET me == worker[w]
         IN  /\ me.seen.status \in Terminal => ApiCancelled(me.seen.status)
             /\ me.seen.status = row.status \/ ApiCancelled(row.status)
             /\ me.next.status \in Terminal /\ me.next.status # me.seen.status
                  => me.then = "idle"

\* The end of the job is about to be stored; or it is, and nobody runs.
Over(status) ==
    \/ Pending(status)
    \/ /\ \A w \in Workers : ~Busy(w)
       /\ row.status = status \/ ApiCancelled(row.status)

\* A final state, unless the API stored it.
IsEnd(e) == e.status \in Terminal /\ (e.told \/ ~ApiCancelled(e.status))

EndInv == Calm => \A k \in 1..Len(log) : IsEnd(log[k]) => Over(log[k].status)

FeedInv == TypeInv /\ SoloInv /\ LogInv /\ ClientInv /\ RunInv /\ EndInv

-----------------------------------------------------------------------------
(* Appending *)

\* What Append leaves and what it adds.
LEMMA AppendKeeps ==
    ASSUME NEW S, NEW s \in Seq(S), NEW e \in S
    PROVE  /\ Append(s, e) \in Seq(S)
           /\ Append(s, e) # << >>
           /\ Len(s) \in Nat
           /\ Len(Append(s, e)) = Len(s) + 1
           /\ Append(s, e)[Len(s) + 1] = e
           /\ \A k \in 1..Len(s) : Append(s, e)[k] = s[k]
           /\ SubSeq(Append(s, e), 1, Len(s)) = s
  <1>1. /\ Append(s, e) \in Seq(S)
        /\ Append(s, e) # << >>
        /\ Len(s) \in Nat
        /\ Len(Append(s, e)) = Len(s) + 1
        /\ Append(s, e)[Len(s) + 1] = e
        /\ \A k \in 1..Len(s) : Append(s, e)[k] = s[k]
    BY SMT
  <1> DEFINE t == SubSeq(Append(s, e), 1, Len(s))
  <1>2. /\ t \in Seq(S)
        /\ Len(t) = Len(s)
        /\ \A k \in 1..Len(s) : t[k] = s[k]
    <2>1. \A k \in 1..Len(s) : Append(s, e)[k] \in S
      BY <1>1, SMT
    <2> QED
      BY <1>1, <2>1, SubSeqProperties, SMT
  <1>3. t = s
    BY <1>2, SeqEqual, SMT
  <1> QED
    BY <1>1, <1>3

-----------------------------------------------------------------------------
(* Types *)

LEMMA StageFacts ==
    /\ Stages \in Nat \ {0} /\ MaxRetries \in Nat \ {0}
    /\ Full \in Nat /\ Full = Stages + 1 /\ 0 \in 0..Full /\ 1 \in 1..Full
    /\ NewJob \in Job
  <1>1. Full \in Nat /\ Full = Stages + 1 /\ 0 \in 0..Full /\ 1 \in 1..Full
    BY StreamAssumption, SMT DEF Full
  <1>2. NewJob \in Job
    BY <1>1, SMT DEF NewJob, Job, JobStatus
  <1> QED
    BY <1>1, <1>2, StreamAssumption

LEMMA AtTypes ==
    ASSUME NEW pc \in {"idle", "check", "stage", "requeue"}, NEW stage \in 1..Full,
           NEW attempts \in Nat
    PROVE  /\ At(pc, stage, attempts) \in Run
           /\ At(pc, stage, attempts).pc = pc
           /\ At(pc, stage, attempts).stage = stage
  BY StageFacts, SMT DEF At, Run

LEMMA IdleTypes == Idle \in Run /\ Idle.pc = "idle"
  <1>1. 0 \in Nat /\ "idle" \in {"idle", "check", "stage", "requeue"}
    OBVIOUS
  <1> QED
    BY <1>1, StageFacts, AtTypes DEF Idle

LEMMA InitTypeInv == ASSUME Init PROVE TypeInv
  <1>1. Kept(NewJob) \in State
    BY StageFacts, SMT DEF Kept, Job, State
  <1>2. log \in Seq(State) /\ log # << >> /\ Len(log) = 1
    BY <1>1, SMT DEF Init
  <1>3. worker \in [Workers -> Run] /\ \A w \in Workers : worker[w].pc = "idle"
    BY IdleTypes DEF Init
  <1>4. client \in [pc: {"away", "snapshot", "subscribed", "ended"},
                    shown: 0..Len(log), from: 0..Len(log) + 1]
    BY <1>2, SMT DEF Init, NoClient
  <1>5. /\ row \in Job /\ flag \in BOOLEAN /\ undone \in BOOLEAN /\ overlapped \in BOOLEAN
        /\ cancel \in {"none", "loaded", "done"}
    BY StageFacts DEF Init
  <1>6. /\ entries \in Nat
        /\ faults \in 0..MaxFaults
        /\ redeliveries \in 0..MaxRedeliveries
        /\ opens \in 0..MaxOpens
    BY StreamAssumption, SMT DEF Init
  <1>7. TypeOK
    BY <1>2, <1>3, <1>4, <1>5, <1>6 DEF TypeOK
  <1>8. StageInv
    BY <1>3 DEF StageInv
  <1> QED
    BY <1>7, <1>8 DEF TypeInv

\* What is known of the row and of a run in a typed state, for the steps that load them.
LEMMA RowTypes ==
    ASSUME TypeInv
    PROVE  /\ row \in Job
           /\ row.status \in JobStatus /\ row.progress \in 0..Full /\ row.progress \in Nat
           /\ row.attempts \in Nat
  BY StageFacts, SMT DEF TypeInv, TypeOK, Job

LEMMA RunTypes ==
    ASSUME TypeInv, NEW w \in Workers
    PROVE  /\ worker[w] \in Run
           /\ worker[w].stage \in 1..Full /\ worker[w].attempts \in Nat
           /\ worker[w].seen \in Job /\ worker[w].next \in Job
           /\ worker[w].next.progress \in Nat
           /\ worker[w].then \in {"idle", "check", "requeue"}
  <1>1. worker[w] \in Run
    BY DEF TypeInv, TypeOK
  <1>2. /\ worker[w].stage \in 1..Full /\ worker[w].attempts \in Nat
        /\ worker[w].seen \in Job /\ worker[w].next \in Job
        /\ worker[w].then \in {"idle", "check", "requeue"}
    BY <1>1 DEF Run
  <1>3. \A j \in Job : j.progress \in Nat
    BY StageFacts, SMT DEF Job
  <1> QED
    BY <1>1, <1>2, <1>3

LEMMA BecomesKeeps ==
    ASSUME TypeInv, NEW w \in Workers, NEW run, Becomes(w, run)
    PROVE  /\ worker'[w] = run
           /\ \A v \in Workers \ {w} : worker'[v] = worker[v]
           /\ run \in Run => worker' \in [Workers -> Run]
  BY DEF Becomes, TypeInv, TypeOK

\* A transaction is opened: what it announces and what it will store are typed.
LEMMA AnnouncesTypes ==
    ASSUME TypeInv, NEW w \in Workers, NEW next \in Job, NEW told \in Job,
           NEW then \in {"idle", "check", "requeue"}, NEW stage \in 1..Full,
           NEW attempts \in Nat, entries' \in Nat,
           Announces(w, next, told, then, stage, attempts)
    PROVE  TypeInv'
  <1> DEFINE run == [pc |-> "commit", stage |-> stage, attempts |-> attempts,
                     seen |-> row, next |-> next, then |-> then]
  <1>1. Told(told) \in State
    BY SMT DEF Told, Job, State
  <1>2. /\ log' \in Seq(State) /\ log' # << >>
        /\ Len(log) \in Nat /\ Len(log') = Len(log) + 1
    BY <1>1, AppendKeeps, SMT DEF Announces, TypeInv, TypeOK
  <1>3. run \in Run /\ run.pc = "commit"
    BY RowTypes, SMT DEF Run
  <1>4. Becomes(w, run)
    BY DEF Announces
  <1> HIDE DEF run
  <1>5. worker' \in [Workers -> Run] /\ worker'[w].pc = "commit"
        /\ \A v \in Workers \ {w} : worker'[v] = worker[v]
    BY <1>3, <1>4, BecomesKeeps
  <1>6. UNCHANGED <<row, flag, cancel, client, opens, undone, faults, redeliveries>>
    BY DEF Announces, streamVars, faultVars
  <1>7. overlapped' \in BOOLEAN
    BY DEF Announces, TypeInv, TypeOK
  <1>8. client' \in [pc: {"away", "snapshot", "subscribed", "ended"},
                     shown: 0..Len(log'), from: 0..Len(log') + 1]
    BY <1>2, <1>6, SMT DEF TypeInv, TypeOK
  <1>9. TypeOK'
    BY <1>2, <1>5, <1>6, <1>7, <1>8 DEF TypeInv, TypeOK
  <1>10. StageInv'
    BY <1>5 DEF TypeInv, StageInv
  <1> QED
    BY <1>9, <1>10 DEF TypeInv

\* A step of a run that opens no transaction and commits none.
LEMMA StepTypes ==
    ASSUME TypeInv, NEW w \in Workers, NEW run \in Run, Becomes(w, run),
           run.pc = "stage" => run.stage <= Stages,
           UNCHANGED <<row, flag, cancel, log, overlapped, client, opens, redeliveries>>,
           entries' \in Nat, undone' \in BOOLEAN, faults' \in 0..MaxFaults
    PROVE  TypeInv'
  <1>1. /\ worker' \in [Workers -> Run] /\ worker'[w] = run
        /\ \A v \in Workers \ {w} : worker'[v] = worker[v]
    BY BecomesKeeps
  <1>2. TypeOK'
    BY <1>1 DEF TypeInv, TypeOK
  <1>3. StageInv'
    BY <1>1 DEF TypeInv, StageInv
  <1> QED
    BY <1>2, <1>3 DEF TypeInv

\* A step that is none of a run's.
LEMMA QuietTypes ==
    ASSUME TypeInv, UNCHANGED <<row, worker, log, overlapped, undone, client, opens, faults>>,
           entries' \in Nat, flag' \in BOOLEAN, cancel' \in {"none", "loaded", "done"},
           redeliveries' \in 0..MaxRedeliveries
    PROVE  TypeInv'
  <1>1. TypeOK'
    BY DEF TypeInv, TypeOK
  <1>2. StageInv'
    BY DEF TypeInv, StageInv
  <1> QED
    BY <1>1, <1>2 DEF TypeInv

\* What the change of one column leaves of a job.
LEMMA StatusUpdate ==
    ASSUME NEW j \in Job, NEW s \in JobStatus
    PROVE  /\ [j EXCEPT !.status = s] \in Job
           /\ [j EXCEPT !.status = s].status = s
           /\ [j EXCEPT !.status = s].progress = j.progress
           /\ [j EXCEPT !.status = s].attempts = j.attempts
  BY SMT DEF Job

LEMMA ProgressUpdate ==
    ASSUME NEW j \in Job, NEW p \in 0..Full
    PROVE  /\ [j EXCEPT !.progress = p] \in Job
           /\ [j EXCEPT !.progress = p].status = j.status
           /\ [j EXCEPT !.progress = p].progress = p
           /\ [j EXCEPT !.progress = p].attempts = j.attempts
  BY SMT DEF Job

LEMMA JobProgress == \A j \in Job : j.progress \in Nat
  BY StageFacts, SMT DEF Job

LEMMA Statuses == {"queued", "running", "completed", "failed", "cancelled"} \subseteq JobStatus
  BY DEF JobStatus

\* The row that a claim and the end of a run leave.
LEMMA ClaimedRow ==
    ASSUME TypeInv
    PROVE  /\ row.attempts + 1 \in Nat
           /\ [status |-> "running", progress |-> row.progress,
               attempts |-> row.attempts + 1] \in Job
  BY RowTypes, SMT DEF Job, JobStatus

LEMMA FinishedRow ==
    ASSUME TypeInv
    PROVE  [status |-> "completed", progress |-> Full, attempts |-> row.attempts] \in Job
           /\ row.progress <= Full
  BY RowTypes, StageFacts, SMT DEF Job, JobStatus

LEMMA ClaimTypes == ASSUME TypeInv, NEW w \in Workers, Claim(w) PROVE TypeInv'
  <1> DEFINE next == [status |-> "running", progress |-> row.progress,
                      attempts |-> row.attempts + 1]
  <1>1. entries' \in Nat
    BY SMT DEF Claim, TypeInv, TypeOK
  <1>2. CASE row.status \in Terminal \/ flag
    <2>1. UNCHANGED <<row, flag, worker, cancel, log, overlapped, client, opens, undone,
                      faults, redeliveries>>
      BY <1>2 DEF Claim, historyVars, streamVars, faultVars
    <2> QED
      BY <1>1, <2>1, QuietTypes DEF TypeInv, TypeOK
  <1>3. CASE ~(row.status \in Terminal \/ flag)
    <2>1. Announces(w, next, next, "check", 1, row.attempts + 1)
      BY <1>3 DEF Claim
    <2>2. next \in Job /\ row.attempts + 1 \in Nat
      BY ClaimedRow
    <2> HIDE DEF next
    <2> QED
      BY <1>1, <2>1, <2>2, StageFacts, AnnouncesTypes
  <1> QED
    BY <1>2, <1>3

LEMMA CheckCancelTypes == ASSUME TypeInv, NEW w \in Workers, CheckCancel(w) PROVE TypeInv'
  <1> DEFINE next == [row EXCEPT !.status = "cancelled"]
  <1>1. entries' \in Nat /\ entries' = entries
    BY DEF CheckCancel, TypeInv, TypeOK
  <1>2. CASE flag
    <2>1. next \in Job
      BY Statuses, RowTypes, StatusUpdate
    <2>2. Announces(w, next, next, "idle", 1, 0)
      BY <1>2 DEF CheckCancel
    <2>3. 0 \in Nat
      OBVIOUS
    <2> HIDE DEF next
    <2> QED
      BY <1>1, <2>1, <2>2, <2>3, StageFacts, AnnouncesTypes
  <1>3. CASE ~flag
    <2> DEFINE run == At("stage", worker[w].stage, worker[w].attempts)
    <2>1. /\ UNCHANGED <<row, flag, cancel, log, overlapped, client, opens, undone,
                         faults, redeliveries>>
          /\ Becomes(w, run) /\ worker[w].stage <= Stages
      BY <1>3 DEF CheckCancel, historyVars, streamVars, faultVars
    <2>2. run \in Run /\ run.stage = worker[w].stage
      BY RunTypes, AtTypes
    <2> HIDE DEF run
    <2> QED
      BY <1>1, <2>1, <2>2, StepTypes DEF TypeInv, TypeOK
  <1> QED
    BY <1>2, <1>3

LEMMA StageDoneTypes == ASSUME TypeInv, NEW w \in Workers, StageDone(w) PROVE TypeInv'
  <1> DEFINE p == Larger(row.progress, worker[w].stage)
             next == [row EXCEPT !.progress = p]
             told == [next EXCEPT !.status = "running"]
  <1>1. entries' \in Nat
    BY DEF StageDone, TypeInv, TypeOK
  <1>2. p \in 0..Full
    BY RowTypes, RunTypes, SMT DEF Larger
  <1>3. Announces(w, next, told, "check", worker[w].stage + 1, worker[w].attempts)
    BY DEF StageDone
  <1>4. worker[w].stage + 1 \in 1..Full
    BY RunTypes, StageFacts, SMT DEF StageDone, TypeInv, StageInv
  <1> HIDE DEF p
  <1>5. next \in Job
    BY <1>2, RowTypes, ProgressUpdate
  <1> HIDE DEF next
  <1>6. told \in Job
    BY <1>5, Statuses, StatusUpdate
  <1> HIDE DEF told
  <1> QED
    BY <1>1, <1>3, <1>4, <1>5, <1>6, RunTypes, AnnouncesTypes

\* A transaction that changes the status alone.
LEMMA StatusTypes ==
    ASSUME TypeInv, NEW w \in Workers, NEW s \in JobStatus, NEW then \in {"idle", "requeue"},
           UNCHANGED entries,
           Announces(w, [row EXCEPT !.status = s], [row EXCEPT !.status = s], then, 1, 0)
    PROVE  TypeInv'
  <1> DEFINE next == [row EXCEPT !.status = s]
  <1>1. entries' \in Nat /\ 0 \in Nat
    BY DEF TypeInv, TypeOK
  <1>2. next \in Job
    BY RowTypes, StatusUpdate
  <1>3. Announces(w, next, next, then, 1, 0)
    OBVIOUS
  <1>4. then \in {"idle", "check", "requeue"}
    OBVIOUS
  <1> HIDE DEF next
  <1> QED
    BY <1>1, <1>2, <1>3, <1>4, StageFacts, AnnouncesTypes

LEMMA FinishTypes == ASSUME TypeInv, NEW w \in Workers, Finish(w) PROVE TypeInv'
  <1> DEFINE next == [status |-> "completed", progress |-> Full, attempts |-> row.attempts]
  <1>1. entries' \in Nat /\ 0 \in Nat
    BY DEF Finish, TypeInv, TypeOK
  <1>2. Announces(w, next, next, "idle", 1, 0)
    BY DEF Finish
  <1>3. next \in Job
    BY FinishedRow
  <1> HIDE DEF next
  <1> QED
    BY <1>1, <1>2, <1>3, StageFacts, AnnouncesTypes

\* A commit: the row changes and the log has its new state.
LEMMA KeptTypes ==
    ASSUME TypeInv, row' \in Job, log' = Append(log, Kept(row')),
           UNCHANGED <<entries, flag, client, opens, undone, overlapped, faults, redeliveries>>,
           cancel' \in {"none", "loaded", "done"},
           worker' \in [Workers -> Run], StageInv'
    PROVE  TypeInv'
  <1>1. Kept(row') \in State
    BY SMT DEF Kept, Job, State
  <1>2. /\ log' \in Seq(State) /\ log' # << >>
        /\ Len(log) \in Nat /\ Len(log') = Len(log) + 1
    BY <1>1, AppendKeeps, SMT DEF TypeInv, TypeOK
  <1>3. client' \in [pc: {"away", "snapshot", "subscribed", "ended"},
                     shown: 0..Len(log'), from: 0..Len(log') + 1]
    BY <1>2, SMT DEF TypeInv, TypeOK
  <1>4. TypeOK'
    BY <1>2, <1>3 DEF TypeInv, TypeOK
  <1> QED
    BY <1>4 DEF TypeInv

\* Each column of the row that a commit leaves is of the row it loaded or of the one it
\* found.
LEMMA WrittenTypes ==
    ASSUME TypeInv, NEW seen \in Job, NEW next \in Job
    PROVE  /\ Written(seen, next) \in Job
           /\ Written(seen, next).status =
                IF next.status # seen.status THEN next.status ELSE row.status
           /\ Written(seen, next).progress =
                IF next.progress # seen.progress THEN next.progress ELSE row.progress
  <1> DEFINE status   == IF next.status # seen.status THEN next.status ELSE row.status
             progress == IF next.progress # seen.progress THEN next.progress ELSE row.progress
             attempts == IF next.attempts # seen.attempts THEN next.attempts ELSE row.attempts
  <1>1. /\ next.status \in JobStatus /\ next.progress \in 0..Full /\ next.attempts \in Nat
    BY DEF Job
  <1>2. status \in JobStatus /\ progress \in 0..Full /\ attempts \in Nat
    BY <1>1, RowTypes
  <1>3. Written(seen, next) = [status |-> status, progress |-> progress, attempts |-> attempts]
    BY DEF Written
  <1> HIDE DEF status, progress, attempts
  <1>4. /\ Written(seen, next) \in Job
        /\ Written(seen, next).status = status
        /\ Written(seen, next).progress = progress
    BY <1>2, <1>3 DEF Job
  <1> QED
    BY <1>4 DEF status, progress

LEMMA CommitTypes == ASSUME TypeInv, NEW w \in Workers, Commit(w) PROVE TypeInv'
  <1> DEFINE run == At(worker[w].then, worker[w].stage, worker[w].attempts)
  <1>1. row' \in Job
    BY RunTypes, WrittenTypes DEF Commit
  <1>2. /\ log' = Append(log, Kept(row')) /\ Becomes(w, run)
        /\ UNCHANGED <<entries, flag, cancel, client, opens, undone, overlapped, faults, redeliveries>>
    BY DEF Commit, streamVars, faultVars
  <1>3. run \in Run /\ run.pc # "stage"
    BY RunTypes, AtTypes
  <1> HIDE DEF run
  <1>4. worker' \in [Workers -> Run] /\ StageInv'
    BY <1>2, <1>3, BecomesKeeps DEF TypeInv, StageInv
  <1> QED
    BY <1>1, <1>2, <1>4, KeptTypes DEF TypeInv, TypeOK

LEMMA RequeueTypes == ASSUME TypeInv, NEW w \in Workers, Requeue(w) PROVE TypeInv'
  <1>1. /\ UNCHANGED <<row, flag, cancel, log, overlapped, client, opens, undone,
                       faults, redeliveries>>
        /\ Becomes(w, Idle)
    BY DEF Requeue, historyVars, streamVars, faultVars
  <1>2. entries' \in Nat
    BY SMT DEF Requeue, TypeInv, TypeOK
  <1> QED
    BY <1>1, <1>2, IdleTypes, StepTypes DEF TypeInv, TypeOK

LEMMA DiesTypes == ASSUME TypeInv, NEW w \in Workers, Dies(w) PROVE TypeInv'
  <1>1. /\ UNCHANGED <<row, entries, flag, cancel, log, overlapped, client, opens, redeliveries>>
        /\ Becomes(w, Idle)
    BY DEF Dies, jobVars, historyVars, streamVars
  <1>2. faults' \in 0..MaxFaults
    BY StreamAssumption, SMT DEF Dies, TypeInv, TypeOK
  <1>3. undone' \in BOOLEAN
    BY DEF Dies, TypeInv, TypeOK
  <1> QED
    BY <1>1, <1>2, <1>3, IdleTypes, StepTypes DEF TypeInv, TypeOK

LEMMA RedeliverTypes == ASSUME TypeInv, Redeliver PROVE TypeInv'
  <1>1. UNCHANGED <<row, flag, cancel, worker, log, overlapped, client, opens, undone, faults>>
    BY DEF Redeliver, historyVars, streamVars
  <1>2. entries' \in Nat /\ redeliveries' \in 0..MaxRedeliveries
    BY StreamAssumption, SMT DEF Redeliver, TypeInv, TypeOK
  <1> QED
    BY <1>1, <1>2, QuietTypes DEF TypeInv, TypeOK

LEMMA CancelTypes == ASSUME TypeInv, CancelStep PROVE TypeInv'
  <1>1. CASE CancelLoad
    <2>1. /\ UNCHANGED <<row, worker, log, overlapped, client, opens, undone, faults, redeliveries>>
          /\ cancel' = "loaded"
      BY <1>1 DEF CancelLoad, historyVars, streamVars, faultVars
    <2>2. entries' \in Nat
      BY <1>1, SMT DEF CancelLoad, TypeInv, TypeOK
    <2>3. flag' \in BOOLEAN
      BY <1>1 DEF CancelLoad, TypeInv, TypeOK
    <2> QED
      BY <2>1, <2>2, <2>3, QuietTypes DEF TypeInv, TypeOK
  <1>2. CASE CancelCommit
    <2>1. /\ UNCHANGED <<entries, flag, worker, overlapped, client, opens, undone, faults, redeliveries>>
          /\ cancel' = "done"
          /\ row' = [row EXCEPT !.status = "cancelled"]
          /\ log' = Append(log, Kept(row'))
      BY <1>2 DEF CancelCommit, streamVars, faultVars
    <2>2. row' \in Job
      BY <2>1, Statuses, StatusUpdate, RowTypes
    <2>3. StageInv' /\ worker' \in [Workers -> Run]
      BY <2>1 DEF TypeInv, TypeOK, StageInv
    <2> QED
      BY <2>1, <2>2, <2>3, KeptTypes
  <1> QED
    BY <1>1, <1>2 DEF CancelStep

LEMMA ClientTypes == ASSUME TypeInv, ClientStep PROVE TypeInv'
  <1>1. UNCHANGED <<row, entries, flag, cancel, worker, log, overlapped, undone, faults,
                  redeliveries>>
    BY DEF ClientStep, Open, Subscribe, Receive, Leave, jobVars, historyVars,
       faultVars
  <1>2. Len(log) \in Nat
    BY DEF TypeInv, TypeOK
  <1> DEFINE Client == [pc: {"away", "snapshot", "subscribed", "ended"},
                        shown: 0..Len(log), from: 0..Len(log) + 1]
  <1>3. client \in Client
    BY DEF TypeInv, TypeOK
  <1>4. client' \in Client /\ opens' \in 0..MaxOpens
    <2>1. CASE Open
      <3>1. opens' \in 0..MaxOpens
        BY <2>1, StreamAssumption, SMT DEF Open, TypeInv, TypeOK
      <3>2. PICK k \in Stored :
              client' = [pc |-> IF row.status \in Terminal THEN "ended" ELSE "snapshot",
                         shown |-> k, from |-> 0]
        BY <2>1 DEF Open
      <3>3. k \in 0..Len(log)
        BY <1>2, SMT DEF Stored
      <3> QED
        BY <1>2, <3>1, <3>2, <3>3, SMT
    <2>2. CASE Subscribe
      BY <1>2, <1>3, <2>2, SMT DEF Subscribe, TypeInv, TypeOK
    <2>3. CASE Receive
      <3>1. PICK k \in Waiting :
              client' = [pc |-> IF log[k].status \in Terminal THEN "ended" ELSE "subscribed",
                         shown |-> k, from |-> k + 1]
        BY <2>3 DEF Receive
      <3>2. client.from \in Nat
        BY <1>2, <1>3, SMT
      <3>3. k \in 0..Len(log) /\ k + 1 \in 0..Len(log) + 1
        BY <1>2, <3>2, SMT DEF Waiting
      <3> HIDE DEF Stored
      <3>4. opens' = opens
        BY <2>3 DEF Receive
      <3> QED
        BY <3>1, <3>3, <3>4, SMT DEF TypeInv, TypeOK
    <2>4. CASE Leave
      BY <1>2, <2>4, SMT DEF Leave, NoClient, TypeInv, TypeOK
    <2> QED
      BY <2>1, <2>2, <2>3, <2>4 DEF ClientStep
  <1>5. TypeOK'
    BY <1>1, <1>4 DEF TypeInv, TypeOK
  <1>6. StageInv'
    BY <1>1 DEF TypeInv, StageInv
  <1> QED
    BY <1>5, <1>6 DEF TypeInv

LEMMA TypeInvStep == ASSUME TypeInv, [Next]_vars PROVE TypeInv'
  <1>1. ASSUME NEW w \in Workers, RunStep(w) PROVE TypeInv'
    <2>1. CASE StageRetried(w)
      BY <2>1, StatusTypes DEF StageRetried, JobStatus
    <2>2. CASE StageFailed(w)
      BY <2>2, StatusTypes DEF StageFailed, JobStatus
    <2> QED
      BY <1>1, <2>1, <2>2, ClaimTypes, CheckCancelTypes, StageDoneTypes, FinishTypes,
         CommitTypes, RequeueTypes DEF RunStep
  <1>2. ASSUME NEW w \in Workers, Dies(w) PROVE TypeInv'
    BY <1>2, DiesTypes
  <1>3. CASE UNCHANGED vars
    BY <1>3 DEF vars, TypeInv, TypeOK, StageInv
  <1> QED
    BY <1>1, <1>2, <1>3, RedeliverTypes, CancelTypes, ClientTypes DEF Next

\* Every variable keeps its type: no run begins a stage that the job does not have, and
\* the progress stays within its bound whatever is retried or run twice.
THEOREM TypeCorrect == Spec => []TypeOK
  <1>1. Init => TypeInv
    BY InitTypeInv
  <1>2. TypeInv /\ [Next]_vars => TypeInv'
    BY TypeInvStep
  <1>3. TypeInv => TypeOK
    BY DEF TypeInv
  <1> QED
    BY <1>1, <1>2, <1>3, PTL DEF Spec

-----------------------------------------------------------------------------
(* The log *)

\* The shape of a step, as the other invariants need it: what was announced or stored,
\* if anything, is the new last element of log.
Appended(e) == e \in State /\ log' = Append(log, e)

LEMMA AppendedKeeps ==
    ASSUME TypeInv, NEW e, Appended(e)
    PROVE  /\ Len(log) \in Nat /\ Len(log) >= 1
           /\ Len(log') = Len(log) + 1
           /\ log'[Len(log) + 1] = e
           /\ \A k \in 1..Len(log) : log'[k] = log[k]
           /\ SubSeq(log', 1, Len(log)) = log
  <1>1. log \in Seq(State) /\ log # << >>
    BY DEF TypeInv, TypeOK
  <1>2. Len(log) >= 1
    BY <1>1, SMT
  <1> QED
    BY <1>1, <1>2, AppendKeeps DEF Appended

LEMMA LogTypes ==
    ASSUME TypeInv
    PROVE  /\ Len(log) \in Nat /\ Len(log) >= 1
           /\ \A k \in 1..Len(log) : log[k] \in State /\ log[k].progress \in Nat
  <1>1. log \in Seq(State) /\ log # << >>
    BY DEF TypeInv, TypeOK
  <1>2. \A k \in 1..Len(log) : log[k] \in State
    BY <1>1, SMT
  <1>3. \A e \in State : e.progress \in Nat
    BY RowTypes, SMT DEF State
  <1> QED
    BY <1>1, <1>2, <1>3, SMT

LEMMA LogStays ==
    ASSUME LogInv, UNCHANGED <<log, row>>,
           Calm' => Calm /\ \A p \in Nat : Reached(p) => Reached(p)',
           TypeInv
    PROVE  LogInv'
  <1>1. Stored' = Stored
    BY DEF Stored
  <1>2. ASSUME Calm', NEW k \in 1..Len(log') PROVE Reached(log[k].progress)'
    BY <1>2, LogTypes DEF LogInv
  <1> QED
    BY <1>1, <1>2 DEF LogInv

LEMMA LogGrows ==
    ASSUME TypeInv, LogInv, NEW e, Appended(e),
           Calm' => /\ Calm
                    /\ \A p \in Nat : Reached(p) => Reached(p)'
                    /\ Reached(e.progress)'
                    /\ e.told => \A p \in Nat : Reached(p) => p <= e.progress,
           e.told => row' = row,
           ~e.told => e.status = row'.status
    PROVE  LogInv'
  <1>1. e.progress \in Nat /\ e.told \in BOOLEAN
    BY StageFacts, SMT DEF Appended, State
  <1>2. \A k \in Stored' : log'[k].status = row'.status
    <2> SUFFICES ASSUME NEW k \in Stored' PROVE log'[k].status = row'.status
      OBVIOUS
    <2>1. /\ k \in 1..Len(log) + 1 /\ ~log'[k].told
          /\ \A m \in (k + 1)..Len(log) + 1 : log'[m].told
      BY AppendedKeeps DEF Stored
    <2>2. CASE k = Len(log) + 1
      BY <2>1, <2>2, AppendedKeeps
    <2>3. CASE k # Len(log) + 1
      <3>1. k \in 1..Len(log) /\ Len(log) + 1 \in (k + 1)..Len(log) + 1
        BY <2>1, <2>3, AppendedKeeps, SMT
      <3>2. e.told
        BY <2>1, <3>1, AppendedKeeps
      <3>3. \A m \in (k + 1)..Len(log) : m \in (k + 1)..Len(log) + 1 /\ m \in 1..Len(log)
        BY <3>1, AppendedKeeps, SMT
      <3>4. k \in Stored
        BY <2>1, <3>1, <3>3, AppendedKeeps DEF Stored
      <3> QED
        BY <3>1, <3>2, <3>4, AppendedKeeps DEF LogInv
    <2> QED
      BY <2>2, <2>3
  <1>3. ASSUME Calm', NEW k \in 1..Len(log') PROVE Reached(log[k].progress)'
    <2>1. CASE k = Len(log) + 1
      BY <1>3, <2>1, AppendedKeeps
    <2>2. CASE k # Len(log) + 1
      <3>1. k \in 1..Len(log)
        BY <2>2, AppendedKeeps, SMT
      <3>2. log'[k] = log[k] /\ log[k].progress \in Nat
        BY <3>1, AppendedKeeps, LogTypes
      <3> DEFINE p == log[k].progress
      <3>3. Reached(p) /\ p \in Nat
        BY <1>3, <3>1, <3>2 DEF LogInv
      <3>4. log'[k].progress = p
        BY <3>2
      <3> HIDE DEF p
      <3>5. \A q \in Nat : Reached(q) => Reached(q)'
        BY <1>3
      <3>6. \A w \in Workers : worker'[w].pc = "commit" => p <= worker'[w].next.progress
        BY <3>3, <3>5 DEF Reached
      <3>7. (\A w \in Workers : worker'[w].pc # "commit") => p <= row'.progress
        BY <3>3, <3>5 DEF Reached
      <3> QED
        BY <3>4, <3>6, <3>7 DEF Reached
    <2> QED
      BY <2>1, <2>2
  <1>4. ASSUME Calm', NEW i \in 1..Len(log'), NEW k \in 1..Len(log'), i < k, log'[k].told
        PROVE  log'[i].progress <= log'[k].progress
    <2>1. i \in 1..Len(log) /\ log'[i] = log[i]
      BY <1>4, AppendedKeeps, SMT
    <2>2. CASE k = Len(log) + 1
      <3>1. log'[k] = e /\ e.told
        BY <1>4, <2>2, AppendedKeeps
      <3>2. Reached(log[i].progress) /\ log[i].progress \in Nat
        BY <1>4, <2>1, LogTypes DEF LogInv
      <3> QED
        BY <1>4, <2>1, <3>1, <3>2
    <2>3. CASE k # Len(log) + 1
      <3>1. k \in 1..Len(log) /\ log'[k] = log[k]
        BY <2>3, AppendedKeeps, SMT
      <3> QED
        BY <1>4, <2>1, <3>1 DEF LogInv
    <2> QED
      BY <2>2, <2>3
  <1> QED
    BY <1>2, <1>3, <1>4 DEF LogInv

-----------------------------------------------------------------------------
(* The steps, as the invariants need them *)

\* The steps of run w that announce: the state announced is not behind, and is final if
\* and only if the run ends with it, but for the status of a finished stage.
Announced(w, e) ==
    /\ Appended(e) /\ e.told
    /\ worker[w].pc # "commit"
    /\ \A v \in Workers \ {w} : worker'[v] = worker[v]
    /\ worker'[w].pc = "commit" /\ worker'[w].seen = row /\ worker'[w].next \in Job
    /\ e.progress = worker'[w].next.progress
    /\ row.progress <= worker'[w].next.progress
    /\ Busy(w) \/ row.status \notin Terminal
    /\ e.status \in Terminal => e.status = worker'[w].next.status /\ worker'[w].then = "idle"
    /\ worker'[w].next.status \in Terminal /\ worker'[w].next.status # row.status
         => worker'[w].then = "idle"
    /\ overlapped' = (overlapped \/ \E v \in Workers \ {w} : Busy(v))
    /\ UNCHANGED <<row, cancel, client, opens, undone>>

\* A commit, of a run or of the API's cancellation.
Kepts(e) ==
    /\ Appended(e) /\ ~e.told
    /\ e.status = row'.status /\ e.progress = row'.progress
    /\ row' \in Job
    /\ UNCHANGED <<client, opens, undone, overlapped>>

RunCommits(w) ==
    /\ worker[w].pc = "commit" /\ worker'[w].pc = worker[w].then
    /\ \A v \in Workers \ {w} : worker'[v] = worker[v]
    /\ cancel' = cancel
    /\ row'.status = IF worker[w].next.status # worker[w].seen.status
                     THEN worker[w].next.status ELSE row.status
    /\ row'.progress = IF worker[w].next.progress # worker[w].seen.progress
                       THEN worker[w].next.progress ELSE row.progress

CancelCommits ==
    /\ worker' = worker /\ cancel' = "done"
    /\ row'.status = "cancelled" /\ row'.progress = row.progress

\* Everything else that is not the client's leaves row, log and client; nobody begins to
\* run, and an open transaction stays as it is or is undone.
Silent ==
    /\ UNCHANGED <<row, log, client, opens, overlapped>>
    /\ \A w \in Workers :
         /\ worker'[w].pc = "commit" => worker'[w] = worker[w]
         /\ worker[w].pc = "commit" => worker'[w] = worker[w] \/ undone'
         /\ worker'[w].pc \in {"check", "stage", "commit"} => Busy(w)
    /\ cancel' = "done" <=> cancel = "done"
    /\ undone => undone'
    /\ undone \in BOOLEAN /\ undone' \in BOOLEAN

LEMMA Announcing ==
    ASSUME TypeInv, NEW w \in Workers, NEW next \in Job, NEW told \in Job,
           NEW then, NEW stage, NEW attempts,
           Announces(w, next, told, then, stage, attempts), worker[w].pc # "commit",
           told.progress = next.progress, row.progress <= next.progress,
           Busy(w) \/ row.status \notin Terminal,
           told.status \in Terminal => told.status = next.status /\ then = "idle",
           next.status \in Terminal /\ next.status # row.status => then = "idle"
    PROVE  \E e : Announced(w, e)
  <1> DEFINE run == [pc |-> "commit", stage |-> stage, attempts |-> attempts,
                     seen |-> row, next |-> next, then |-> then]
  <1>1. Told(told) \in State /\ Told(told).told = TRUE
        /\ Told(told).progress = told.progress /\ Told(told).status = told.status
    BY SMT DEF Told, Job, State
  <1>2. Appended(Told(told))
    BY <1>1 DEF Announces, Appended
  <1>3. Becomes(w, run)
    BY DEF Announces
  <1>4. run.pc = "commit" /\ run.seen = row /\ run.next = next /\ run.then = then
    OBVIOUS
  <1> HIDE DEF run
  <1>5. /\ worker'[w].pc = "commit" /\ worker'[w].seen = row /\ worker'[w].next = next
        /\ worker'[w].then = then
        /\ \A v \in Workers \ {w} : worker'[v] = worker[v]
    BY <1>3, <1>4, BecomesKeeps
  <1>6. UNCHANGED <<row, cancel, client, opens, undone>>
    BY DEF Announces, streamVars, faultVars
  <1>7. overlapped' = (overlapped \/ \E v \in Workers \ {w} : Busy(v))
    BY DEF Announces
  <1>8. Announced(w, Told(told))
    BY <1>1, <1>2, <1>5, <1>6, <1>7 DEF Announced
  <1> QED
    BY <1>8

\* A step of a run that neither announces nor commits.
LEMMA SilentRun ==
    ASSUME TypeInv, NEW w \in Workers, NEW run, Becomes(w, run),
           run.pc = "idle" \/ (run.pc = "stage" /\ worker[w].pc = "check"),
           worker[w].pc = "commit" => undone', undone => undone', undone' \in BOOLEAN,
           UNCHANGED <<row, log, client, opens, overlapped, cancel>>
    PROVE  Silent
  <1>1. worker'[w] = run /\ \A v \in Workers \ {w} : worker'[v] = worker[v]
    BY BecomesKeeps
  <1>2. ASSUME NEW v \in Workers
        PROVE  /\ worker'[v].pc = "commit" => worker'[v] = worker[v]
               /\ worker[v].pc = "commit" => worker'[v] = worker[v] \/ undone'
               /\ worker'[v].pc \in {"check", "stage", "commit"} => Busy(v)
    <2>1. CASE v = w
      BY <1>1, <2>1 DEF Busy
    <2>2. CASE v # w
      <3>1. worker'[v] = worker[v]
        BY <1>1, <2>2
      <3> QED
        BY <3>1 DEF Busy
    <2> QED
      BY <2>1, <2>2
  <1> QED
    BY <1>2 DEF Silent, TypeInv, TypeOK

LEMMA SilentQuiet ==
    ASSUME TypeInv, UNCHANGED <<row, worker, log, client, opens, overlapped, undone>>,
           cancel' = "done" <=> cancel = "done"
    PROVE  Silent
  BY DEF Silent, Busy, TypeInv, TypeOK

LEMMA RunShapes ==
    ASSUME TypeInv, NEW w \in Workers, RunStep(w)
    PROVE  \/ \E e : Announced(w, e)
           \/ \E e : Kepts(e) /\ RunCommits(w)
           \/ Silent
  <1>0. /\ "running" \notin Terminal /\ "queued" \notin Terminal
        /\ "completed" \in Terminal /\ "failed" \in Terminal /\ "cancelled" \in Terminal
    BY DEF Terminal
  <1>1. CASE Claim(w)
    <2> DEFINE next == [status |-> "running", progress |-> row.progress,
                        attempts |-> row.attempts + 1]
    <2>1. CASE row.status \in Terminal \/ flag
      BY <1>1, <2>1, SilentQuiet DEF Claim, historyVars, streamVars, faultVars
    <2>2. CASE ~(row.status \in Terminal \/ flag)
      <3>1. /\ next \in Job /\ next.progress = row.progress /\ next.status = "running"
            /\ row.progress <= row.progress
        BY ClaimedRow, RowTypes, SMT
      <3>2. Announces(w, next, next, "check", 1, row.attempts + 1) /\ worker[w].pc # "commit"
        BY <1>1, <2>2 DEF Claim
      <3> HIDE DEF next
      <3> QED
        BY <1>0, <2>2, <3>1, <3>2, Announcing
    <2> QED
      BY <2>1, <2>2
  <1>2. CASE CheckCancel(w)
    <2> DEFINE next == [row EXCEPT !.status = "cancelled"]
    <2>1. CASE flag
      <3>1. /\ next \in Job /\ next.progress = row.progress /\ row.progress <= next.progress
        BY Statuses, RowTypes, StatusUpdate, SMT
      <3>2. Announces(w, next, next, "idle", 1, 0) /\ worker[w].pc # "commit" /\ Busy(w)
        BY <1>2, <2>1 DEF CheckCancel, Busy
      <3> HIDE DEF next
      <3> QED
        BY <3>1, <3>2, Announcing
    <2>2. CASE ~flag
      <3> DEFINE run == At("stage", worker[w].stage, worker[w].attempts)
      <3>1. run.pc = "stage" /\ worker[w].pc = "check" /\ Becomes(w, run)
        BY <1>2, <2>2 DEF CheckCancel, At
      <3>2. UNCHANGED <<row, log, client, opens, overlapped, cancel, undone>>
        BY <1>2, <2>2 DEF CheckCancel, historyVars, streamVars, faultVars
      <3> HIDE DEF run
      <3> QED
        BY <3>1, <3>2, SilentRun DEF TypeInv, TypeOK
    <2> QED
      BY <2>1, <2>2
  <1>3. CASE StageDone(w)
    <2> DEFINE p == Larger(row.progress, worker[w].stage)
               next == [row EXCEPT !.progress = p]
               told == [next EXCEPT !.status = "running"]
    <2>1. p \in 0..Full /\ row.progress <= p
      BY RowTypes, RunTypes, SMT DEF Larger
    <2>2. /\ Announces(w, next, told, "check", worker[w].stage + 1, worker[w].attempts)
          /\ worker[w].pc # "commit" /\ Busy(w)
      BY <1>3 DEF StageDone, Busy
    <2> HIDE DEF p
    <2>3. /\ next \in Job /\ row.progress <= next.progress
          /\ next.status = row.status
      BY <2>1, RowTypes, ProgressUpdate
    <2> HIDE DEF next
    <2>4. told \in Job /\ told.progress = next.progress /\ told.status = "running"
      BY <2>3, Statuses, StatusUpdate
    <2> HIDE DEF told
    <2> QED
      BY <1>0, <2>2, <2>3, <2>4, Announcing
  <1>4. CASE StageRetried(w)
    <2> DEFINE next == [row EXCEPT !.status = "queued"]
    <2>1. /\ next \in Job /\ next.progress = row.progress /\ row.progress <= next.progress
          /\ next.status = "queued"
      BY Statuses, RowTypes, StatusUpdate, SMT
    <2>2. Announces(w, next, next, "requeue", 1, 0) /\ worker[w].pc # "commit" /\ Busy(w)
      BY <1>4 DEF StageRetried, Busy
    <2> HIDE DEF next
    <2> QED
      BY <1>0, <2>1, <2>2, Announcing
  <1>5. CASE StageFailed(w)
    <2> DEFINE next == [row EXCEPT !.status = "failed"]
    <2>1. /\ next \in Job /\ next.progress = row.progress /\ row.progress <= next.progress
      BY Statuses, RowTypes, StatusUpdate, SMT
    <2>2. Announces(w, next, next, "idle", 1, 0) /\ worker[w].pc # "commit" /\ Busy(w)
      BY <1>5 DEF StageFailed, Busy
    <2> HIDE DEF next
    <2> QED
      BY <2>1, <2>2, Announcing
  <1>6. CASE Finish(w)
    <2> DEFINE next == [status |-> "completed", progress |-> Full, attempts |-> row.attempts]
    <2>1. next \in Job /\ row.progress <= next.progress
      BY FinishedRow
    <2>2. Announces(w, next, next, "idle", 1, 0) /\ worker[w].pc # "commit" /\ Busy(w)
      BY <1>6 DEF Finish, Busy
    <2> HIDE DEF next
    <2> QED
      BY <2>1, <2>2, Announcing
  <1>7. CASE Commit(w)
    <2> DEFINE run == At(worker[w].then, worker[w].stage, worker[w].attempts)
    <2>1. Becomes(w, run) /\ run.pc = worker[w].then
      BY <1>7 DEF Commit, At
    <2> HIDE DEF run
    <2>2. /\ row' \in Job
          /\ row'.status = IF worker[w].next.status # worker[w].seen.status
                           THEN worker[w].next.status ELSE row.status
          /\ row'.progress = IF worker[w].next.progress # worker[w].seen.progress
                             THEN worker[w].next.progress ELSE row.progress
      BY <1>7, RunTypes, WrittenTypes DEF Commit
    <2>3. cancel' = cancel /\ worker[w].pc = "commit"
      BY <1>7 DEF Commit
    <2>4. RunCommits(w)
      BY <2>1, <2>2, <2>3, BecomesKeeps DEF RunCommits
    <2>5. /\ Kept(row') \in State /\ Kept(row').told = FALSE
          /\ Kept(row').status = row'.status /\ Kept(row').progress = row'.progress
      BY <2>2, SMT DEF Kept, Job, State
    <2>6. Kepts(Kept(row'))
      BY <1>7, <2>2, <2>5 DEF Commit, Kepts, Appended, streamVars, faultVars
    <2> QED
      BY <2>4, <2>6
  <1>8. CASE Requeue(w)
    <2>1. /\ UNCHANGED <<row, log, client, opens, overlapped, cancel, undone>>
          /\ Becomes(w, Idle) /\ worker[w].pc # "commit"
      BY <1>8 DEF Requeue, historyVars, streamVars, faultVars
    <2>2. undone' \in BOOLEAN /\ (undone => undone') /\ (worker[w].pc = "commit" => undone')
      BY <2>1 DEF TypeInv, TypeOK
    <2> QED
      BY <2>1, <2>2, IdleTypes, SilentRun
  <1> QED
    BY <1>1, <1>2, <1>3, <1>4, <1>5, <1>6, <1>7, <1>8 DEF RunStep

LEMMA StepShapes ==
    ASSUME TypeInv, [Next]_vars
    PROVE  \/ \E w \in Workers : \E e : Announced(w, e)
           \/ \E w \in Workers : \E e : Kepts(e) /\ RunCommits(w)
           \/ \E e : Kepts(e) /\ CancelCommits
           \/ Silent
           \/ ClientStep
  <1>1. ASSUME NEW w \in Workers, RunStep(w)
        PROVE  \/ \E e : Announced(w, e)
               \/ \E e : Kepts(e) /\ RunCommits(w)
               \/ Silent
    BY <1>1, RunShapes
  <1>2. ASSUME NEW w \in Workers, Dies(w) PROVE Silent
    <2>1. /\ UNCHANGED <<row, log, client, opens, overlapped, cancel>>
          /\ Becomes(w, Idle) /\ undone' = (undone \/ worker[w].pc = "commit")
      BY <1>2 DEF Dies, jobVars, historyVars, streamVars
    <2>2. undone' \in BOOLEAN /\ (undone => undone') /\ (worker[w].pc = "commit" => undone')
      BY <2>1 DEF TypeInv, TypeOK
    <2> QED
      BY <2>1, <2>2, IdleTypes, SilentRun
  <1>3. CASE Redeliver
    BY <1>3, SilentQuiet DEF Redeliver, historyVars, streamVars
  <1>4. CASE CancelLoad
    BY <1>4, SilentQuiet DEF CancelLoad, historyVars, streamVars, faultVars
  <1>5. CASE CancelCommit
    <2>1. /\ row' \in Job /\ row'.progress = row.progress /\ row'.status = "cancelled"
      BY <1>5, Statuses, StatusUpdate, RowTypes DEF CancelCommit
    <2>2. CancelCommits
      BY <1>5, <2>1 DEF CancelCommit, CancelCommits
    <2>3. /\ Kept(row') \in State /\ Kept(row').told = FALSE
          /\ Kept(row').status = row'.status /\ Kept(row').progress = row'.progress
      BY <2>1, SMT DEF Kept, Job, State
    <2>4. Kepts(Kept(row'))
      BY <1>5, <2>1, <2>3 DEF CancelCommit, Kepts, Appended, streamVars, faultVars
    <2> QED
      BY <2>2, <2>4
  <1>6. CASE UNCHANGED vars
    BY <1>6, SilentQuiet DEF vars
  <1> QED
    BY <1>1, <1>2, <1>3, <1>4, <1>5, <1>6 DEF Next, CancelStep

-----------------------------------------------------------------------------
(* The invariant *)

\* What a step that appends, or leaves the log, leaves of what holds of the client.
LEMMA ClientStays ==
    ASSUME TypeInv, ClientInv, UNCHANGED client,
           log' = log \/ \E e : Appended(e)
    PROVE  ClientInv'
  <1>1. client.pc = "ended" => client.shown \in 1..Len(log)
    BY LogTypes, SMT DEF ClientInv, TypeInv, TypeOK
  <1>2. client.pc = "ended" => log'[client.shown] = log[client.shown]
    BY <1>1, AppendedKeeps
  <1> QED
    BY <1>2 DEF ClientInv

LEMMA AnnouncedStep ==
    ASSUME FeedInv, TypeInv', NEW w \in Workers, NEW e, Announced(w, e)
    PROVE  FeedInv'
  <1> DEFINE me == worker'[w]
  <1>1. Appended(e) /\ TypeInv
    BY DEF Announced, FeedInv
  <1>2. /\ me.pc = "commit" /\ me.seen = row /\ me.next \in Job /\ e.progress = me.next.progress
        /\ row.progress <= me.next.progress
        /\ \A v \in Workers \ {w} : worker'[v] = worker[v]
        /\ worker[w].pc # "commit"
        /\ UNCHANGED <<row, cancel, client, undone>>
    BY DEF Announced
  <1>3. ASSUME ~overlapped'
        PROVE  /\ ~overlapped
               /\ \A v \in Workers : Busy(v) => v = w
               /\ \A v \in Workers : worker[v].pc # "commit"
               /\ \A v \in Workers : Busy(v)' => v = w
    BY <1>2, <1>3 DEF Announced, Busy
  <1>4. me.next.progress \in Nat /\ row.progress \in Nat
    BY <1>1, <1>2, RowTypes, JobProgress
  <1> HIDE DEF me
  <1>5. me = worker'[w]
    BY DEF me
  <1>6. SoloInv'
    <2> SUFFICES ASSUME ~overlapped' PROVE SoloInv'
      BY DEF SoloInv
    <2>1. \A v \in Workers : worker'[v].pc = "commit" => v = w
      BY <1>3 DEF Busy
    <2> QED
      BY <1>2, <1>3, <1>5, <2>1 DEF SoloInv
  <1>7. LogInv'
    <2>1. ASSUME Calm'
          PROVE  /\ Calm
                 /\ \A p \in Nat : Reached(p) => p <= e.progress /\ Reached(p)'
                 /\ Reached(e.progress)'
      <3>1. Calm /\ \A v \in Workers : worker[v].pc # "commit"
        BY <1>2, <1>3, <2>1 DEF Calm
      <3>2. \A v \in Workers : worker'[v].pc = "commit" => v = w
        BY <1>3, <2>1 DEF Busy, Calm
      <3>3. ASSUME NEW p \in Nat, p <= e.progress PROVE Reached(p)'
        BY <1>2, <1>5, <3>2, <3>3 DEF Reached
      <3>4. ASSUME NEW p \in Nat, Reached(p) PROVE p <= e.progress
        <4>1. p <= row.progress
          BY <3>1, <3>4 DEF Reached
        <4> QED
          BY <1>2, <1>4, <4>1, SMT
      <3>5. e.progress \in Nat /\ e.progress <= e.progress
        BY <1>2, <1>4, SMT
      <3> QED
        BY <3>1, <3>3, <3>4, <3>5
    <2>2. e.told /\ row' = row
      BY DEF Announced
    <2> QED
      BY <1>1, <2>1, <2>2, LogGrows DEF FeedInv
  <1>8. ClientInv'
    BY <1>1, <1>2, ClientStays DEF FeedInv
  <1>9. RunInv'
    <2> SUFFICES ASSUME ~overlapped' PROVE RunInv'
      BY DEF RunInv
    <2>1. \A v \in Workers : worker'[v].pc = "commit" => v = w
      BY <1>3 DEF Busy
    <2>2. row.status \in Terminal => ApiCancelled(row.status)
      BY <1>3 DEF Announced, FeedInv, RunInv
    <2>3. me.next.status \in Terminal /\ me.next.status # row.status => me.then = "idle"
      BY <1>5 DEF Announced
    <2> QED
      BY <1>2, <1>5, <2>1, <2>2, <2>3 DEF RunInv, ApiCancelled
  <1>10. EndInv'
    <2> SUFFICES ASSUME Calm', NEW k \in 1..Len(log'), IsEnd(log[k])'
                 PROVE  Over(log[k].status)'
      BY DEF EndInv
    <2>1. CASE k = Len(log) + 1
      <3>1. log'[k] = e
        BY <1>1, <2>1, AppendedKeeps
      <3>2. e.status = me.next.status /\ me.then = "idle"
        BY <1>5, <3>1 DEF IsEnd, Announced
      <3> QED
        BY <1>2, <1>5, <3>1, <3>2 DEF Over, Pending
    <2>2. CASE k # Len(log) + 1
      <3>1. k \in 1..Len(log) /\ log'[k] = log[k]
        BY <1>1, <2>2, AppendedKeeps, SMT
      <3>2. IsEnd(log[k]) /\ Calm
        BY <1>2, <1>3, <3>1 DEF IsEnd, ApiCancelled, Calm
      <3>3. Over(log[k].status) /\ log[k].status \in Terminal
        BY <3>1, <3>2 DEF FeedInv, EndInv, IsEnd
      <3>4. ~Pending(log[k].status)
        BY <1>3 DEF Pending, Calm
      <3>5. ~Busy(w) /\ row.status \in Terminal
        BY <3>3, <3>4 DEF Over, ApiCancelled, Terminal
      <3> QED
        BY <3>5 DEF Announced
    <2> QED
      BY <2>1, <2>2
  <1> QED
    BY <1>6, <1>7, <1>8, <1>9, <1>10 DEF FeedInv

LEMMA RunCommitsStep ==
    ASSUME FeedInv, TypeInv', NEW w \in Workers, NEW e, Kepts(e), RunCommits(w)
    PROVE  FeedInv'
  <1>1. Appended(e) /\ TypeInv
    BY DEF Kepts, FeedInv
  <1>2. /\ worker[w].pc = "commit" /\ worker'[w].pc = worker[w].then
        /\ worker[w].then \in {"idle", "check", "requeue"}
        /\ \A v \in Workers \ {w} : worker'[v] = worker[v]
        /\ ~e.told /\ e.status = row'.status /\ e.progress = row'.progress
        /\ UNCHANGED <<cancel, client, undone, overlapped>>
    BY <1>1, RunTypes DEF RunCommits, Kepts
  <1>3. ASSUME ~overlapped
        PROVE  /\ \A v \in Workers : Busy(v) => v = w
               /\ \A v \in Workers : Busy(v)' => v = w
               /\ \A v \in Workers : worker'[v].pc # "commit"
               /\ row'.progress = worker[w].next.progress
    <2>1. \A v \in Workers : Busy(v) => v = w
      BY <1>2, <1>3 DEF FeedInv, SoloInv, Busy
    <2>2. row.progress = worker[w].seen.progress
      BY <1>2, <1>3 DEF FeedInv, SoloInv
    <2> QED
      BY <1>2, <2>1, <2>2 DEF Busy, RunCommits
  <1>4. row'.progress \in Nat
    BY JobProgress DEF Kepts
  <1>5. SoloInv'
    BY <1>2, <1>3 DEF SoloInv
  <1>6. LogInv'
    <2>1. ASSUME Calm'
          PROVE  /\ Calm
                 /\ \A p \in Nat : Reached(p) => Reached(p)'
                 /\ Reached(e.progress)'
      <3>1. Calm
        BY <1>2, <2>1 DEF Calm
      <3>2. ASSUME NEW p \in Nat, p <= row'.progress PROVE Reached(p)'
        BY <1>3, <3>1, <3>2 DEF Reached, Calm
      <3>3. ASSUME NEW p \in Nat, Reached(p) PROVE p <= row'.progress
        BY <1>2, <1>3, <3>1, <3>3 DEF Reached, Calm
      <3>4. e.progress <= row'.progress /\ e.progress \in Nat
        BY <1>2, <1>4, SMT
      <3> QED
        BY <3>1, <3>2, <3>3, <3>4
    <2> QED
      BY <1>1, <1>2, <2>1, LogGrows DEF FeedInv
  <1>7. ClientInv'
    BY <1>1, <1>2, ClientStays DEF FeedInv
  <1>8. RunInv'
    <2> SUFFICES ASSUME ~overlapped, NEW v \in Workers, Busy(v)', row'.status \in Terminal
                 PROVE  ApiCancelled(row.status)'
      BY <1>2, <1>3 DEF RunInv
    <2>1. v = w /\ worker[w].then # "idle"
      BY <1>2, <1>3 DEF Busy
    <2>2. row'.status = row.status
      BY <1>2, <2>1 DEF RunCommits, FeedInv, RunInv
    <2>3. ApiCancelled(row.status)
      BY <1>2, <2>2 DEF Busy, FeedInv, RunInv
    <2> QED
      BY <1>2, <2>2, <2>3 DEF ApiCancelled
  <1>9. EndInv'
    <2> SUFFICES ASSUME Calm', NEW k \in 1..Len(log'), IsEnd(log[k])'
                 PROVE  Over(log[k].status)'
      BY DEF EndInv
    <2>1. Calm /\ ~overlapped
      BY <1>2 DEF Calm
    <2>2. CASE k = Len(log) + 1
      <3>1. log'[k] = e
        BY <1>1, <2>2, AppendedKeeps
      <3>2. row'.status \in Terminal /\ ~ApiCancelled(row.status)'
        BY <1>2, <3>1 DEF IsEnd, ApiCancelled
      <3>3. \A v \in Workers : ~Busy(v)'
        BY <1>2, <1>8, <2>1, <3>2 DEF RunInv
      <3> QED
        BY <1>2, <3>1, <3>3 DEF Over
    <2>3. CASE k # Len(log) + 1
      <3>1. k \in 1..Len(log) /\ log'[k] = log[k]
        BY <1>1, <2>3, AppendedKeeps, SMT
      <3>2. IsEnd(log[k])
        BY <1>2, <3>1 DEF IsEnd, ApiCancelled
      <3>3. Over(log[k].status) /\ log[k].status \in Terminal
        BY <2>1, <3>1, <3>2 DEF FeedInv, EndInv, IsEnd
      <3>4. Pending(log[k].status)
        BY <1>2, <3>3 DEF Over, Busy
      <3>5. worker[w].then = "idle" /\ worker[w].next.status = log[k].status
        BY <1>3, <2>1, <3>4 DEF Pending, Busy
      <3>6. \A v \in Workers : ~Busy(v)'
        BY <1>2, <1>3, <2>1, <3>5 DEF Busy
      <3>7. row'.status = log[k].status \/ ApiCancelled(row.status)'
        <4>1. CASE worker[w].next.status # worker[w].seen.status
          BY <3>5, <4>1 DEF RunCommits
        <4>2. CASE worker[w].next.status = worker[w].seen.status
          <5>1. row'.status = row.status
            BY <4>2 DEF RunCommits
          <5>2. /\ worker[w].seen.status \in Terminal => ApiCancelled(worker[w].seen.status)
                /\ worker[w].seen.status = row.status \/ ApiCancelled(row.status)
            BY <1>2, <2>1 DEF FeedInv, RunInv
          <5> QED
            BY <1>2, <3>3, <3>5, <4>2, <5>1, <5>2 DEF ApiCancelled
        <4> QED
          BY <4>1, <4>2
      <3> QED
        BY <3>1, <3>6, <3>7 DEF Over
    <2> QED
      BY <2>2, <2>3
  <1> QED
    BY <1>5, <1>6, <1>7, <1>8, <1>9 DEF FeedInv

LEMMA CancelCommitsStep ==
    ASSUME FeedInv, TypeInv', NEW e, Kepts(e), CancelCommits
    PROVE  FeedInv'
  <1>1. Appended(e) /\ TypeInv
    BY DEF Kepts, FeedInv
  <1>2. /\ row'.status = "cancelled" /\ row'.progress = row.progress /\ cancel' = "done"
        /\ ~e.told /\ e.status = row'.status /\ e.progress = row'.progress
        /\ UNCHANGED <<worker, client, undone, overlapped>>
    BY DEF CancelCommits, Kepts
  <1>3. row.progress \in Nat
    BY <1>1, RowTypes
  <1>4. SoloInv'
    BY <1>2 DEF FeedInv, SoloInv, Busy
  <1>5. LogInv'
    <2>1. \A p \in Nat : Reached(p) => Reached(p)'
      BY <1>2 DEF Reached
    <2>2. Calm' => Calm
      BY <1>2 DEF Calm
    <2>3. ASSUME Calm' PROVE Reached(e.progress)'
      <3>1. row.progress <= row.progress
        BY <1>3, SMT
      <3>2. \A w \in Workers : worker[w].pc = "commit" => row.progress <= worker[w].next.progress
        BY <2>2, <2>3 DEF Calm, FeedInv, SoloInv
      <3> QED
        BY <1>2, <3>1, <3>2 DEF Reached
    <2> QED
      BY <1>1, <1>2, <2>1, <2>2, <2>3, LogGrows DEF FeedInv
  <1>6. ClientInv'
    BY <1>1, <1>2, ClientStays DEF FeedInv
  <1>7. ApiCancelled(row.status)'
    BY <1>2 DEF ApiCancelled
  <1>8. RunInv'
    BY <1>2, <1>7 DEF FeedInv, RunInv, Busy, ApiCancelled
  <1>9. EndInv'
    <2> SUFFICES ASSUME Calm', NEW k \in 1..Len(log'), IsEnd(log[k])'
                 PROVE  Over(log[k].status)'
      BY DEF EndInv
    <2>1. k # Len(log) + 1
      BY <1>1, <1>2, <1>7, AppendedKeeps DEF IsEnd, ApiCancelled
    <2>2. k \in 1..Len(log) /\ log'[k] = log[k]
      BY <1>1, <2>1, AppendedKeeps, SMT
    <2>3. IsEnd(log[k])
      BY <1>2, <2>2 DEF IsEnd, ApiCancelled
    <2>4. Over(log[k].status)
      BY <1>2, <2>2, <2>3 DEF FeedInv, EndInv, Calm
    <2> QED
      BY <1>2, <1>7, <2>2, <2>4 DEF Over, Pending, Busy
  <1> QED
    BY <1>4, <1>5, <1>6, <1>8, <1>9 DEF FeedInv

LEMMA SilentStep == ASSUME FeedInv, TypeInv', Silent PROVE FeedInv'
  <1>1. TypeInv /\ UNCHANGED <<row, log, client, overlapped>>
    BY DEF Silent, FeedInv
  <1>2. \A w \in Workers : /\ worker'[w].pc = "commit" => worker'[w] = worker[w]
                           /\ Busy(w)' => Busy(w)
    BY DEF Silent, Busy
  <1>3. Calm' => Calm /\ \A w \in Workers : worker[w].pc = "commit" => worker'[w] = worker[w]
    BY <1>1 DEF Silent, Calm
  <1>4. \A status : ApiCancelled(status)' <=> ApiCancelled(status)
    BY DEF Silent, ApiCancelled
  <1>5. SoloInv'
    BY <1>1, <1>2 DEF FeedInv, SoloInv
  <1>6. LogInv'
    <2>1. ASSUME Calm', NEW p \in Nat, Reached(p) PROVE Reached(p)'
      BY <1>1, <1>2, <1>3, <2>1 DEF Reached
    <2> QED
      BY <1>1, <1>3, <2>1, LogStays DEF FeedInv
  <1>7. ClientInv'
    BY <1>1, ClientStays DEF FeedInv
  <1>8. RunInv'
    BY <1>1, <1>2, <1>4 DEF FeedInv, RunInv, ApiCancelled
  <1>9. EndInv'
    <2> SUFFICES ASSUME Calm', NEW k \in 1..Len(log'), IsEnd(log[k])'
                 PROVE  Over(log[k].status)'
      BY DEF EndInv
    <2>1. IsEnd(log[k]) /\ k \in 1..Len(log)
      BY <1>1, <1>4 DEF IsEnd, ApiCancelled
    <2>2. Over(log[k].status)
      BY <1>3, <2>1 DEF FeedInv, EndInv
    <2>3. Pending(log[k].status) => Pending(log[k].status)'
      BY <1>1, <1>3 DEF Pending
    <2> QED
      BY <1>1, <1>2, <1>4, <2>2, <2>3 DEF Over, ApiCancelled
  <1> QED
    BY <1>5, <1>6, <1>7, <1>8, <1>9 DEF FeedInv

\* What a step of the endpoint shows, if it shows anything.
LEMMA ClientShape ==
    ASSUME FeedInv, ClientStep
    PROVE  /\ UNCHANGED <<row, worker, cancel, log, undone, overlapped>>
           /\ \/ /\ client.pc \in {"away", "subscribed"}
                 /\ client'.shown \in (client.shown + 1)..Len(log)
                 /\ client.shown # 0 => undone \/ overlapped \/
                      log[client.shown].progress <= log[client'.shown].progress
                 /\ client'.pc = "ended" <=> log[client'.shown].status \in Terminal
                 /\ client'.pc \in {"ended", "snapshot", "subscribed"}
                 /\ client'.pc = "subscribed" => client'.from > client'.shown
              \/ /\ client.pc = "snapshot" /\ client'.pc = "subscribed"
                 /\ client'.shown = client.shown /\ client'.from > client'.shown
              \/ client.pc # "away" /\ client' = NoClient
  <1>1. UNCHANGED <<row, worker, cancel, log, undone, overlapped>>
    BY DEF ClientStep, Open, Subscribe, Receive, Leave, jobVars, faultVars, historyVars
  <1>2. TypeInv /\ Len(log) \in Nat
    BY LogTypes DEF FeedInv
  <1>3. client.shown \in 0..Len(log) /\ client.from \in 0..Len(log) + 1
    BY SMT DEF FeedInv, TypeInv, TypeOK
  <1>4. CASE Open
    <2>1. PICK k \in Stored :
            client' = [pc |-> IF row.status \in Terminal THEN "ended" ELSE "snapshot",
                       shown |-> k, from |-> 0]
      BY <1>4 DEF Open
    <2>2. client.pc = "away" /\ client.shown = 0
      BY <1>4 DEF Open, FeedInv, ClientInv
    <2>3. k \in 1..Len(log) /\ log[k].status = row.status
      BY DEF Stored, FeedInv, LogInv
    <2>4. client'.shown = k
          /\ client'.pc = IF row.status \in Terminal THEN "ended" ELSE "snapshot"
      BY <2>1
    <2>5. client'.shown \in (client.shown + 1)..Len(log)
      BY <1>2, <2>2, <2>3, <2>4, SMT
    <2> QED
      BY <1>1, <2>2, <2>3, <2>4, <2>5
  <1>5. CASE Subscribe
    <2>1. /\ client.pc = "snapshot" /\ client'.pc = "subscribed"
          /\ client'.shown = client.shown /\ client'.from = Len(log) + 1
      BY <1>5 DEF Subscribe
    <2>2. client'.from > client'.shown
      BY <1>2, <1>3, <2>1, SMT
    <2> QED
      BY <1>1, <2>1, <2>2
  <1>6. CASE Receive
    <2>1. PICK k \in Waiting :
            client' = [pc |-> IF log[k].status \in Terminal THEN "ended" ELSE "subscribed",
                       shown |-> k, from |-> k + 1]
      BY <1>6 DEF Receive
    <2>2. client.pc = "subscribed" /\ client.from > client.shown
      BY <1>6 DEF Receive, FeedInv, ClientInv
    <2>3. k \in client.from..Len(log) /\ log[k].told
      BY DEF Waiting
    <2>4. /\ client'.shown = k /\ client'.from = k + 1
          /\ client'.pc = IF log[k].status \in Terminal THEN "ended" ELSE "subscribed"
      BY <2>1
    <2>5. k \in (client.shown + 1)..Len(log) /\ k + 1 > k /\ client.shown < k
          /\ k \in 1..Len(log) /\ (client.shown # 0 => client.shown \in 1..Len(log))
      BY <1>2, <1>3, <2>2, <2>3, SMT
    <2>6. client.shown # 0 =>
            undone \/ overlapped \/ log[client.shown].progress <= log[k].progress
      BY <2>3, <2>5 DEF FeedInv, LogInv, Calm
    <2> QED
      BY <1>1, <2>2, <2>4, <2>5, <2>6
  <1>7. CASE Leave
    BY <1>1, <1>7 DEF Leave
  <1> QED
    BY <1>4, <1>5, <1>6, <1>7 DEF ClientStep

LEMMA ClientPreserves == ASSUME FeedInv, TypeInv', ClientStep PROVE FeedInv'
  <1>1. UNCHANGED <<row, worker, cancel, log, undone, overlapped>> /\ TypeInv
    BY ClientShape DEF FeedInv
  <1>2. LogInv'
    BY <1>1, LogStays DEF FeedInv, Calm, Reached
  <1>3. SoloInv' /\ RunInv'
    BY <1>1 DEF FeedInv, SoloInv, RunInv, Busy, ApiCancelled
  <1>4. EndInv'
    BY <1>1 DEF FeedInv, EndInv, Calm, IsEnd, Over, Pending, Busy, ApiCancelled
  <1>5. ClientInv'
    <2>1. CASE client' = NoClient
      BY <2>1 DEF ClientInv, NoClient
    <2>2. CASE client' # NoClient
      <3>1. client.shown \in Nat /\ Len(log) \in Nat
        BY <1>1, LogTypes, SMT DEF TypeInv, TypeOK
      <3>2. client'.shown \in (client.shown + 1)..Len(log) => client'.shown # 0
        BY <3>1, SMT
      <3>3. client.pc = "snapshot" => client.shown # 0
        BY DEF FeedInv, ClientInv
      <3> QED
        BY <1>1, <2>2, <3>2, <3>3, ClientShape DEF ClientInv
    <2> QED
      BY <2>1, <2>2
  <1> QED
    BY <1>2, <1>3, <1>4, <1>5 DEF FeedInv

LEMMA InitFeedInv == ASSUME Init PROVE FeedInv
  <1>1. /\ log = <<Kept(NewJob)>> /\ Len(log) = 1
        /\ log[1].status = "queued" /\ log[1].progress = 0 /\ log[1].told = FALSE
        /\ row.status = "queued" /\ row.progress = 0
    BY SMT DEF Init, Kept, NewJob
  <1>2. \A w \in Workers : worker[w].pc = "idle"
    BY DEF Init, Idle, At
  <1>3. \A k \in 1..Len(log) : k = 1
    BY <1>1, SMT
  <1>4. 0 <= 0 /\ \A i \in 1..Len(log), k \in 1..Len(log) : ~(i < k)
    BY <1>1, <1>3, SMT
  <1>5. Reached(0)
    BY <1>1, <1>2, <1>4 DEF Reached
  <1>6. LogInv
    BY <1>1, <1>3, <1>4, <1>5 DEF LogInv, Stored
  <1>7. "queued" \notin Terminal
    BY DEF Terminal
  <1>8. ClientInv /\ EndInv
    BY <1>1, <1>3, <1>7 DEF Init, ClientInv, EndInv, IsEnd, NoClient
  <1>9. SoloInv /\ RunInv
    BY <1>2 DEF SoloInv, RunInv, Busy
  <1> QED
    BY <1>6, <1>8, <1>9, InitTypeInv DEF FeedInv

LEMMA FeedInvStep == ASSUME FeedInv, [Next]_vars PROVE FeedInv'
  <1>1. TypeInv /\ TypeInv'
    BY TypeInvStep DEF FeedInv
  <1> QED
    BY <1>1, StepShapes, AnnouncedStep, RunCommitsStep, CancelCommitsStep, SilentStep,
       ClientPreserves

LEMMA FeedInvCorrect == Spec => []FeedInv
  BY InitFeedInv, FeedInvStep, PTL DEF Spec

-----------------------------------------------------------------------------
(* Results *)

\* A final state that a client was told is the state the job ends in, until a run
\* announces beside another one or an announcement is rolled back, unless the API
\* cancelled the job after it, or stored the state itself while a run went on.
THEOREM ToldIsTrueCorrect == Spec => []ToldIsTrue
  <1>1. FeedInv => ToldIsTrue
    <2> DEFINE last == log[client.shown]
    <2> SUFFICES ASSUME FeedInv, client.pc = "ended", Calm
                 PROVE  \/ row.status = last.status \/ Pending(last.status)
                        \/ cancel = "done" /\ row.status = "cancelled"
                        \/ cancel = "done" /\ last = Kept([last EXCEPT !.status = "cancelled"])
      BY DEF ToldIsTrue, Calm
    <2>1. client.shown \in 1..Len(log)
      BY LogTypes, SMT DEF FeedInv, ClientInv, TypeInv, TypeOK
    <2>2. last \in State /\ last.status \in Terminal
      BY <2>1, LogTypes DEF FeedInv, ClientInv
    <2>3. CASE IsEnd(last)
      BY <2>1, <2>3 DEF FeedInv, EndInv, Over, ApiCancelled
    <2>4. CASE ~IsEnd(last)
      <3>1. ~last.told /\ last.status = "cancelled" /\ cancel = "done"
        BY <2>2, <2>4 DEF IsEnd, ApiCancelled
      <3>2. last = Kept([last EXCEPT !.status = "cancelled"])
        <4> HIDE DEF last
        <4> QED
          BY <2>2, <3>1, SMT DEF Kept, State
      <3> QED
        BY <3>1, <3>2
    <2> QED
      BY <2>3, <2>4
  <1> QED
    BY <1>1, FeedInvCorrect, PTL

LEMMA FeedInit == ASSUME Init PROVE Feed!Init
  <1>1. Len(log) = 1
    BY SMT DEF Init
  <1> QED
    BY <1>1 DEF Init, Feed!Init, NoClient, Reader

LEMMA FeedStep == ASSUME FeedInv, [Next]_vars PROVE [Feed!Next]_(Feed!vars)
  <1>1. TypeInv
    BY DEF FeedInv
  <1>2. ASSUME NEW e, Appended(e), UNCHANGED <<client, undone>>,
               overlapped' \in {overlapped, TRUE}
        PROVE  Feed!Next
    <2>1. Len(log') = Len(log) + 1 /\ SubSeq(log', 1, Len(log)) = log
      BY <1>1, <1>2, AppendedKeeps
    <2>2. (undone' \/ overlapped') \in {undone \/ overlapped, TRUE}
      <3>1. undone \in BOOLEAN /\ overlapped \in BOOLEAN /\ undone' = undone
        BY <1>1, <1>2 DEF TypeInv, TypeOK
      <3>2. CASE overlapped' = overlapped
        BY <3>1, <3>2
      <3>3. CASE overlapped' = TRUE
        BY <3>1, <3>3
      <3> QED
        BY <1>2, <3>2, <3>3
    <2>3. Feed!Grow
      BY <1>2, <2>1, <2>2 DEF Feed!Grow, Reader
    <2> QED
      BY <2>3 DEF Feed!Next
  <1>3. ASSUME NEW w \in Workers, NEW e, Announced(w, e) PROVE Feed!Next
    <2>1. overlapped' \in {overlapped, TRUE}
      BY <1>1, <1>3 DEF Announced, TypeInv, TypeOK
    <2> QED
      BY <1>2, <1>3, <2>1 DEF Announced
  <1>4. ASSUME NEW e, Kepts(e) PROVE Feed!Next
    BY <1>2, <1>4 DEF Kepts
  <1>5. CASE Silent
    <2>1. CASE undone' = undone
      BY <1>5, <2>1 DEF Silent, Feed!vars, Reader
    <2>2. CASE undone' # undone
      <3>1. undone' = TRUE
        BY <1>5, <2>2 DEF Silent
      <3>2. Feed!Disturb
        BY <1>5, <3>1 DEF Silent, Feed!Disturb, Reader
      <3> QED
        BY <3>2 DEF Feed!Next
    <2> QED
      BY <2>1, <2>2
  <1>6. CASE ClientStep
    <2>1. CASE client' = NoClient /\ client.pc # "away"
      <3>1. Feed!Leave
        BY <1>6, <2>1, ClientShape DEF Feed!Leave, Reader, NoClient
      <3> QED
        BY <3>1 DEF Feed!Next
    <2>2. CASE client.pc = "snapshot" /\ client'.pc = "subscribed" /\ client'.shown = client.shown
      BY <1>6, <2>2, ClientShape DEF Feed!vars, Reader
    <2>3. CASE /\ client.pc \in {"away", "subscribed"}
               /\ client'.shown \in (client.shown + 1)..Len(log)
               /\ client.shown # 0 => undone \/ overlapped \/
                    log[client.shown].progress <= log[client'.shown].progress
               /\ client'.pc = "ended" <=> log[client'.shown].status \in Terminal
               /\ client'.pc \in {"ended", "snapshot", "subscribed"}
      <3>1. Reader # "closed"
        BY <2>3 DEF Reader
      <3>2. Reader' = IF log[client'.shown].status \in Terminal THEN "closed" ELSE "reading"
        BY <2>3 DEF Reader
      <3>3. log' = log /\ undone' = undone /\ overlapped' = overlapped
        BY <1>6, ClientShape
      <3>4. Feed!Show
        BY <2>3, <3>1, <3>2, <3>3 DEF Feed!Show
      <3> QED
        BY <3>4 DEF Feed!Next
    <2> QED
      BY <1>6, <2>1, <2>2, <2>3, ClientShape
  <1> QED
    BY <1>1, <1>3, <1>4, <1>5, <1>6, StepShapes

\* The endpoint implements the feed: every step of the runs, of the cancellation and of
\* the client is a step of JobFeed, or changes nothing that it speaks of.
THEOREM FeedIsKeptCorrect == Spec => FeedIsKept
  BY FeedInit, FeedStep, FeedInvCorrect, PTL DEF Spec, FeedIsKept, Feed!Spec

=============================================================================
