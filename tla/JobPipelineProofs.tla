-------------------------- MODULE JobPipelineProofs --------------------------
(***************************************************************************)
(* Proofs about JobPipeline for every value of its constants: that every   *)
(* variable keeps its type, that no user is overspent, and what the proofs *)
(* of JobSettlementProofs need of a step: what it adds to the ledger, how  *)
(* it changes the status of a row, and what it makes of the local state of *)
(* the request, the call or the run that takes it.                         *)
(***************************************************************************)
EXTENDS JobPipeline, CreditLedgerProofs

-----------------------------------------------------------------------------
(* Type correctness.                                                       *)

LEMMA TypeInit == Init => TypeOK
<1> SUFFICES ASSUME Init PROVE TypeOK
  OBVIOUS
<1>1. LedgerTypeOK
  BY LedgerAssumption DEF Init, LedgerInit, LedgerTypeOK, Row, Txn, TxnType
<1>2. request \in [Requests -> RequestState]
  BY DEF Init, RequestState, RequestPc
<1>3. cancel \in [Cancels -> CancelState]
  BY DEF Init, CancelState, CancelPc
<1>4. worker \in [Workers -> WorkerState]
  BY DEF Init, Idle, WorkerState, WorkerPc, JobStatus, Terminal
<1>5. InHand
  <2>1. \A r \in Requests : request[r].item = 1 /\ 1 \in DOMAIN Plan[r]
    BY PlanAssumption DEF Init
  <2>2. \A c \in Cancels : cancel[c].pc = "new"
    BY DEF Init
  <2>3. \A w \in Workers : worker[w].pc = "idle" /\ ~worker[w].noCharge
    BY DEF Init, Idle
  <2> QED
    BY <2>1, <2>2, <2>3 DEF InHand
<1>6. faults \in 0..MaxFaults /\ redeliveries \in 0..MaxRedeliveries
  BY BoundAssumption DEF Init
<1>7. lockedBy \in [Users -> Requests \cup {None}]
  BY DEF Init, LedgerInit
<1>8. /\ status \in [Jobs -> JobStatus]
      /\ attempts \in [Jobs -> Nat] /\ outputs \in [Jobs -> Nat] /\ queue \in [Jobs -> Nat]
      /\ scheduled \subseteq Jobs /\ freeEntries \subseteq Clones /\ cancelFlag \subseteq Jobs
      /\ clone \in [Clones -> {"new", "open", "closed"}]
  BY DEF Init, JobStatus
<1> QED
  BY <1>1, <1>2, <1>3, <1>4, <1>5, <1>6, <1>7, <1>8 DEF TypeOK

\* A new local state of the right type keeps the workers well typed.
LEMMA BecomesType ==
  ASSUME TypeOK, NEW w \in Workers, NEW s \in WorkerState, Becomes(w, s),
         s.pc # "idle" => s.job \in Jobs, s.noCharge => s.job \in Clones
  PROVE  /\ worker' \in [Workers -> WorkerState]
         /\ \A v \in Workers : /\ worker'[v].pc # "idle" => worker'[v].job \in Jobs
                               /\ worker'[v].noCharge => worker'[v].job \in Clones
  BY DEF TypeOK, InHand, Becomes

LEMMA IdleType == Idle \in WorkerState /\ Idle.pc = "idle" /\ ~Idle.noCharge
  BY DEF Idle, WorkerState, WorkerPc, JobStatus, Terminal

LEMMA FinishingType ==
  ASSUME TypeOK, NEW w \in Workers, NEW o \in Terminal
  PROVE  /\ Finishing(w, o) \in WorkerState /\ Finishing(w, o).job = worker[w].job
         /\ Finishing(w, o).noCharge = worker[w].noCharge
<1>1. worker[w] \in WorkerState
  BY DEF TypeOK
<1> QED
  BY <1>1 DEF Finishing, WorkerState, WorkerPc

LEMMA WorkerStepType ==
  ASSUME TypeOK, NEW w \in Workers,
         RunStep(w) \/ ClaimRead(w) \/ NoCapacity(w) \/ ObjectStoreFails(w) \/ WorkerLost(w)
  PROVE  /\ worker' \in [Workers -> WorkerState]
         /\ \A v \in Workers : /\ worker'[v].pc # "idle" => worker'[v].job \in Jobs
                               /\ worker'[v].noCharge => worker'[v].job \in Clones
<1> DEFINE me == worker[w]
           Goal == \E s \in WorkerState : /\ Becomes(w, s)
                                          /\ s.pc # "idle" => s.job \in Jobs
                                          /\ s.noCharge => s.job \in Clones
<1>0. /\ me \in WorkerState
      /\ me.pc # "idle" => me.job \in Jobs
      /\ me.noCharge => me.job \in Clones
      /\ status \in [Jobs -> JobStatus]
      /\ attempts \in [Jobs -> Nat]
  BY DEF TypeOK, InHand
<1> SUFFICES Goal
  BY BecomesType
<1>1. CASE ClaimCommit(w)
  <2> DEFINE n == me.attempts + 1
             s == [me EXCEPT !.pc = "load", !.attempts = n]
  <2>1. s \in WorkerState /\ s.job = me.job /\ s.noCharge = me.noCharge
    <3>1. n \in Nat
      BY <1>0 DEF WorkerState
    <3> HIDE DEF n
    <3> QED
      BY <1>0, <3>1 DEF WorkerState, WorkerPc
  <2>2. Becomes(w, s) /\ me.pc # "idle"
    BY <1>1 DEF ClaimCommit
  <2> QED
    BY <1>0, <2>1, <2>2
<1>2. CASE LoadReferences(w)
  <2> DEFINE s == [me EXCEPT !.pc = "stage", !.stage = 1]
  <2>1. s \in WorkerState /\ s.job = me.job /\ s.noCharge = me.noCharge
    BY <1>0 DEF WorkerState, WorkerPc
  <2>2. Becomes(w, s) /\ me.pc # "idle"
    BY <1>2 DEF LoadReferences
  <2> QED
    BY <1>0, <2>1, <2>2
<1>3. CASE StageCancelled(w)
  <2>1. Becomes(w, Finishing(w, "cancelled")) /\ me.pc # "idle"
    BY <1>3 DEF StageCancelled
  <2> QED
    BY <1>0, <2>1, FinishingType DEF Terminal
<1>4. CASE StageSucceeds(w)
  <2>1. me.pc # "idle"
    BY <1>4 DEF StageSucceeds
  <2>2. CASE me.stage < Stages
    <3> DEFINE s == [me EXCEPT !.stage = me.stage + 1]
    <3>1. s \in WorkerState /\ s.job = me.job /\ s.noCharge = me.noCharge
      BY <1>0 DEF WorkerState
    <3>2. Becomes(w, s)
      BY <1>4, <2>2 DEF StageSucceeds
    <3> QED
      BY <1>0, <2>1, <3>1, <3>2
  <2>3. CASE ~(me.stage < Stages)
    <3>1. Becomes(w, Finishing(w, "completed"))
      BY <1>4, <2>3 DEF StageSucceeds
    <3> QED
      BY <1>0, <2>1, <3>1, FinishingType DEF Terminal
  <2> QED
    BY <2>2, <2>3
<1>5. ASSUME NEW transient \in BOOLEAN, StageFails(w, transient) PROVE Goal
  <2>1. me.pc # "idle"
    BY <1>5 DEF StageFails
  <2>2. CASE MayRetry(w, transient)
    <3> DEFINE s == [me EXCEPT !.pc = "retryRead"]
    <3>1. s \in WorkerState /\ s.job = me.job /\ s.noCharge = me.noCharge
      BY <1>0 DEF WorkerState, WorkerPc
    <3>2. Becomes(w, s)
      BY <1>5, <2>2 DEF StageFails
    <3> QED
      BY <1>0, <2>1, <3>1, <3>2
  <2>3. CASE ~MayRetry(w, transient)
    <3>1. Becomes(w, Finishing(w, "failed"))
      BY <1>5, <2>3 DEF StageFails
    <3> QED
      BY <1>0, <2>1, <3>1, FinishingType DEF Terminal
  <2> QED
    BY <2>2, <2>3
<1>6. CASE RetryRead(w)
  <2> DEFINE s == [me EXCEPT !.pc = "retryCommit", !.seen = status[me.job]]
  <2>1. Becomes(w, s) /\ me.pc # "idle"
    BY <1>6 DEF RetryRead
  <2>2. s \in WorkerState /\ s.job = me.job /\ s.noCharge = me.noCharge
    BY <1>0, <2>1 DEF WorkerState, WorkerPc
  <2> QED
    BY <1>0, <2>1, <2>2
<1>7. CASE RetryCommit(w)
  <2> DEFINE s == [me EXCEPT !.pc = "retryEnqueue"]
  <2>1. s \in WorkerState /\ s.job = me.job /\ s.noCharge = me.noCharge
    BY <1>0 DEF WorkerState, WorkerPc
  <2>2. Becomes(w, s) /\ me.pc # "idle"
    BY <1>7 DEF RetryCommit
  <2> QED
    BY <1>0, <2>1, <2>2
<1>8. CASE FinishReload(w)
  <2> DEFINE p == IF me.outcome = "completed" THEN "persist" ELSE "check"
             s == [me EXCEPT !.pc = p, !.seen = status[me.job]]
  <2>1. Becomes(w, s) /\ me.pc # "idle"
    BY <1>8 DEF FinishReload
  <2>2. p \in WorkerPc
    BY DEF WorkerPc
  <2>3. s \in WorkerState /\ s.job = me.job /\ s.noCharge = me.noCharge
    <3> HIDE DEF p
    <3> QED
      BY <1>0, <2>1, <2>2 DEF WorkerState
  <2> QED
    BY <1>0, <2>1, <2>3
<1>9. CASE PersistOutputs(w)
  <2> DEFINE s == [me EXCEPT !.pc = "check"]
  <2>1. s \in WorkerState /\ s.job = me.job /\ s.noCharge = me.noCharge
    BY <1>0 DEF WorkerState, WorkerPc
  <2>2. Becomes(w, s) /\ me.pc # "idle"
    BY <1>9 DEF PersistOutputs
  <2> QED
    BY <1>0, <2>1, <2>2
<1>10. CASE CheckLedger(w)
  <2> DEFINE post == /\ Charges(w)
                     /\ ~Posted(Owner[me.job], Posting(me.outcome), KeyOf[me.job])
             s == [me EXCEPT !.pc = "commit", !.post = post]
  <2>1. Becomes(w, s) /\ me.pc # "idle"
    BY <1>10 DEF CheckLedger
  <2>2. post \in BOOLEAN
    OBVIOUS
  <2>3. s \in WorkerState /\ s.job = me.job /\ s.noCharge = me.noCharge
    <3> HIDE DEF post
    <3> QED
      BY <1>0, <2>2 DEF WorkerState, WorkerPc
  <2> QED
    BY <1>0, <2>1, <2>3
<1>11. CASE ClaimRead(w)
  <2> DEFINE s == [me EXCEPT !.pc = "claim", !.seen = status[me.job],
                             !.attempts = attempts[me.job]]
  <2>1. me.pc # "idle" /\ (Becomes(w, s) \/ Becomes(w, Idle))
    BY <1>11 DEF ClaimRead
  <2>2. s \in WorkerState /\ s.job = me.job /\ s.noCharge = me.noCharge
    BY <1>0, <2>1 DEF WorkerState, WorkerPc
  <2> QED
    BY <1>0, <2>1, <2>2, IdleType
<1>12. CASE \/ RetryEnqueue(w) \/ FinishCommit(w) \/ FinishRejected(w) \/ NoCapacity(w)
            \/ ObjectStoreFails(w) \/ WorkerLost(w)
  <2>1. Becomes(w, Idle)
    BY <1>12 DEF RetryEnqueue, FinishCommit, FinishRejected, NoCapacity, ObjectStoreFails,
                 WorkerLost
  <2> QED
    BY <2>1, IdleType
<1> QED
  BY <1>1, <1>2, <1>3, <1>4, <1>5, <1>6, <1>7, <1>8, <1>9, <1>10, <1>11, <1>12 DEF RunStep

\* A row lock is free, or held by the open transaction of a request.
LEMMA UnlockType ==
  ASSUME lockedBy \in [Users -> Requests \cup {None}], NEW u, NEW tx, Unlock(u, tx)
  PROVE  lockedBy' \in [Users -> Requests \cup {None}]
  BY DEF Unlock

\* The item a request works on is one of the jobs it mints.
LEMMA ItemFact ==
  ASSUME TypeOK, NEW r \in Requests,
         request[r].pc \in {"lookup", "checkHold", "lockHold", "insert"}
  PROVE  /\ Item(r) \in NewJobs /\ Item(r) \in Jobs
         /\ Owner[Item(r)] = Requester[r] /\ KeyOf[Item(r)] \in Keys /\ Cost[Item(r)] \in Nat
         /\ request[r].item \in 1..Len(Plan[r])
<1>1. request[r].item \in DOMAIN Plan[r] /\ Plan[r] \in Seq(NewJobs)
  BY PlanAssumption DEF TypeOK, InHand
<1>2. Item(r) \in NewJobs /\ request[r].item \in 1..Len(Plan[r])
  BY <1>1 DEF Item
<1> QED
  BY <1>1, <1>2, PlanAssumption, JobAssumption DEF Item, NewJobs

LEMMA ItemDoneType ==
  ASSUME TypeOK, NEW r \in Requests,
         request[r].pc \in {"lookup", "checkHold", "lockHold", "insert"}
  PROVE  /\ ItemDone(r) \in RequestState
         /\ ItemDone(r).pc \in {"lookup", "commit"}
         /\ ItemDone(r).pc = "lookup" => ItemDone(r).item \in DOMAIN Plan[r]
         /\ ItemDone(r).posted = request[r].posted
         /\ ItemDone(r).inserted = request[r].inserted
         /\ ItemDone(r).reserved = request[r].reserved
<1> DEFINE q == request[r]
           p == IF q.item = Len(Plan[r]) THEN "commit" ELSE "lookup"
           n == q.item + 1
<1>1. q \in RequestState /\ q.item \in 1..Len(Plan[r]) /\ Plan[r] \in Seq(NewJobs)
  BY ItemFact, PlanAssumption DEF TypeOK
<1>2. /\ p \in RequestPc /\ p \in {"lookup", "commit"} /\ n \in Nat
      /\ p = "lookup" => n \in DOMAIN Plan[r]
  BY <1>1 DEF RequestPc
<1>3. ItemDone(r) = [q EXCEPT !.item = n, !.pc = p]
  BY DEF ItemDone
<1> HIDE DEF p, n
<1> QED
  BY <1>1, <1>2, <1>3 DEF RequestState

\* A new local state of the right type keeps the requests well typed.
LEMMA ContinuesType ==
  ASSUME TypeOK, NEW r \in Requests, NEW s \in RequestState, Continues(r, s),
         s.pc \in {"lookup", "checkHold", "lockHold", "insert"} => s.item \in DOMAIN Plan[r]
  PROVE  /\ request' \in [Requests -> RequestState]
         /\ \A v \in Requests : request'[v].pc \in {"lookup", "checkHold", "lockHold", "insert"}
                                => request'[v].item \in DOMAIN Plan[v]
  BY DEF TypeOK, InHand, Continues

LEMMA TransactionOverType ==
  ASSUME TypeOK, NEW r \in Requests, NEW p \in {"done", "aborted"}
  PROVE  /\ TransactionOver(r, p) \in RequestState
         /\ TransactionOver(r, p).pc = p
         /\ TransactionOver(r, p).posted = {}
         /\ TransactionOver(r, p).inserted = {}
         /\ TransactionOver(r, p).reserved = 0
<1>1. request[r] \in RequestState
  BY DEF TypeOK
<1> QED
  BY <1>1 DEF TransactionOver, RequestState, RequestPc

LEMMA SubmitStepType ==
  ASSUME TypeOK, NEW r \in Requests, SubmitStep(r)
  PROVE  /\ request' \in [Requests -> RequestState]
         /\ \A v \in Requests : request'[v].pc \in {"lookup", "checkHold", "lockHold", "insert"}
                                => request'[v].item \in DOMAIN Plan[v]
<1> DEFINE q == request[r]
           Goal == \E s \in RequestState :
                     /\ Continues(r, s)
                     /\ s.pc \in {"lookup", "checkHold", "lockHold", "insert"}
                        => s.item \in DOMAIN Plan[r]
<1>0. /\ q \in RequestState
      /\ q.pc \in {"lookup", "checkHold", "lockHold", "insert"} => q.item \in DOMAIN Plan[r]
  BY DEF TypeOK, InHand
<1> SUFFICES Goal
  BY ContinuesType
<1>1. CASE SubmitLookup(r)
  <2> DEFINE s == [q EXCEPT !.pc = "checkHold"]
  <2>1. q.pc = "lookup" /\ (Continues(r, ItemDone(r)) \/ Continues(r, s))
    BY <1>1 DEF SubmitLookup
  <2>2. s \in RequestState /\ s.item = q.item
    BY <1>0 DEF RequestState, RequestPc
  <2> QED
    BY <1>0, <2>1, <2>2, ItemDoneType
<1>2. CASE SubmitCheckHold(r)
  <2> DEFINE p == IF HoldFound(r) THEN "insert" ELSE "lockHold"
             s == [q EXCEPT !.pc = p]
  <2>1. q.pc = "checkHold" /\ Continues(r, s)
    BY <1>2 DEF SubmitCheckHold
  <2>2. p \in RequestPc
    BY DEF RequestPc
  <2>3. s \in RequestState /\ s.item = q.item
    <3> HIDE DEF p
    <3> QED
      BY <1>0, <2>2 DEF RequestState
  <2> QED
    BY <1>0, <2>1, <2>3
<1>3. CASE SubmitHold(r)
  <2> DEFINE j == Item(r)
             s == [q EXCEPT !.pc = "insert", !.posted = q.posted \cup {j},
                            !.reserved = q.reserved + Cost[j]]
  <2>1. q.pc = "lockHold" /\ Continues(r, s)
    BY <1>3 DEF SubmitHold
  <2>2. q.posted \cup {j} \in SUBSET NewJobs /\ q.reserved + Cost[j] \in Nat
    BY <1>0, <2>1, ItemFact DEF RequestState
  <2>3. s \in RequestState /\ s.item = q.item
    <3> DEFINE P == q.posted \cup {j}
               n == q.reserved + Cost[j]
    <3>1. P \in SUBSET NewJobs /\ n \in Nat /\ s = [q EXCEPT !.pc = "insert", !.posted = P,
                                                            !.reserved = n]
      BY <2>2
    <3> HIDE DEF P, n, s
    <3> QED
      BY <1>0, <3>1 DEF RequestState, RequestPc
  <2> QED
    BY <1>0, <2>1, <2>3
<1>4. CASE SubmitInsert(r)
  <2> DEFINE d == ItemDone(r)
             s == [d EXCEPT !.inserted = d.inserted \cup {Item(r)}]
  <2>1. q.pc = "insert" /\ Continues(r, s)
    BY <1>4 DEF SubmitInsert
  <2>2. /\ d \in RequestState /\ Item(r) \in NewJobs
        /\ d.pc \in {"lookup", "commit"} /\ (d.pc = "lookup" => d.item \in DOMAIN Plan[r])
    BY <2>1, ItemDoneType, ItemFact
  <2>3. s \in RequestState /\ s.item = d.item /\ s.pc = d.pc
    <3> HIDE DEF d
    <3> QED
      BY <2>2 DEF RequestState
  <2> QED
    BY <2>1, <2>2, <2>3
<1>5. CASE SubmitCommit(r) \/ SubmitAbort(r)
  BY <1>5, TransactionOverType DEF SubmitCommit, SubmitAbort
<1> QED
  BY <1>1, <1>2, <1>3, <1>4, <1>5 DEF SubmitStep

LEMMA CancelStepType ==
  ASSUME TypeOK, NEW c \in Cancels,
         CancelStep(c) \/ CancelAbort(c) \/ \E j \in Jobs : CancelRead(c, j)
  PROVE  /\ cancel' \in [Cancels -> CancelState]
         /\ \A v \in Cancels : cancel'[v].pc # "new" => cancel'[v].job \in Jobs
<1> DEFINE q == cancel[c]
           Goal == \E s \in CancelState : Answers(c, s) /\ s.job \in Jobs
<1>0. /\ cancel \in [Cancels -> CancelState] /\ q \in CancelState
      /\ \A v \in Cancels : cancel[v].pc # "new" => cancel[v].job \in Jobs
  BY DEF TypeOK, InHand
<1> SUFFICES Goal
  BY <1>0 DEF Answers
<1>1. ASSUME NEW j \in Jobs, CancelRead(c, j) PROVE Goal
  <2> DEFINE s == [q EXCEPT !.pc = "signal", !.job = j]
  <2>1. s \in CancelState /\ s.job = j
    BY <1>0 DEF CancelState, CancelPc
  <2> QED
    BY <1>1, <2>1 DEF CancelRead
<1>2. CASE CancelSignal(c)
  <2> DEFINE s == [q EXCEPT !.pc = "check"]
  <2>1. s \in CancelState /\ s.job = q.job
    BY <1>0 DEF CancelState, CancelPc
  <2> QED
    BY <1>0, <1>2, <2>1 DEF CancelSignal
<1>3. CASE CancelCheck(c)
  <2> DEFINE post == ~Posted(Owner[q.job], "refund", KeyOf[q.job])
             s == [q EXCEPT !.pc = "commit", !.post = post]
  <2>1. Answers(c, s) /\ q.pc # "new"
    BY <1>3 DEF CancelCheck
  <2>2. post \in BOOLEAN
    OBVIOUS
  <2>3. s \in CancelState /\ s.job = q.job
    <3> HIDE DEF post
    <3> QED
      BY <1>0, <2>2 DEF CancelState, CancelPc
  <2> QED
    BY <1>0, <2>1, <2>3
<1>4. CASE CancelCommit(c) \/ CancelRejected(c) \/ CancelAbort(c)
  <2> DEFINE s == [q EXCEPT !.pc = "done"]
  <2>1. Answers(c, s) /\ q.pc # "new"
    BY <1>4 DEF CancelCommit, CancelRejected, CancelAbort
  <2>2. s \in CancelState /\ s.job = q.job
    BY <1>0 DEF CancelState, CancelPc
  <2> QED
    BY <1>0, <2>1, <2>2
<1> QED
  BY <1>1, <1>2, <1>3, <1>4 DEF CancelStep

-----------------------------------------------------------------------------
(* What each kind of step leaves alone.                                    *)

\* Every step of a worker but the one that fetches an entry.
WorkerAction(w) ==
    RunStep(w) \/ ClaimRead(w) \/ NoCapacity(w) \/ ObjectStoreFails(w) \/ WorkerLost(w)

CancelAction(c) == CancelStep(c) \/ CancelAbort(c) \/ \E j \in Jobs : CancelRead(c, j)

QueueAction(j) == Promote(j) \/ ExpireFlag(j) \/ Redeliver(j)

LEMMA NextSplit ==
  ASSUME [Next]_vars
  PROVE  \/ \E r \in Requests : SubmitStep(r)
         \/ \E c \in Clones : RequeueStep(c)
         \/ \E c \in Cancels : CancelAction(c)
         \/ \E w \in Workers : WorkerAction(w) \/ \E j \in Jobs : Fetch(w, j)
         \/ \E j \in Jobs : QueueAction(j)
         \/ UNCHANGED vars
  BY DEF Next, FaultStep, WorkerAction, CancelAction, QueueAction

LEMMA SubmitFrame ==
  ASSUME NEW r \in Requests, SubmitStep(r)
  PROVE  UNCHANGED <<attempts, outputs, scheduled, cancelFlag, clone, cancel, worker,
                     faults, redeliveries>>
<1> USE DEF rowVars, queueVars, boundVars
<1>1. CASE SubmitLookup(r) \/ SubmitCheckHold(r) \/ SubmitHold(r)
  BY <1>1 DEF SubmitLookup, SubmitCheckHold, SubmitHold
<1>2. CASE SubmitInsert(r)
  BY <1>2 DEF SubmitInsert, Enqueue
<1>3. CASE SubmitCommit(r) \/ SubmitAbort(r)
  BY <1>3 DEF SubmitCommit, SubmitAbort
<1> QED
  BY <1>1, <1>2, <1>3 DEF SubmitStep

LEMMA RequeueFrame ==
  ASSUME NEW c \in Clones, RequeueStep(c)
  PROVE  /\ UNCHANGED <<balance, held, txns, lockedBy, attempts, outputs, scheduled, cancelFlag,
                        request, cancel, worker, faults, redeliveries>>
         /\ status' = status \/ status' = [status EXCEPT ![c] = "queued"]
         /\ queue' = queue \/ queue' = [queue EXCEPT ![c] = @ + 1]
         /\ clone' \in {[clone EXCEPT ![c] = "open"], [clone EXCEPT ![c] = "closed"]}
<1> USE DEF ledgerVars, rowVars, queueVars, boundVars
<1>1. CASE RequeueOpen(c)
  BY <1>1 DEF RequeueOpen, Enqueue
<1>2. CASE RequeueCommit(c)
  BY <1>2 DEF RequeueCommit
<1>3. CASE RequeueAbort(c)
  BY <1>3 DEF RequeueAbort
<1> QED
  BY <1>1, <1>2, <1>3 DEF RequeueStep

LEMMA CancelFrame ==
  ASSUME NEW c \in Cancels, CancelAction(c)
  PROVE  /\ UNCHANGED <<attempts, outputs, request, clone, worker, redeliveries>>
         /\ UNCHANGED <<faults>> \/ Fault("cancel")
<1> USE DEF rowVars, queueVars, boundVars
<1>1. CASE CancelSignal(c) \/ CancelCheck(c) \/ CancelCommit(c) \/ CancelRejected(c)
  BY <1>1 DEF CancelSignal, CancelCheck, CancelCommit, CancelRejected
<1>2. CASE CancelAbort(c)
  BY <1>2 DEF CancelAbort
<1>3. CASE \E j \in Jobs : CancelRead(c, j)
  BY <1>3 DEF CancelRead
<1> QED
  BY <1>1, <1>2, <1>3 DEF CancelAction, CancelStep

LEMMA WorkerFrame ==
  ASSUME NEW w \in Workers, WorkerAction(w)
  PROVE  /\ UNCHANGED <<queue, cancelFlag, request, clone, cancel, redeliveries>>
         /\ UNCHANGED <<faults>> \/ Fault("storage") \/ Fault("worker")
<1> USE DEF rowVars, queueVars, apiVars, ApiUnchanged
<1>1. CASE ClaimCommit(w) \/ LoadReferences(w) \/ StageCancelled(w) \/ StageSucceeds(w)
           \/ \E transient \in BOOLEAN : StageFails(w, transient)
  BY <1>1 DEF ClaimCommit, LoadReferences, StageCancelled, StageSucceeds, StageFails
<1>2. CASE RetryRead(w) \/ RetryCommit(w) \/ RetryEnqueue(w)
  BY <1>2 DEF RetryRead, RetryCommit, RetryEnqueue, EnqueueIn
<1>3. CASE FinishReload(w) \/ PersistOutputs(w) \/ CheckLedger(w) \/ FinishCommit(w)
           \/ FinishRejected(w)
  BY <1>3 DEF FinishReload, PersistOutputs, CheckLedger, FinishCommit, FinishRejected
<1>4. CASE ClaimRead(w) \/ NoCapacity(w)
  BY <1>4 DEF ClaimRead, NoCapacity, EnqueueIn
<1>5. CASE ObjectStoreFails(w) \/ WorkerLost(w)
  BY <1>5 DEF ObjectStoreFails, WorkerLost
<1> QED
  BY <1>1, <1>2, <1>3, <1>4, <1>5 DEF WorkerAction, RunStep

LEMMA FetchFrame ==
  ASSUME NEW w \in Workers, NEW j \in Jobs, Fetch(w, j)
  PROVE  /\ UNCHANGED <<balance, held, txns, lockedBy, status, attempts, outputs, scheduled,
                        cancelFlag, request, clone, cancel, faults, redeliveries>>
         /\ worker[w].pc = "idle" /\ queue[j] > 0
         /\ queue' = [queue EXCEPT ![j] = @ - 1]
         /\ Becomes(w, [Idle EXCEPT !.pc = "fetched", !.job = j, !.noCharge = j \in freeEntries])
  BY DEF Fetch, ledgerVars, rowVars, apiVars, ApiUnchanged

LEMMA QueueFrame ==
  ASSUME NEW j \in Jobs, QueueAction(j)
  PROVE  /\ UNCHANGED <<balance, held, txns, lockedBy, status, attempts, outputs, request, clone,
                        cancel, worker, faults>>
         /\ queue' = queue \/ queue' = [queue EXCEPT ![j] = @ + 1]
         /\ scheduled' \subseteq scheduled /\ cancelFlag' \subseteq cancelFlag
         /\ \/ redeliveries' = redeliveries
            \/ redeliveries < MaxRedeliveries /\ redeliveries' = redeliveries + 1
<1> USE DEF ledgerVars, rowVars, apiVars, boundVars
<1>1. CASE Promote(j)
  BY <1>1 DEF Promote
<1>2. CASE ExpireFlag(j)
  BY <1>2 DEF ExpireFlag
<1>3. CASE Redeliver(j)
  BY <1>3 DEF Redeliver, Enqueue
<1> QED
  BY <1>1, <1>2, <1>3 DEF QueueAction

\* Which steps move the ledger, the balance row lock or an open request.
LEMMA LedgerFrame ==
  ASSUME [Next]_vars
  PROVE  \/ UNCHANGED <<balance, held, txns, lockedBy, request>>
         \/ \E r \in Requests : SubmitStep(r)
         \/ \E c \in Cancels : CancelCommit(c)
         \/ \E w \in Workers : FinishCommit(w)
<1>1. ASSUME NEW c \in Cancels, CancelAction(c), ~CancelCommit(c)
      PROVE  UNCHANGED <<balance, held, txns, lockedBy, request>>
  BY <1>1, CancelFrame DEF CancelAction, CancelStep, CancelSignal, CancelCheck, CancelRejected,
     CancelAbort, CancelRead, ledgerVars
<1>2. ASSUME NEW w \in Workers, WorkerAction(w), ~FinishCommit(w)
      PROVE  UNCHANGED <<balance, held, txns, lockedBy, request>>
  <2>1. UNCHANGED request
    BY <1>2, WorkerFrame
  <2>2. CASE ClaimCommit(w) \/ LoadReferences(w) \/ StageCancelled(w) \/ StageSucceeds(w)
             \/ \E transient \in BOOLEAN : StageFails(w, transient)
    BY <2>1, <2>2 DEF ClaimCommit, LoadReferences, StageCancelled, StageSucceeds, StageFails,
       ledgerVars
  <2>3. CASE RetryRead(w) \/ RetryCommit(w) \/ RetryEnqueue(w) \/ FinishReload(w)
             \/ PersistOutputs(w) \/ CheckLedger(w) \/ FinishRejected(w)
    BY <2>1, <2>3 DEF RetryRead, RetryCommit, RetryEnqueue, FinishReload, PersistOutputs,
       CheckLedger, FinishRejected, ledgerVars
  <2>4. CASE ClaimRead(w) \/ NoCapacity(w) \/ ObjectStoreFails(w) \/ WorkerLost(w)
    BY <2>1, <2>4 DEF ClaimRead, NoCapacity, ObjectStoreFails, WorkerLost, ledgerVars
  <2> QED
    BY <1>2, <2>2, <2>3, <2>4 DEF WorkerAction, RunStep
<1>3. CASE UNCHANGED vars
  BY <1>3 DEF vars, ledgerVars, apiVars
<1> QED
  BY <1>1, <1>2, <1>3, NextSplit, RequeueFrame, FetchFrame, QueueFrame

-----------------------------------------------------------------------------
(* The rest of type correctness, one group of variables at a time.         *)

\* What a worker that finishes may post, and a cancel call.
LEMMA FinishPosts ==
  ASSUME TypeOK, NEW w \in Workers, FinishCommit(w)
  PROVE  LET j == worker[w].job
         IN  /\ j \in Jobs /\ Owner[j] \in Users /\ KeyOf[j] \in Keys /\ Cost[j] \in Nat
             /\ \/ Debit(Owner[j], KeyOf[j], Cost[j]) /\ worker[w].post
                   /\ worker[w].outcome = "completed"
                \/ RefundHold(Owner[j], KeyOf[j], Cost[j]) /\ worker[w].post
                   /\ worker[w].outcome # "completed"
                \/ UNCHANGED <<balance, held, txns, lockedBy>> /\ ~worker[w].post
             /\ UNCHANGED request
  BY JobAssumption DEF TypeOK, InHand, FinishCommit, ledgerVars, ApiUnchanged, apiVars

LEMMA CancelPosts ==
  ASSUME TypeOK, NEW c \in Cancels, CancelCommit(c)
  PROVE  LET j == cancel[c].job
         IN  /\ j \in Jobs /\ Owner[j] \in Users /\ KeyOf[j] \in Keys /\ Cost[j] \in Nat
             /\ \/ RefundHold(Owner[j], KeyOf[j], Cost[j]) /\ cancel[c].post
                \/ UNCHANGED <<balance, held, txns, lockedBy>> /\ ~cancel[c].post
             /\ UNCHANGED request
  BY JobAssumption DEF TypeOK, InHand, CancelCommit, ledgerVars

\* What an open request may do to the ledger.
LEMMA SubmitPosts ==
  ASSUME TypeOK, NEW r \in Requests, SubmitStep(r)
  PROVE  /\ Requester[r] \in Users
         /\ \/ SubmitHold(r)
            \/ SubmitCommit(r)
            \/ SubmitAbort(r)
            \/ /\ UNCHANGED <<balance, held, txns, lockedBy>>
               /\ request' \in [Requests -> RequestState]
               /\ request'[r].posted = request[r].posted
               /\ request'[r].reserved = request[r].reserved
               /\ \A s \in Requests \ {r} : request'[s] = request[s]
<1>0. request[r] \in RequestState /\ request \in [Requests -> RequestState] /\ Requester[r] \in Users
  BY PlanAssumption DEF TypeOK
<1> DEFINE Kept(s) == s.posted = request[r].posted /\ s.reserved = request[r].reserved
           Goal == \E s : Continues(r, s) /\ Kept(s)
<1>1. CASE SubmitLookup(r)
  <2>1. request[r].pc = "lookup" /\ UNCHANGED <<balance, held, txns, lockedBy>>
        /\ (Continues(r, ItemDone(r)) \/ Continues(r, [request[r] EXCEPT !.pc = "checkHold"]))
    BY <1>1 DEF SubmitLookup, ledgerVars
  <2>2. Kept([request[r] EXCEPT !.pc = "checkHold"])
    BY <1>0 DEF RequestState
  <2>3. Kept(ItemDone(r))
    BY <2>1, ItemDoneType
  <2> QED
    BY <1>0, <2>1, <2>2, <2>3, SubmitStepType DEF Continues
<1>2. CASE SubmitCheckHold(r)
  <2> DEFINE s == [request[r] EXCEPT !.pc = IF HoldFound(r) THEN "insert" ELSE "lockHold"]
  <2>1. Continues(r, s) /\ UNCHANGED <<balance, held, txns, lockedBy>>
    BY <1>2 DEF SubmitCheckHold, ledgerVars
  <2>2. Kept(s)
    BY <1>0 DEF RequestState
  <2> QED
    BY <1>0, <2>1, <2>2, SubmitStepType DEF Continues
<1>3. CASE SubmitInsert(r)
  <2> DEFINE d == ItemDone(r)
             s == [d EXCEPT !.inserted = d.inserted \cup {Item(r)}]
  <2>1. Continues(r, s) /\ UNCHANGED <<balance, held, txns, lockedBy>> /\ request[r].pc = "insert"
    BY <1>3 DEF SubmitInsert, ledgerVars
  <2>2. d \in RequestState /\ Kept(d)
    BY <2>1, ItemDoneType
  <2>3. Kept(s)
    <3> HIDE DEF d
    <3> QED
      BY <2>2 DEF RequestState
  <2> QED
    BY <1>0, <2>1, <2>3, SubmitStepType DEF Continues
<1> QED
  BY <1>0, <1>1, <1>2, <1>3 DEF SubmitStep

LEMMA LedgerTypeNext ==
  ASSUME TypeOK, [Next]_vars
  PROVE  LedgerTypeOK' /\ lockedBy' \in [Users -> Requests \cup {None}]
<1>0. LedgerTypeOK /\ lockedBy \in [Users -> Requests \cup {None}]
  BY DEF TypeOK
<1>1. CASE UNCHANGED <<balance, held, txns, lockedBy, request>>
  BY <1>0, <1>1 DEF LedgerTypeOK
<1>2. ASSUME NEW r \in Requests, SubmitStep(r)
      PROVE  LedgerTypeOK' /\ lockedBy' \in [Users -> Requests \cup {None}]
  <2>1. CASE UNCHANGED <<balance, held, txns, lockedBy>>
    BY <1>0, <2>1 DEF LedgerTypeOK
  <2>2. CASE SubmitHold(r)
    <3>1. UNCHANGED <<balance, held, txns>> /\ lockedBy' = [lockedBy EXCEPT ![Requester[r]] = r]
      BY <2>2 DEF SubmitHold
    <3> QED
      BY <1>0, <3>1 DEF LedgerTypeOK
  <2>3. CASE SubmitCommit(r)
    <3> DEFINE q == request[r]
               K == {KeyOf[j] : j \in q.posted}
    <3>1. K \in SUBSET Keys /\ q.reserved \in Nat
      BY JobAssumption DEF TypeOK, RequestState, NewJobs
    <3>2. CommitHolds(Requester[r], r, K, q.reserved) /\ Requester[r] \in Users
      BY <1>2, <2>3, SubmitPosts DEF SubmitCommit
    <3> HIDE DEF K, q
    <3> QED
      BY <1>0, <3>1, <3>2, CommitHoldsType, UnlockType
  <2>4. CASE SubmitAbort(r)
    <3>1. UNCHANGED <<balance, held, txns>> /\ Unlock(Requester[r], r)
      BY <2>4 DEF SubmitAbort
    <3> QED
      BY <1>0, <3>1, UnlockType DEF LedgerTypeOK
  <2> QED
    BY <1>2, <2>1, <2>2, <2>3, <2>4, SubmitPosts
<1>3. ASSUME NEW c \in Cancels, CancelCommit(c)
      PROVE  LedgerTypeOK' /\ lockedBy' \in [Users -> Requests \cup {None}]
  BY <1>0, <1>3, CancelPosts, RefundType DEF LedgerTypeOK
<1>4. ASSUME NEW w \in Workers, FinishCommit(w)
      PROVE  LedgerTypeOK' /\ lockedBy' \in [Users -> Requests \cup {None}]
  BY <1>0, <1>4, FinishPosts, DebitType, RefundType DEF LedgerTypeOK
<1> QED
  BY <1>1, <1>2, <1>3, <1>4, LedgerFrame

LEMMA ApiTypeNext ==
  ASSUME TypeOK, [Next]_vars
  PROVE  /\ InHand'
         /\ request' \in [Requests -> RequestState]
         /\ cancel' \in [Cancels -> CancelState]
         /\ worker' \in [Workers -> WorkerState]
         /\ clone' \in [Clones -> {"new", "open", "closed"}]
<1>0. /\ InHand
      /\ request \in [Requests -> RequestState]
      /\ cancel \in [Cancels -> CancelState]
      /\ worker \in [Workers -> WorkerState]
      /\ clone \in [Clones -> {"new", "open", "closed"}]
  BY DEF TypeOK
<1> DEFINE RequestOK == \A r \in Requests : request[r].pc \in {"lookup", "checkHold", "lockHold", "insert"}
                          => request[r].item \in DOMAIN Plan[r]
           CancelOK == \A c \in Cancels : cancel[c].pc # "new" => cancel[c].job \in Jobs
           WorkerOK == \A w \in Workers : /\ worker[w].pc # "idle" => worker[w].job \in Jobs
                                          /\ worker[w].noCharge => worker[w].job \in Clones
<1>1. request' \in [Requests -> RequestState] /\ RequestOK'
  <2>1. CASE \E r \in Requests : SubmitStep(r)
    BY <2>1, SubmitStepType
  <2>2. CASE UNCHANGED request
    BY <1>0, <2>2 DEF InHand
  <2> QED
    BY <2>1, <2>2, NextSplit, RequeueFrame, CancelFrame, WorkerFrame, FetchFrame, QueueFrame
       DEF vars, apiVars
<1>2. cancel' \in [Cancels -> CancelState] /\ CancelOK'
  <2>1. CASE \E c \in Cancels : CancelAction(c)
    BY <2>1, CancelStepType DEF CancelAction
  <2>2. CASE UNCHANGED cancel
    BY <1>0, <2>2 DEF InHand
  <2> QED
    BY <2>1, <2>2, NextSplit, SubmitFrame, RequeueFrame, WorkerFrame, FetchFrame, QueueFrame
       DEF vars, apiVars
<1>3. worker' \in [Workers -> WorkerState] /\ WorkerOK'
  <2>1. CASE \E w \in Workers : WorkerAction(w)
    BY <2>1, WorkerStepType DEF WorkerAction
  <2>2. ASSUME NEW w \in Workers, NEW j \in Jobs, Fetch(w, j)
        PROVE  worker' \in [Workers -> WorkerState] /\ WorkerOK'
    <3> DEFINE free == j \in freeEntries
               s == [Idle EXCEPT !.pc = "fetched", !.job = j, !.noCharge = free]
    <3>1. s \in WorkerState /\ s.job \in Jobs /\ (s.noCharge => s.job \in Clones)
      <4>1. free \in BOOLEAN /\ (free => j \in Clones)
        BY DEF TypeOK
      <4> HIDE DEF free
      <4> QED
        BY <4>1, IdleType DEF WorkerState, WorkerPc
    <3>2. Becomes(w, s)
      BY <2>2, FetchFrame
    <3> HIDE DEF s
    <3> QED
      BY <3>1, <3>2, BecomesType
  <2>3. CASE UNCHANGED worker
    BY <1>0, <2>3 DEF InHand
  <2> QED
    BY <2>1, <2>2, <2>3, NextSplit, SubmitFrame, RequeueFrame, CancelFrame, QueueFrame DEF vars
<1>4. clone' \in [Clones -> {"new", "open", "closed"}]
  <2>1. CASE \E c \in Clones : RequeueStep(c)
    BY <1>0, <2>1, RequeueFrame
  <2>2. CASE UNCHANGED clone
    BY <1>0, <2>2
  <2> QED
    BY <2>1, <2>2, NextSplit, SubmitFrame, CancelFrame, WorkerFrame, FetchFrame, QueueFrame
       DEF vars, apiVars
<1> QED
  BY <1>1, <1>2, <1>3, <1>4 DEF InHand

LEMMA RowTypeNext ==
  ASSUME TypeOK, [Next]_vars
  PROVE  /\ status' \in [Jobs -> JobStatus]
         /\ attempts' \in [Jobs -> Nat]
         /\ outputs' \in [Jobs -> Nat]
<1> DEFINE Goal == /\ status' \in [Jobs -> JobStatus]
                   /\ attempts' \in [Jobs -> Nat]
                   /\ outputs' \in [Jobs -> Nat]
<1>0. /\ status \in [Jobs -> JobStatus]
      /\ attempts \in [Jobs -> Nat]
      /\ outputs \in [Jobs -> Nat]
  BY DEF TypeOK
<1>1. ASSUME NEW r \in Requests, SubmitStep(r) PROVE Goal
  <2>1. status' \in [Jobs -> JobStatus]
    BY <1>0, <1>1 DEF SubmitStep, SubmitLookup, SubmitCheckHold, SubmitHold, SubmitInsert,
       SubmitCommit, SubmitAbort, rowVars, JobStatus
  <2> QED
    BY <1>0, <1>1, <2>1, SubmitFrame
<1>2. ASSUME NEW c \in Clones, RequeueStep(c) PROVE Goal
  BY <1>0, <1>2, RequeueFrame DEF JobStatus
<1>3. ASSUME NEW c \in Cancels, CancelAction(c) PROVE Goal
  <2>1. UNCHANGED <<attempts, outputs>>
    BY <1>3, CancelFrame
  <2>2. CASE CancelCommit(c)
    BY <1>0, <2>1, <2>2 DEF CancelCommit, JobStatus
  <2>3. CASE ~CancelCommit(c)
    <3>1. UNCHANGED status
      BY <1>3, <2>3 DEF CancelAction, CancelStep, CancelSignal, CancelCheck, CancelRejected,
         CancelAbort, CancelRead, rowVars
    <3> QED
      BY <1>0, <2>1, <3>1
  <2> QED
    BY <2>2, <2>3
<1>4. ASSUME NEW w \in Workers, WorkerAction(w) PROVE Goal
  <2>0. worker[w] \in WorkerState
    BY DEF TypeOK
  <2>1. CASE ClaimCommit(w)
    <3> DEFINE n == worker[w].attempts + 1
    <3>1. n \in Nat
      BY <2>0 DEF WorkerState
    <3>2. attempts' = [attempts EXCEPT ![worker[w].job] = n] /\ outputs' = outputs
      BY <2>1 DEF ClaimCommit
    <3>3. status' \in [Jobs -> JobStatus]
      BY <1>0, <2>1 DEF ClaimCommit, Written, JobStatus
    <3> HIDE DEF n
    <3> QED
      BY <1>0, <3>1, <3>2, <3>3
  <2>2. CASE RetryCommit(w)
    BY <1>0, <2>2 DEF RetryCommit, Written, JobStatus
  <2>3. CASE FinishCommit(w)
    <3>1. worker[w].outcome \in JobStatus
      BY <2>0 DEF WorkerState, Terminal, JobStatus
    <3>2. status' \in [Jobs -> JobStatus]
      BY <1>0, <2>3, <3>1 DEF FinishCommit, Written
    <3>3. attempts' = attempts /\ outputs' \in [Jobs -> Nat]
      <4> DEFINE j == worker[w].job
                 n == IF worker[w].outcome = "completed" THEN outputs[j] + 1 ELSE outputs[j]
      <4>1. attempts' = attempts /\ outputs' = [outputs EXCEPT ![j] = n]
        BY <2>3 DEF FinishCommit
      <4>2. j \in Jobs
        BY <2>3, FinishPosts
      <4>3. n \in Nat
        BY <1>0, <4>2
      <4> HIDE DEF n, j
      <4> QED
        BY <1>0, <4>1, <4>3
    <3> QED
      BY <1>0, <3>2, <3>3
  <2>4. CASE ~ClaimCommit(w) /\ ~RetryCommit(w) /\ ~FinishCommit(w)
    <3>1. CASE LoadReferences(w) \/ StageCancelled(w) \/ StageSucceeds(w)
               \/ \E transient \in BOOLEAN : StageFails(w, transient)
      BY <1>0, <3>1 DEF LoadReferences, StageCancelled, StageSucceeds, StageFails, rowVars
    <3>2. CASE RetryRead(w) \/ RetryEnqueue(w) \/ FinishReload(w) \/ PersistOutputs(w)
               \/ CheckLedger(w) \/ FinishRejected(w)
      BY <1>0, <3>2 DEF RetryRead, RetryEnqueue, FinishReload, PersistOutputs, CheckLedger,
         FinishRejected, rowVars
    <3>3. CASE ClaimRead(w) \/ NoCapacity(w) \/ ObjectStoreFails(w) \/ WorkerLost(w)
      BY <1>0, <3>3 DEF ClaimRead, NoCapacity, ObjectStoreFails, WorkerLost, rowVars
    <3> QED
      BY <1>4, <2>4, <3>1, <3>2, <3>3 DEF WorkerAction, RunStep
  <2> QED
    BY <2>1, <2>2, <2>3, <2>4
<1>5. CASE UNCHANGED <<status, attempts, outputs>>
  BY <1>0, <1>5
<1> QED
  BY <1>1, <1>2, <1>3, <1>4, <1>5, NextSplit, FetchFrame, QueueFrame DEF vars, rowVars

\* What is put into the payload of an entry.
LEMMA PayloadFrame ==
  ASSUME [Next]_vars
  PROVE  \/ freeEntries' = freeEntries
         \/ \E r \in Requests : SubmitInsert(r) /\ Carries(Item(r), FALSE)
         \/ \E c \in Clones : Carries(c, TRUE)
         \/ \E w \in Workers : /\ RetryEnqueue(w) \/ NoCapacity(w)
                               /\ Carries(worker[w].job, worker[w].noCharge)
         \/ \E j \in Jobs : \E free \in BOOLEAN :
              redeliveries < MaxRedeliveries /\ (free => j \in Clones) /\ Carries(j, free)
<1>1. ASSUME NEW r \in Requests, SubmitStep(r)
      PROVE  freeEntries' = freeEntries \/ (SubmitInsert(r) /\ Carries(Item(r), FALSE))
  BY <1>1 DEF SubmitStep, SubmitLookup, SubmitCheckHold, SubmitHold, SubmitInsert, SubmitCommit,
     SubmitAbort, Enqueue, queueVars
<1>2. ASSUME NEW c \in Clones, RequeueStep(c)
      PROVE  freeEntries' = freeEntries \/ Carries(c, TRUE)
  BY <1>2 DEF RequeueStep, RequeueOpen, RequeueCommit, RequeueAbort, Enqueue, queueVars
<1>3. ASSUME NEW c \in Cancels, CancelAction(c) PROVE freeEntries' = freeEntries
  BY <1>3 DEF CancelAction, CancelStep, CancelSignal, CancelCommit, CancelCheck, CancelRejected,
     CancelAbort, CancelRead, QueueCancel, queueVars
<1>4. ASSUME NEW w \in Workers, WorkerAction(w)
      PROVE  \/ freeEntries' = freeEntries
             \/ /\ RetryEnqueue(w) \/ NoCapacity(w)
                /\ Carries(worker[w].job, worker[w].noCharge)
  <2>1. CASE RetryEnqueue(w) \/ NoCapacity(w)
    BY <2>1 DEF RetryEnqueue, NoCapacity, EnqueueIn
  <2>2. CASE ~RetryEnqueue(w) /\ ~NoCapacity(w)
    BY <1>4, <2>2 DEF WorkerAction, RunStep, ClaimCommit, LoadReferences, StageCancelled,
       StageSucceeds, StageFails, RetryRead, RetryCommit, FinishReload, PersistOutputs,
       CheckLedger, FinishCommit, FinishRejected, ClaimRead, ObjectStoreFails, WorkerLost,
       queueVars
  <2> QED
    BY <2>1, <2>2
<1>5. ASSUME NEW w \in Workers, NEW j \in Jobs, Fetch(w, j) PROVE freeEntries' = freeEntries
  BY <1>5 DEF Fetch
<1>6. ASSUME NEW j \in Jobs, QueueAction(j)
      PROVE  \/ freeEntries' = freeEntries
             \/ \E free \in BOOLEAN :
                  redeliveries < MaxRedeliveries /\ (free => j \in Clones) /\ Carries(j, free)
  BY <1>6 DEF QueueAction, Promote, ExpireFlag, Redeliver, Enqueue
<1>7. CASE UNCHANGED vars
  BY <1>7 DEF vars, queueVars
<1> QED
  BY <1>1, <1>2, <1>3, <1>4, <1>5, <1>6, <1>7, NextSplit

LEMMA PayloadTypeNext == ASSUME TypeOK, [Next]_vars PROVE freeEntries' \subseteq Clones
<1>1. freeEntries \subseteq Clones
  BY DEF TypeOK
<1>2. \A w \in Workers : worker[w].noCharge => worker[w].job \in Clones
  BY DEF TypeOK, InHand
<1> QED
  BY <1>1, <1>2, PayloadFrame DEF Carries

LEMMA QueueTypeNext ==
  ASSUME TypeOK, [Next]_vars
  PROVE  /\ queue' \in [Jobs -> Nat] /\ scheduled' \subseteq Jobs /\ cancelFlag' \subseteq Jobs
         /\ faults' \in 0..MaxFaults /\ redeliveries' \in 0..MaxRedeliveries
<1> DEFINE Goal == /\ queue' \in [Jobs -> Nat]
                   /\ scheduled' \subseteq Jobs /\ cancelFlag' \subseteq Jobs
                   /\ faults' \in 0..MaxFaults /\ redeliveries' \in 0..MaxRedeliveries
<1>0. /\ queue \in [Jobs -> Nat] /\ scheduled \subseteq Jobs /\ cancelFlag \subseteq Jobs
      /\ faults \in 0..MaxFaults /\ redeliveries \in 0..MaxRedeliveries
      /\ MaxFaults \in Nat /\ MaxRedeliveries \in Nat
  BY BoundAssumption DEF TypeOK
<1>1. ASSUME NEW r \in Requests, SubmitStep(r) PROVE Goal
  <2>1. queue' \in [Jobs -> Nat]
    <3>1. CASE SubmitInsert(r)
      <4>1. queue' = [queue EXCEPT ![Item(r)] = queue[Item(r)] + 1] /\ Item(r) \in Jobs
        BY <3>1, ItemFact DEF SubmitInsert, Enqueue
      <4> QED
        BY <1>0, <4>1
    <3>2. CASE ~SubmitInsert(r)
      BY <1>0, <1>1, <3>2 DEF SubmitStep, SubmitLookup, SubmitCheckHold, SubmitHold,
         SubmitCommit, SubmitAbort, queueVars
    <3> QED
      BY <3>1, <3>2
  <2> QED
    BY <1>0, <1>1, <2>1, SubmitFrame
<1>2. ASSUME NEW c \in Clones, RequeueStep(c) PROVE Goal
  BY <1>0, <1>2, RequeueFrame
<1>3. ASSUME NEW c \in Cancels, CancelAction(c) PROVE Goal
  <2>1. redeliveries' = redeliveries /\ (faults' = faults \/ Fault("cancel"))
    BY <1>3, CancelFrame
  <2>2. faults' \in 0..MaxFaults
    BY <1>0, <2>1 DEF Fault
  <2>3. CASE CancelSignal(c)
    <3>1. cancel[c].job \in Jobs /\ QueueCancel(cancel[c].job)
      BY <2>3 DEF CancelSignal, TypeOK, InHand
    <3> QED
      BY <1>0, <2>1, <2>2, <3>1 DEF QueueCancel, ClampedSub, queueVars
  <2>4. CASE ~CancelSignal(c)
    <3>1. UNCHANGED <<queue, scheduled, cancelFlag>>
      BY <1>3, <2>4 DEF CancelAction, CancelStep, CancelCommit, CancelCheck, CancelRejected,
         CancelAbort, CancelRead, queueVars
    <3> QED
      BY <1>0, <2>1, <2>2, <3>1
  <2> QED
    BY <2>3, <2>4
<1>4. ASSUME NEW w \in Workers, WorkerAction(w) PROVE Goal
  <2>1. /\ UNCHANGED <<queue, cancelFlag, redeliveries>>
        /\ UNCHANGED <<faults>> \/ Fault("storage") \/ Fault("worker")
    BY <1>4, WorkerFrame
  <2>2. faults' \in 0..MaxFaults
    BY <1>0, <2>1 DEF Fault
  <2>3. CASE RetryEnqueue(w) \/ NoCapacity(w)
    <3>1. worker[w].job \in Jobs /\ EnqueueIn(worker[w].job, worker[w].noCharge)
      BY <2>3 DEF RetryEnqueue, NoCapacity, TypeOK, InHand
    <3> QED
      BY <1>0, <2>1, <2>2, <3>1 DEF EnqueueIn
  <2>4. CASE ~RetryEnqueue(w) /\ ~NoCapacity(w)
    <3>1. scheduled' = scheduled
      BY <1>4, <2>4 DEF WorkerAction, RunStep, ClaimCommit, LoadReferences, StageCancelled,
         StageSucceeds, StageFails, RetryRead, RetryCommit, FinishReload, PersistOutputs,
         CheckLedger, FinishCommit, FinishRejected, ClaimRead, ObjectStoreFails, WorkerLost,
         queueVars
    <3> QED
      BY <1>0, <2>1, <2>2, <3>1
  <2> QED
    BY <2>3, <2>4
<1>5. ASSUME NEW w \in Workers, NEW j \in Jobs, Fetch(w, j) PROVE Goal
  <2>1. queue' = [queue EXCEPT ![j] = queue[j] - 1] /\ queue[j] > 0
    BY <1>5, FetchFrame
  <2> DEFINE n == queue[j] - 1
  <2>2. queue' \in [Jobs -> Nat]
    <3>1. n \in Nat
      BY <1>0, <2>1
    <3>2. queue' = [queue EXCEPT ![j] = n]
      BY <2>1
    <3> HIDE DEF n
    <3> QED
      BY <1>0, <3>1, <3>2
  <2> QED
    BY <1>0, <1>5, <2>2, FetchFrame
<1>6. ASSUME NEW j \in Jobs, QueueAction(j) PROVE Goal
  BY <1>0, <1>6, QueueFrame
<1>7. CASE UNCHANGED vars
  BY <1>0, <1>7 DEF vars, queueVars, boundVars
<1> QED
  BY <1>1, <1>2, <1>3, <1>4, <1>5, <1>6, <1>7, NextSplit

\* Every variable keeps its type, and a call or a run that has begun has its
\* item or its job in hand.
THEOREM TypeCorrect == Spec => []TypeOK
<1>1. TypeOK /\ [Next]_vars => TypeOK'
  <2> SUFFICES ASSUME TypeOK, [Next]_vars PROVE TypeOK'
    OBVIOUS
  <2> QED
    BY LedgerTypeNext, ApiTypeNext, RowTypeNext, QueueTypeNext, PayloadTypeNext DEF TypeOK
<1> QED
  BY TypeInit, <1>1, PTL DEF Spec

-----------------------------------------------------------------------------
(* No user is overspent.  Solvent alone is not inductive: the commit of a  *)
(* pack adds to held what was compared with the balance items ago, so the  *)
(* invariant also says what the row lock has kept true since then.         *)

SolventInv == Solvent /\ ReservedUnderLock

LEMMA DebitSolvent ==
  ASSUME TypeOK, SolventInv, NEW u \in Users, NEW k \in Keys, NEW amount \in Nat,
         Debit(u, k, amount), UNCHANGED request
  PROVE  SolventInv'
<1>1. /\ balance \in [Users -> Nat] /\ held \in [Users -> Nat]
      /\ request \in [Requests -> RequestState]
  BY DEF TypeOK, LedgerTypeOK
<1>2. /\ lockedBy[u] = None /\ lockedBy' = lockedBy /\ balance[u] >= amount
      /\ balance' = [balance EXCEPT ![u] = balance[u] - amount]
      /\ held' = [held EXCEPT ![u] = ClampedSub(held[u], amount)]
  BY <1>1 DEF Debit, DebitRejected, RowLockFree
<1>3. Solvent'
  <2>1. \A v \in Users : 0 <= held'[v] /\ held'[v] <= balance'[v]
    BY <1>1, <1>2 DEF SolventInv, Solvent, ClampedSub
  <2> QED
    BY <2>1 DEF Solvent
<1>4. ReservedUnderLock'
  <2> SUFFICES ASSUME NEW r \in Requests
               PROVE  /\ request[r].reserved > 0 => lockedBy[Requester[r]] = r
                      /\ lockedBy[Requester[r]] = r
                         => held'[Requester[r]] + request[r].reserved <= balance'[Requester[r]]
    BY <1>2 DEF ReservedUnderLock
  <2>1. CASE Requester[r] = u
    BY <1>2, <2>1, JobAssumption DEF SolventInv, ReservedUnderLock
  <2>2. CASE Requester[r] # u
    BY <1>1, <1>2, <2>2, PlanAssumption DEF SolventInv, ReservedUnderLock
  <2> QED
    BY <2>1, <2>2
<1> QED
  BY <1>3, <1>4 DEF SolventInv

LEMMA RefundSolvent ==
  ASSUME TypeOK, SolventInv, NEW u \in Users, NEW k \in Keys, NEW amount \in Nat,
         RefundHold(u, k, amount), UNCHANGED request
  PROVE  SolventInv'
<1>1. /\ balance \in [Users -> Nat] /\ held \in [Users -> Nat]
      /\ request \in [Requests -> RequestState]
  BY DEF TypeOK, LedgerTypeOK
<1>2. /\ lockedBy[u] = None /\ lockedBy' = lockedBy /\ balance' = balance
      /\ held' = [held EXCEPT ![u] = ClampedSub(held[u], amount)]
  BY <1>1 DEF RefundHold, RowLockFree
<1>3. Solvent'
  <2>1. \A v \in Users : 0 <= held'[v] /\ held'[v] <= balance'[v]
    BY <1>1, <1>2 DEF SolventInv, Solvent, ClampedSub
  <2> QED
    BY <2>1 DEF Solvent
<1>4. ReservedUnderLock'
  <2> SUFFICES ASSUME NEW r \in Requests
               PROVE  /\ request[r].reserved > 0 => lockedBy[Requester[r]] = r
                      /\ lockedBy[Requester[r]] = r
                         => held'[Requester[r]] + request[r].reserved <= balance[Requester[r]]
    BY <1>2 DEF ReservedUnderLock
  <2>1. CASE Requester[r] = u
    BY <1>2, <2>1, JobAssumption DEF SolventInv, ReservedUnderLock
  <2>2. CASE Requester[r] # u
    BY <1>1, <1>2, <2>2, PlanAssumption DEF SolventInv, ReservedUnderLock
  <2> QED
    BY <2>1, <2>2
<1> QED
  BY <1>3, <1>4 DEF SolventInv

\* What a step of r has to leave behind, for the request q.
Covered(q) ==
    LET u == Requester[q]
    IN  /\ request[q].reserved > 0 => lockedBy[u] = q
        /\ lockedBy[u] = q => held[u] + request[q].reserved <= balance[u]

LEMMA CoveredFacts ==
  ASSUME TypeOK, SolventInv, NEW q \in Requests
  PROVE  LET u == Requester[q] IN
         /\ u \in Users /\ held[u] \in Nat /\ balance[u] \in Nat /\ request[q].reserved \in Nat
         /\ request[q].reserved > 0 => lockedBy[u] = q
         /\ lockedBy[u] = q => held[u] + request[q].reserved <= balance[u]
         /\ held[u] + request[q].reserved <= balance[u]
<1> DEFINE u == Requester[q]
<1>1. u \in Users
  BY PlanAssumption
<1>2. held[u] \in Nat /\ balance[u] \in Nat
  BY <1>1 DEF TypeOK, LedgerTypeOK
<1>3. request[q].reserved \in Nat
  BY DEF TypeOK, RequestState
<1>4. /\ request[q].reserved > 0 => lockedBy[u] = q
      /\ lockedBy[u] = q => held[u] + request[q].reserved <= balance[u]
  BY DEF SolventInv, ReservedUnderLock
<1>5. held[u] <= balance[u]
  BY <1>1 DEF SolventInv, Solvent
<1> HIDE DEF u
<1>6. held[u] + request[q].reserved <= balance[u]
  BY <1>2, <1>3, <1>4, <1>5
<1> QED
  BY <1>1, <1>2, <1>3, <1>4, <1>6 DEF u

LEMMA SubmitHoldSolvent ==
  ASSUME TypeOK, SolventInv, NEW r \in Requests, SubmitHold(r)
  PROVE  SolventInv'
<1> DEFINE u == Requester[r]
           n == request[r].reserved + Cost[Item(r)]
           s == [request[r] EXCEPT !.pc = "insert", !.posted = request[r].posted \cup {Item(r)},
                                   !.reserved = n]
<1>1. /\ balance' = balance /\ held' = held /\ lockedBy' = [lockedBy EXCEPT ![u] = r]
      /\ lockedBy[u] \in {None, r} /\ request[r].pc = "lockHold"
      /\ balance[u] - held[u] - request[r].reserved >= Cost[Item(r)]
      /\ request' = [request EXCEPT ![r] = s]
  BY DEF SubmitHold, MayLock, Available, Continues
<1>2. Cost[Item(r)] \in Nat /\ n \in Nat
  BY <1>1, ItemFact, CoveredFacts
<1>3. u \in Users /\ lockedBy \in [Users -> Requests \cup {None}] /\ None \notin Requests
  BY PlanAssumption, JobAssumption DEF TypeOK
<1>4. held[u] + n <= balance[u]
  BY <1>1, <1>2, CoveredFacts
<1>5. s.reserved = n
  <2>1. request[r] \in RequestState
    BY DEF TypeOK
  <2> HIDE DEF n
  <2> QED
    BY <2>1 DEF RequestState
<1>6. request'[r].reserved = n /\ \A q \in Requests \ {r} : request'[q] = request[q]
  <2>1. request \in [Requests -> RequestState]
    BY DEF TypeOK
  <2> HIDE DEF s, n
  <2> QED
    BY <1>1, <1>5, <2>1
<1> HIDE DEF s, n
<1>7. lockedBy'[u] = r
  BY <1>1, <1>3
<1>8. ASSUME NEW q \in Requests PROVE Covered(q)'
  <2>1. CASE q = r
    BY <1>1, <1>4, <1>6, <1>7, <2>1 DEF Covered
  <2>2. CASE q # r /\ Requester[q] = u
    <3>1. lockedBy[u] # q /\ lockedBy'[u] # q
      BY <1>1, <1>3, <1>7, <2>2
    <3>2. ~(request'[q].reserved > 0)
      BY <1>6, <2>2, <3>1, CoveredFacts
    <3> QED
      BY <2>2, <3>1, <3>2 DEF Covered
  <2>3. CASE q # r /\ Requester[q] # u
    <3>1. lockedBy'[Requester[q]] = lockedBy[Requester[q]] /\ request'[q] = request[q]
      BY <1>1, <1>3, <1>6, <2>3, PlanAssumption
    <3> QED
      BY <1>1, <3>1, CoveredFacts DEF Covered
  <2> QED
    BY <2>1, <2>2, <2>3
<1>9. Solvent'
  BY <1>1 DEF SolventInv, Solvent
<1> QED
  BY <1>8, <1>9 DEF SolventInv, ReservedUnderLock, Covered

\* The end of r's transaction: what it reserved is held by now, or given up.
LEMMA SubmitEndSolvent ==
  ASSUME TypeOK, SolventInv, NEW r \in Requests,
         SubmitCommit(r) \/ SubmitAbort(r)
  PROVE  SolventInv'
<1> DEFINE u == Requester[r]
           n == IF SubmitCommit(r) THEN request[r].reserved ELSE 0
<1>1. n \in Nat /\ n <= request[r].reserved
  BY CoveredFacts
<1>2. balance' = balance /\ held' = [held EXCEPT ![u] = held[u] + n]
  <2>1. CASE SubmitCommit(r)
    BY <2>1 DEF SubmitCommit, CommitHolds
  <2>2. CASE ~SubmitCommit(r)
    <3>1. balance' = balance /\ held' = held /\ n = 0
      BY <2>2 DEF SubmitAbort
    <3>2. held \in [Users -> Nat] /\ u \in Users
      BY PlanAssumption DEF TypeOK, LedgerTypeOK
    <3>3. held[u] + 0 = held[u]
      BY <3>2
    <3>4. held = [held EXCEPT ![u] = held[u]]
      BY <3>2
    <3> HIDE DEF u, n
    <3> QED
      BY <3>1, <3>3, <3>4
  <2> QED
    BY <2>1, <2>2
<1>3. lockedBy' = [lockedBy EXCEPT ![u] = IF lockedBy[u] = r THEN None ELSE lockedBy[u]]
  BY DEF SubmitCommit, CommitHolds, SubmitAbort, Unlock
<1>4. \E p \in {"done", "aborted"} : request' = [request EXCEPT ![r] = TransactionOver(r, p)]
  BY DEF SubmitCommit, SubmitAbort, Continues
<1>5. request'[r].reserved = 0 /\ \A q \in Requests \ {r} : request'[q] = request[q]
  <2>1. PICK p \in {"done", "aborted"} : request' = [request EXCEPT ![r] = TransactionOver(r, p)]
    BY <1>4
  <2>2. request \in [Requests -> RequestState] /\ TransactionOver(r, p).reserved = 0
    BY TransactionOverType DEF TypeOK
  <2> QED
    BY <2>1, <2>2
<1>6. u \in Users /\ lockedBy \in [Users -> Requests \cup {None}] /\ None \notin Requests
  BY PlanAssumption, JobAssumption DEF TypeOK
<1>7. held \in [Users -> Nat] /\ balance \in [Users -> Nat]
  BY DEF TypeOK, LedgerTypeOK
<1> HIDE DEF n
<1>8. held'[u] = held[u] + n /\ \A v \in Users \ {u} : held'[v] = held[v]
  BY <1>2, <1>6, <1>7
<1>9. lockedBy'[u] # r /\ (lockedBy[u] = r => lockedBy'[u] = None)
      /\ (lockedBy[u] # r => lockedBy'[u] = lockedBy[u])
      /\ \A v \in Users \ {u} : lockedBy'[v] = lockedBy[v]
  BY <1>3, <1>6
<1>10. held'[u] <= balance'[u]
  BY <1>1, <1>2, <1>7, <1>8, CoveredFacts
<1>11. ASSUME NEW q \in Requests PROVE Covered(q)'
  <2>1. CASE q = r
    BY <1>5, <1>9, <2>1 DEF Covered
  <2>2. CASE q # r /\ Requester[q] = u
    <3>1. CASE lockedBy[u] = q
      <4>1. request[r].reserved = 0 /\ n = 0
        BY <1>1, <2>2, <3>1, CoveredFacts
      <4>2. held'[u] = held[u] /\ lockedBy'[u] = q
        BY <1>7, <1>6, <1>8, <1>9, <2>2, <3>1, <4>1
      <4> QED
        BY <1>2, <1>5, <2>2, <4>2, CoveredFacts DEF Covered
    <3>2. CASE lockedBy[u] # q
      <4>1. lockedBy'[u] # q
        BY <1>6, <1>9, <3>2
      <4>2. ~(request'[q].reserved > 0)
        BY <1>5, <2>2, <3>2, CoveredFacts
      <4> QED
        BY <2>2, <4>1, <4>2 DEF Covered
    <3> QED
      BY <3>1, <3>2
  <2>3. CASE q # r /\ Requester[q] # u
    <3>1. Requester[q] \in Users \ {u}
      BY <2>3, PlanAssumption
    <3>2. lockedBy'[Requester[q]] = lockedBy[Requester[q]] /\ request'[q] = request[q]
          /\ held'[Requester[q]] = held[Requester[q]]
      BY <1>5, <1>8, <1>9, <2>3, <3>1
    <3> QED
      BY <1>2, <3>2, CoveredFacts DEF Covered
  <2> QED
    BY <2>1, <2>2, <2>3
<1>12. Solvent'
  <2> SUFFICES ASSUME NEW v \in Users PROVE 0 <= held'[v] /\ held'[v] <= balance'[v]
    BY DEF Solvent
  <2>1. held[v] \in Nat /\ held[v] <= balance[v] /\ held[u] \in Nat
    BY <1>6, <1>7 DEF SolventInv, Solvent
  <2>2. CASE v = u
    BY <1>1, <1>8, <1>10, <2>1, <2>2
  <2>3. CASE v # u
    BY <1>2, <1>8, <2>1, <2>3
  <2> QED
    BY <2>2, <2>3
<1> QED
  BY <1>11, <1>12 DEF SolventInv, ReservedUnderLock, Covered

LEMMA SubmitSolvent ==
  ASSUME TypeOK, SolventInv, NEW r \in Requests, SubmitStep(r)
  PROVE  SolventInv'
<1>1. CASE /\ UNCHANGED <<balance, held, txns, lockedBy>>
           /\ request' \in [Requests -> RequestState]
           /\ request'[r].reserved = request[r].reserved
           /\ \A s \in Requests \ {r} : request'[s] = request[s]
  <2>1. \A s \in Requests : request'[s].reserved = request[s].reserved
    BY <1>1
  <2>2. ReservedUnderLock'
    BY <1>1, <2>1 DEF SolventInv, ReservedUnderLock
  <2> QED
    BY <1>1, <2>2 DEF SolventInv, Solvent
<1> QED
  BY <1>1, SubmitPosts, SubmitHoldSolvent, SubmitEndSolvent

\* No interleaving of submits, cancels and worker runs reserves more than a user
\* owns or takes the balance below what is reserved.
THEOREM SolventCorrect == Spec => []Solvent
<1>1. Init => SolventInv
  <2> SUFFICES ASSUME Init PROVE SolventInv
    OBVIOUS
  <2>1. Solvent
    BY LedgerAssumption DEF Init, LedgerInit, Solvent
  <2>2. ReservedUnderLock
    BY LedgerAssumption, PlanAssumption, JobAssumption DEF Init, LedgerInit, ReservedUnderLock
  <2> QED
    BY <2>1, <2>2 DEF SolventInv
<1>2. TypeOK /\ SolventInv /\ [Next]_vars => SolventInv'
  <2> SUFFICES ASSUME TypeOK, SolventInv, [Next]_vars PROVE SolventInv'
    OBVIOUS
  <2>1. CASE UNCHANGED <<balance, held, txns, lockedBy, request>>
    BY <2>1 DEF SolventInv, Solvent, ReservedUnderLock
  <2>2. ASSUME NEW r \in Requests, SubmitStep(r) PROVE SolventInv'
    BY <2>2, SubmitSolvent
  <2>3. CASE UNCHANGED <<balance, held, txns, lockedBy>> /\ UNCHANGED request
    BY <2>3 DEF SolventInv, Solvent, ReservedUnderLock
  <2>4. ASSUME NEW c \in Cancels, CancelCommit(c) PROVE SolventInv'
    BY <2>3, <2>4, CancelPosts, RefundSolvent
  <2>5. ASSUME NEW w \in Workers, FinishCommit(w) PROVE SolventInv'
    BY <2>3, <2>5, FinishPosts, DebitSolvent, RefundSolvent
  <2> QED
    BY <2>1, <2>2, <2>4, <2>5, LedgerFrame
<1>3. SolventInv => Solvent
  BY DEF SolventInv
<1> QED
  BY <1>1, <1>2, <1>3, TypeCorrect, PTL DEF Spec

-----------------------------------------------------------------------------
(* What a step adds to the ledger, and how it changes the status of a row. *)

\* The ledger is append-only.
LEMMA LedgerGrows ==
  ASSUME TypeOK, [Next]_vars
  PROVE  txns \subseteq txns'
<1>1. ASSUME NEW r \in Requests, SubmitStep(r) PROVE txns \subseteq txns'
  BY <1>1, SubmitPosts DEF SubmitHold, SubmitCommit, CommitHolds, SubmitAbort
<1>2. ASSUME NEW c \in Cancels, CancelCommit(c) PROVE txns \subseteq txns'
  BY <1>2, CancelPosts DEF RefundHold
<1>3. ASSUME NEW w \in Workers, FinishCommit(w) PROVE txns \subseteq txns'
  BY <1>3, FinishPosts DEF RefundHold, Debit
<1> QED
  BY <1>1, <1>2, <1>3, LedgerFrame

LEMMA PostedStays ==
  ASSUME TypeOK, [Next]_vars, NEW u, NEW type, NEW k, Posted(u, type, k)
  PROVE  Posted(u, type, k)'
  BY LedgerGrows DEF Posted

\* What makes a job queued or running: its insert, a claim, a retry.
Starts(j) ==
    \/ \E r \in Requests : SubmitCommit(r) /\ j \in request[r].inserted
    \/ \E c \in Clones : RequeueCommit(c) /\ c = j
    \/ \E w \in Workers : (ClaimCommit(w) \/ RetryCommit(w)) /\ worker[w].job = j

\* A job comes to its end in the commit of a cancel or of a run only.
LEMMA StatusFrame ==
  ASSUME TypeOK, [Next]_vars, NEW j \in Jobs
  PROVE  \/ status'[j] = status[j]
         \/ status'[j] \in {"queued", "running"} /\ Starts(j)
         \/ \E c \in Cancels : CancelCommit(c) /\ cancel[c].job = j /\ status'[j] = "cancelled"
         \/ \E w \in Workers : FinishCommit(w) /\ worker[w].job = j
                               /\ status'[j] = worker[w].outcome
<1> DEFINE Goal == \/ status'[j] = status[j]
                   \/ status'[j] \in {"queued", "running"} /\ Starts(j)
                   \/ \E c \in Cancels : /\ CancelCommit(c) /\ cancel[c].job = j
                                         /\ status'[j] = "cancelled"
                   \/ \E w \in Workers : /\ FinishCommit(w) /\ worker[w].job = j
                                         /\ status'[j] = worker[w].outcome
<1>0. status \in [Jobs -> JobStatus]
  BY DEF TypeOK
<1>1. ASSUME NEW r \in Requests, SubmitStep(r) PROVE Goal
  <2>1. CASE SubmitCommit(r)
    BY <1>0, <2>1 DEF SubmitCommit, Starts
  <2>2. CASE ~SubmitCommit(r)
    <3>1. status' = status
      BY <1>1, <2>2 DEF SubmitStep, SubmitLookup, SubmitCheckHold, SubmitHold, SubmitInsert,
         SubmitAbort, rowVars
    <3> QED
      BY <3>1
  <2> QED
    BY <2>1, <2>2
<1>2. ASSUME NEW c \in Clones, RequeueStep(c) PROVE Goal
  <2>1. CASE RequeueCommit(c)
    BY <1>0, <2>1 DEF RequeueCommit, Starts
  <2>2. CASE ~RequeueCommit(c)
    <3>1. status' = status
      BY <1>2, <2>2 DEF RequeueStep, RequeueOpen, RequeueAbort, rowVars
    <3> QED
      BY <3>1
  <2> QED
    BY <2>1, <2>2
<1>3. ASSUME NEW c \in Cancels, CancelAction(c) PROVE Goal
  <2>1. CASE CancelCommit(c)
    BY <1>0, <2>1 DEF CancelCommit
  <2>2. CASE ~CancelCommit(c)
    BY <1>3, <2>2 DEF CancelAction, CancelStep, CancelSignal, CancelCheck, CancelRejected,
       CancelAbort, CancelRead, rowVars
  <2> QED
    BY <2>1, <2>2
<1>4. ASSUME NEW w \in Workers, WorkerAction(w) PROVE Goal
  <2>1. CASE ClaimCommit(w) \/ RetryCommit(w)
    BY <1>0, <2>1 DEF ClaimCommit, RetryCommit, Written, Starts
  <2>2. CASE FinishCommit(w)
    BY <1>0, <2>2 DEF FinishCommit, Written
  <2>3. CASE LoadReferences(w) \/ StageCancelled(w) \/ StageSucceeds(w)
             \/ \E transient \in BOOLEAN : StageFails(w, transient)
    BY <2>3 DEF LoadReferences, StageCancelled, StageSucceeds, StageFails, rowVars
  <2>4. CASE RetryRead(w) \/ RetryEnqueue(w) \/ FinishReload(w) \/ PersistOutputs(w)
             \/ CheckLedger(w) \/ FinishRejected(w)
    BY <2>4 DEF RetryRead, RetryEnqueue, FinishReload, PersistOutputs, CheckLedger,
       FinishRejected, rowVars
  <2>5. CASE ClaimRead(w) \/ NoCapacity(w) \/ ObjectStoreFails(w) \/ WorkerLost(w)
    BY <2>5 DEF ClaimRead, NoCapacity, ObjectStoreFails, WorkerLost, rowVars
  <2> QED
    BY <1>4, <2>1, <2>2, <2>3, <2>4, <2>5 DEF WorkerAction, RunStep
<1>5. CASE UNCHANGED status
  BY <1>5
<1> QED
  BY <1>1, <1>2, <1>3, <1>4, <1>5, NextSplit, FetchFrame, QueueFrame DEF vars, rowVars

LEMMA BecomesFact ==
  ASSUME TypeOK, NEW w \in Workers, NEW s, Becomes(w, s)
  PROVE  worker'[w] = s /\ \A v \in Workers \ {w} : worker'[v] = worker[v]
  BY DEF TypeOK, Becomes

-----------------------------------------------------------------------------
(* Shapes: what a step of a request, of a call and of a worker makes of    *)
(* its local state.                                                        *)

Working == {"lookup", "checkHold", "lockHold", "insert"}

\* The open transaction of r, but for its step and its item, is the same.
SameFlushed(r) ==
    /\ request'[r].posted = request[r].posted
    /\ request'[r].inserted = request[r].inserted
    /\ request'[r].reserved = request[r].reserved

\* r has come to its next item, or to its commit.
NextItem(r) ==
    /\ request'[r].pc \in {"lookup", "commit"}
    /\ request'[r].item = request[r].item + 1

LEMMA ContinuesFact ==
  ASSUME TypeOK, NEW r \in Requests, NEW s, Continues(r, s)
  PROVE  request'[r] = s /\ \A q \in Requests \ {r} : request'[q] = request[q]
  BY DEF TypeOK, Continues

LEMMA ItemDoneItem ==
  ASSUME TypeOK, NEW r \in Requests, request[r].pc \in Working
  PROVE  ItemDone(r).item = request[r].item + 1
<1> DEFINE q == request[r]
           p == IF q.item = Len(Plan[r]) THEN "commit" ELSE "lookup"
           n == q.item + 1
<1>1. q \in RequestState
  BY DEF TypeOK
<1>2. ItemDone(r) = [q EXCEPT !.item = n, !.pc = p]
  BY DEF ItemDone
<1>3. ItemDone(r).item = n
  <2> HIDE DEF p, n
  <2> QED
    BY <1>1, <1>2 DEF RequestState
<1> QED
  BY <1>3

LEMMA InsertShape ==
  ASSUME TypeOK, NEW r \in Requests, SubmitInsert(r)
  PROVE  /\ \A q \in Requests \ {r} : request'[q] = request[q]
         /\ request[r].pc = "insert" /\ NextItem(r)
         /\ request'[r].inserted = request[r].inserted \cup {Item(r)}
         /\ request'[r].posted = request[r].posted
         /\ request'[r].reserved = request[r].reserved
<1> DEFINE q == request[r]
           d == ItemDone(r)
           I == d.inserted \cup {Item(r)}
           s == [d EXCEPT !.inserted = I]
<1>1. q.pc = "insert" /\ q.pc \in Working /\ Continues(r, s)
  BY DEF SubmitInsert, Working
<1>2. /\ d \in RequestState /\ d.pc \in {"lookup", "commit"} /\ d.item = q.item + 1
      /\ d.posted = q.posted /\ d.inserted = q.inserted /\ d.reserved = q.reserved
  BY <1>1, ItemDoneType, ItemDoneItem
<1>3. /\ s.pc = d.pc /\ s.item = d.item /\ s.posted = d.posted
      /\ s.inserted = I /\ s.reserved = d.reserved
  <2> HIDE DEF d, I
  <2> QED
    BY <1>2 DEF RequestState
<1>4. request'[r] = s /\ \A v \in Requests \ {r} : request'[v] = request[v]
  BY <1>1, ContinuesFact
<1>5. I = q.inserted \cup {Item(r)}
  BY <1>2
<1> HIDE DEF s, d, I
<1> QED
  BY <1>1, <1>2, <1>3, <1>4, <1>5 DEF NextItem

LEMMA SubmitShape ==
  ASSUME TypeOK, NEW r \in Requests, SubmitStep(r)
  PROVE  /\ \A q \in Requests \ {r} : request'[q] = request[q]
         /\ \/ /\ request[r].pc = "lookup" /\ SameFlushed(r)
               /\ NextItem(r)
            \/ /\ request[r].pc = "lookup" /\ SameFlushed(r)
               /\ request'[r].pc = "checkHold" /\ request'[r].item = request[r].item
               /\ ~OwnKey(request[r].inserted, KeyOf[Item(r)])
            \/ /\ request[r].pc = "checkHold" /\ SameFlushed(r)
               /\ request'[r].item = request[r].item
               /\ request'[r].pc = IF HoldFound(r) THEN "insert" ELSE "lockHold"
            \/ /\ SubmitHold(r) /\ request[r].pc = "lockHold"
               /\ request'[r].pc = "insert" /\ request'[r].item = request[r].item
               /\ request'[r].inserted = request[r].inserted
               /\ request'[r].posted = request[r].posted \cup {Item(r)}
               /\ request'[r].reserved = request[r].reserved + Cost[Item(r)]
            \/ /\ SubmitInsert(r) /\ request[r].pc = "insert" /\ NextItem(r)
               /\ request'[r].inserted = request[r].inserted \cup {Item(r)}
               /\ request'[r].posted = request[r].posted
               /\ request'[r].reserved = request[r].reserved
            \/ /\ SubmitCommit(r) \/ SubmitAbort(r)
               /\ request'[r].pc \in {"done", "aborted"}
               /\ request'[r].posted = {} /\ request'[r].inserted = {}
               /\ request'[r].reserved = 0
<1> DEFINE q == request[r]
<1>0. q \in RequestState
  BY DEF TypeOK
<1>1. CASE SubmitLookup(r)
  <2> DEFINE s == [q EXCEPT !.pc = "checkHold"]
  <2>1. q.pc = "lookup" /\ q.pc \in Working
    BY <1>1 DEF SubmitLookup, Working
  <2>2. CASE Continues(r, ItemDone(r))
    BY <2>1, <2>2, ContinuesFact, ItemDoneType, ItemDoneItem DEF SameFlushed, NextItem
  <2>3. CASE ~Continues(r, ItemDone(r))
    <3>1. Continues(r, s) /\ ~OwnKey(q.inserted, KeyOf[Item(r)])
      BY <1>1, <2>3 DEF SubmitLookup
    <3>2. /\ s.pc = "checkHold" /\ s.item = q.item /\ s.posted = q.posted
          /\ s.inserted = q.inserted /\ s.reserved = q.reserved
      BY <1>0 DEF RequestState
    <3> HIDE DEF s
    <3> QED
      BY <2>1, <3>1, <3>2, ContinuesFact DEF SameFlushed
  <2> QED
    BY <2>2, <2>3
<1>2. CASE SubmitCheckHold(r)
  <2> DEFINE p == IF HoldFound(r) THEN "insert" ELSE "lockHold"
             s == [q EXCEPT !.pc = p]
  <2>1. q.pc = "checkHold" /\ Continues(r, s)
    BY <1>2 DEF SubmitCheckHold
  <2>2. /\ s.pc = p /\ s.item = q.item /\ s.posted = q.posted
        /\ s.inserted = q.inserted /\ s.reserved = q.reserved
    <3> HIDE DEF p
    <3> QED
      BY <1>0 DEF RequestState
  <2>3. request'[r] = s /\ \A v \in Requests \ {r} : request'[v] = request[v]
    BY <2>1, ContinuesFact
  <2> HIDE DEF s
  <2> QED
    BY <2>1, <2>2, <2>3 DEF SameFlushed
<1>3. CASE SubmitHold(r)
  <2> DEFINE P == q.posted \cup {Item(r)}
             n == q.reserved + Cost[Item(r)]
             s == [q EXCEPT !.pc = "insert", !.posted = P, !.reserved = n]
  <2>1. q.pc = "lockHold" /\ Continues(r, s)
    BY <1>3 DEF SubmitHold
  <2>2. /\ s.pc = "insert" /\ s.item = q.item /\ s.posted = P
        /\ s.inserted = q.inserted /\ s.reserved = n
    <3> HIDE DEF P, n
    <3> QED
      BY <1>0 DEF RequestState
  <2>3. request'[r] = s /\ \A v \in Requests \ {r} : request'[v] = request[v]
    BY <2>1, ContinuesFact
  <2> HIDE DEF s
  <2> QED
    BY <1>3, <2>1, <2>2, <2>3
<1>4. CASE SubmitInsert(r)
  BY <1>4, InsertShape
<1>5. CASE SubmitCommit(r) \/ SubmitAbort(r)
  <2>1. PICK p \in {"done", "aborted"} : Continues(r, TransactionOver(r, p))
    BY <1>5 DEF SubmitCommit, SubmitAbort
  <2>2. request'[r] = TransactionOver(r, p) /\ \A v \in Requests \ {r} : request'[v] = request[v]
    BY <2>1, ContinuesFact
  <2> QED
    BY <1>5, <2>2, TransactionOverType
<1> QED
  BY <1>1, <1>2, <1>3, <1>4, <1>5 DEF SubmitStep

\* A cancel call that has read its job keeps it.
LEMMA CancelShape ==
  ASSUME TypeOK, NEW c \in Cancels, CancelAction(c)
  PROVE  /\ \A d \in Cancels \ {c} : cancel'[d] = cancel[d]
         /\ \/ cancel'[c].job = cancel[c].job /\ cancel[c].pc # "new"
            \/ \E j \in Jobs : cancel'[c].job = j /\ status[j] \in {"queued", "running"}
<1> DEFINE q == cancel[c]
<1>0. cancel \in [Cancels -> CancelState] /\ q \in CancelState
  BY DEF TypeOK
<1>1. ASSUME NEW s, Answers(c, s)
      PROVE  cancel'[c] = s /\ \A d \in Cancels \ {c} : cancel'[d] = cancel[d]
  BY <1>0, <1>1 DEF Answers
<1>2. CASE \E j \in Jobs : CancelRead(c, j)
  <2>1. PICK j \in Jobs : CancelRead(c, j)
    BY <1>2
  <2> DEFINE s == [q EXCEPT !.pc = "signal", !.job = j]
  <2>2. Answers(c, s) /\ status[j] \in {"queued", "running"}
    BY <2>1 DEF CancelRead, Cancellable
  <2>3. s.job = j
    BY <1>0 DEF CancelState
  <2> HIDE DEF s
  <2> QED
    BY <1>1, <2>2, <2>3
<1>3. CASE CancelSignal(c)
  <2> DEFINE s == [q EXCEPT !.pc = "check"]
  <2>1. q.pc # "new" /\ Answers(c, s)
    BY <1>3 DEF CancelSignal
  <2>2. s.job = q.job
    BY <1>0 DEF CancelState
  <2> HIDE DEF s
  <2> QED
    BY <1>1, <2>1, <2>2
<1>4. CASE CancelCheck(c)
  <2> DEFINE post == ~Posted(Owner[q.job], "refund", KeyOf[q.job])
             s == [q EXCEPT !.pc = "commit", !.post = post]
  <2>1. q.pc # "new" /\ Answers(c, s)
    BY <1>4 DEF CancelCheck
  <2>2. s.job = q.job
    <3> HIDE DEF post
    <3> QED
      BY <1>0 DEF CancelState
  <2> HIDE DEF s
  <2> QED
    BY <1>1, <2>1, <2>2
<1>5. CASE CancelCommit(c) \/ CancelRejected(c) \/ CancelAbort(c)
  <2> DEFINE s == [q EXCEPT !.pc = "done"]
  <2>1. q.pc # "new" /\ Answers(c, s)
    BY <1>5 DEF CancelCommit, CancelRejected, CancelAbort
  <2>2. s.job = q.job
    BY <1>0 DEF CancelState
  <2> HIDE DEF s
  <2> QED
    BY <1>1, <2>1, <2>2
<1> QED
  BY <1>2, <1>3, <1>4, <1>5 DEF CancelAction, CancelStep

\* Which step of its run takes a worker from the local state me to the local state new,
\* unless it gives the run up.
RunsOn(w, me, new) ==
    \/ /\ me.pc = "fetched" /\ new.pc = "claim"
       /\ MayClaim(me.job) /\ new.attempts = attempts[me.job]
    \/ /\ ClaimCommit(w) /\ me.pc = "claim" /\ new.pc = "load"
       /\ new.attempts = me.attempts + 1
    \/ me.pc = "load" /\ new.pc = "stage" /\ new.attempts = me.attempts
    \/ /\ me.pc = "stage" /\ new.pc \in {"stage", "finish", "retryRead"}
       /\ new.attempts = me.attempts
       /\ new.pc = "retryRead" => me.attempts < MaxRetries
    \/ me.pc = "retryRead" /\ new.pc = "retryCommit"
    \/ RetryCommit(w) /\ me.pc = "retryCommit" /\ new.pc = "retryEnqueue"
    \/ me.pc = "finish" /\ new.pc \in {"persist", "check"}
    \/ me.pc = "persist" /\ new.pc = "check"
    \/ CheckLedger(w) /\ me.pc = "check" /\ new.pc = "commit"

\* The run is over, or goes on with the same job and the same no_charge.
LEMMA WorkerShape ==
  ASSUME TypeOK, NEW w \in Workers, WorkerAction(w)
  PROVE  /\ \A v \in Workers \ {w} : worker'[v] = worker[v]
         /\ worker[w].pc # "idle"
         /\ \/ worker'[w] = Idle
            \/ /\ worker'[w].job = worker[w].job
               /\ worker'[w].noCharge = worker[w].noCharge
               /\ RunsOn(w, worker[w], worker'[w])
<1> DEFINE me == worker[w]
           Goal == \E s : Becomes(w, s) /\ (s = Idle \/ (s.job = me.job /\ s.noCharge = me.noCharge
                                              /\ RunsOn(w, me, s)))
<1>0. me \in WorkerState
  BY DEF TypeOK
<1>p. me.pc # "idle"
  BY DEF WorkerAction, RunStep, ClaimCommit, LoadReferences, StageCancelled,
     StageSucceeds, StageFails, RetryRead, RetryCommit, RetryEnqueue, FinishReload,
     PersistOutputs, CheckLedger, FinishCommit, FinishRejected, ClaimRead, NoCapacity,
     ObjectStoreFails, WorkerLost
<1> SUFFICES Goal
  BY <1>p, BecomesFact
<1>e. \A o : /\ Finishing(w, o).pc = "finish" /\ Finishing(w, o).job = me.job
             /\ Finishing(w, o).attempts = me.attempts
             /\ Finishing(w, o).noCharge = me.noCharge
  BY <1>0 DEF Finishing, WorkerState
<1>1. CASE ClaimCommit(w)
  <2> DEFINE n == me.attempts + 1
             s == [me EXCEPT !.pc = "load", !.attempts = n]
  <2>1. Becomes(w, s) /\ me.pc = "claim"
    BY <1>1 DEF ClaimCommit
  <2>2. s.pc = "load" /\ s.job = me.job /\ s.noCharge = me.noCharge /\ s.attempts = n
    <3> HIDE DEF n
    <3> QED
      BY <1>0 DEF WorkerState
  <2> HIDE DEF s
  <2> QED
    BY <1>1, <2>1, <2>2 DEF RunsOn
<1>2. CASE LoadReferences(w)
  <2> DEFINE s == [me EXCEPT !.pc = "stage", !.stage = 1]
  <2>1. Becomes(w, s) /\ me.pc = "load"
    BY <1>2 DEF LoadReferences
  <2>2. s.pc = "stage" /\ s.job = me.job /\ s.noCharge = me.noCharge /\ s.attempts = me.attempts
    BY <1>0 DEF WorkerState
  <2> HIDE DEF s
  <2> QED
    BY <2>1, <2>2 DEF RunsOn
<1>3. CASE StageCancelled(w)
  BY <1>e, <1>3 DEF StageCancelled, RunsOn
<1>4. CASE StageSucceeds(w)
  <2> DEFINE n == me.stage + 1
             s == [me EXCEPT !.stage = n]
  <2>1. me.pc = "stage" /\ (Becomes(w, s) \/ Becomes(w, Finishing(w, "completed")))
    BY <1>4 DEF StageSucceeds
  <2>2. s.pc = "stage" /\ s.job = me.job /\ s.noCharge = me.noCharge /\ s.attempts = me.attempts
    <3> HIDE DEF n
    <3> QED
      BY <1>0, <2>1 DEF WorkerState
  <2> HIDE DEF s
  <2> QED
    BY <1>e, <2>1, <2>2 DEF RunsOn
<1>5. ASSUME NEW transient \in BOOLEAN, StageFails(w, transient) PROVE Goal
  <2> DEFINE s == [me EXCEPT !.pc = "retryRead"]
  <2>1. /\ me.pc = "stage"
        /\ \/ Becomes(w, s) /\ me.attempts < MaxRetries
           \/ Becomes(w, Finishing(w, "failed"))
    BY <1>5 DEF StageFails, MayRetry
  <2>2. s.pc = "retryRead" /\ s.job = me.job /\ s.noCharge = me.noCharge /\ s.attempts = me.attempts
    BY <1>0 DEF WorkerState
  <2> HIDE DEF s
  <2> QED
    BY <1>e, <2>1, <2>2 DEF RunsOn
<1>6. CASE RetryRead(w)
  <2> DEFINE s == [me EXCEPT !.pc = "retryCommit", !.seen = status[me.job]]
  <2>1. Becomes(w, s) /\ me.pc = "retryRead"
    BY <1>6 DEF RetryRead
  <2>2. s.pc = "retryCommit" /\ s.job = me.job /\ s.noCharge = me.noCharge
    BY <1>0 DEF WorkerState
  <2> HIDE DEF s
  <2> QED
    BY <2>1, <2>2 DEF RunsOn
<1>7. CASE RetryCommit(w)
  <2> DEFINE s == [me EXCEPT !.pc = "retryEnqueue"]
  <2>1. Becomes(w, s) /\ me.pc = "retryCommit"
    BY <1>7 DEF RetryCommit
  <2>2. s.pc = "retryEnqueue" /\ s.job = me.job /\ s.noCharge = me.noCharge
    BY <1>0 DEF WorkerState
  <2> HIDE DEF s
  <2> QED
    BY <1>7, <2>1, <2>2 DEF RunsOn
<1>8. CASE FinishReload(w)
  <2> DEFINE p == IF me.outcome = "completed" THEN "persist" ELSE "check"
             s == [me EXCEPT !.pc = p, !.seen = status[me.job]]
  <2>1. Becomes(w, s) /\ me.pc = "finish" /\ p \in {"persist", "check"}
    BY <1>8 DEF FinishReload
  <2>2. s.pc = p /\ s.job = me.job /\ s.noCharge = me.noCharge
    <3> HIDE DEF p
    <3> QED
      BY <1>0 DEF WorkerState
  <2> HIDE DEF s, p
  <2> QED
    BY <2>1, <2>2 DEF RunsOn
<1>9. CASE PersistOutputs(w)
  <2> DEFINE s == [me EXCEPT !.pc = "check"]
  <2>1. Becomes(w, s) /\ me.pc = "persist"
    BY <1>9 DEF PersistOutputs
  <2>2. s.pc = "check" /\ s.job = me.job /\ s.noCharge = me.noCharge
    BY <1>0 DEF WorkerState
  <2> HIDE DEF s
  <2> QED
    BY <2>1, <2>2 DEF RunsOn
<1>10. CASE CheckLedger(w)
  <2> DEFINE post == /\ Charges(w)
                     /\ ~Posted(Owner[me.job], Posting(me.outcome), KeyOf[me.job])
             s == [me EXCEPT !.pc = "commit", !.post = post]
  <2>1. Becomes(w, s) /\ me.pc = "check"
    BY <1>10 DEF CheckLedger
  <2>2. s.pc = "commit" /\ s.job = me.job /\ s.noCharge = me.noCharge
    <3> HIDE DEF post
    <3> QED
      BY <1>0 DEF WorkerState
  <2> HIDE DEF s
  <2> QED
    BY <1>10, <2>1, <2>2 DEF RunsOn
<1>11. CASE ClaimRead(w)
  <2> DEFINE s == [me EXCEPT !.pc = "claim", !.seen = status[me.job],
                             !.attempts = attempts[me.job]]
  <2>1. me.pc = "fetched" /\ ((Becomes(w, s) /\ MayClaim(me.job)) \/ Becomes(w, Idle))
    BY <1>11 DEF ClaimRead
  <2>2. s.pc = "claim" /\ s.job = me.job /\ s.noCharge = me.noCharge /\ s.attempts = attempts[me.job]
    BY <1>0 DEF WorkerState
  <2> HIDE DEF s
  <2> QED
    BY <2>1, <2>2 DEF RunsOn
<1>12. CASE \/ RetryEnqueue(w) \/ FinishCommit(w) \/ FinishRejected(w) \/ NoCapacity(w)
            \/ ObjectStoreFails(w) \/ WorkerLost(w)
  <2>1. Becomes(w, Idle)
    BY <1>12 DEF RetryEnqueue, FinishCommit, FinishRejected, NoCapacity, ObjectStoreFails,
                 WorkerLost
  <2> QED
    BY <2>1
<1> QED
  BY <1>1, <1>2, <1>3, <1>4, <1>5, <1>6, <1>7, <1>8, <1>9, <1>10, <1>11, <1>12
     DEF WorkerAction, RunStep

LEMMA FetchShape ==
  ASSUME TypeOK, NEW w \in Workers, NEW j \in Jobs, Fetch(w, j)
  PROVE  /\ \A v \in Workers \ {w} : worker'[v] = worker[v]
         /\ worker'[w].job = j /\ worker'[w].pc = "fetched"
<1> DEFINE s == [Idle EXCEPT !.pc = "fetched", !.job = j, !.noCharge = j \in freeEntries]
<1>1. Becomes(w, s)
  BY FetchFrame
<1>2. s.pc = "fetched" /\ s.job = j
  BY DEF Idle
<1> HIDE DEF s
<1> QED
  BY <1>1, <1>2, BecomesFact

-----------------------------------------------------------------------------
(* Admission: a job row, its key and its hold.                             *)

\* What is worked on has a row: a cancel has read it, a claim too.
ActedOnHasRow ==
    /\ \A c \in Cancels : cancel[c].pc # "new" => HasRow(cancel[c].job)
    /\ \A w \in Workers : worker[w].pc \notin {"idle", "fetched"} => HasRow(worker[w].job)

\* A row appears in the commit of a submit or of a requeue, and never goes away.
LEMMA RowsFrame ==
  ASSUME TypeOK, ActedOnHasRow, [Next]_vars, NEW j \in Jobs
  PROVE  /\ HasRow(j) => status'[j] # "none"
         /\ status'[j] # "none"
              => \/ HasRow(j)
                 \/ \E r \in Requests : SubmitCommit(r) /\ j \in request[r].inserted
                 \/ \E c \in Clones : RequeueCommit(c) /\ c = j
         /\ \A r \in Requests : SubmitCommit(r) /\ j \in request[r].inserted
                                => status'[j] # "none"
<1> DEFINE New == \/ \E r \in Requests : SubmitCommit(r) /\ j \in request[r].inserted
                  \/ \E c \in Clones : RequeueCommit(c) /\ c = j
           Goal == (HasRow(j) => status'[j] # "none") /\ (status'[j] # "none" => HasRow(j) \/ New)
<1>0. status \in [Jobs -> JobStatus]
  BY DEF TypeOK
<1>1. ASSUME NEW r \in Requests, SubmitCommit(r), j \in request[r].inserted
      PROVE  status'[j] # "none"
  BY <1>0, <1>1 DEF SubmitCommit, HasRow
<1>2. ASSUME NEW r \in Requests, SubmitStep(r) PROVE Goal
  <2>1. CASE SubmitCommit(r)
    BY <1>0, <2>1 DEF SubmitCommit, HasRow
  <2>2. CASE ~SubmitCommit(r)
    <3>1. status' = status
      BY <1>2, <2>2 DEF SubmitStep, SubmitLookup, SubmitCheckHold, SubmitHold, SubmitInsert,
         SubmitAbort, rowVars
    <3> QED
      BY <3>1 DEF HasRow
  <2> QED
    BY <2>1, <2>2
<1>3. ASSUME NEW c \in Clones, RequeueStep(c) PROVE Goal
  <2>1. CASE RequeueCommit(c)
    BY <1>0, <2>1 DEF RequeueCommit, HasRow
  <2>2. CASE ~RequeueCommit(c)
    <3>1. status' = status
      BY <1>3, <2>2 DEF RequeueStep, RequeueOpen, RequeueAbort, rowVars
    <3> QED
      BY <3>1 DEF HasRow
  <2> QED
    BY <2>1, <2>2
<1>4. ASSUME NEW c \in Cancels, CancelAction(c) PROVE Goal
  <2>1. CASE CancelCommit(c)
    <3>1. HasRow(cancel[c].job)
      BY <2>1 DEF CancelCommit, ActedOnHasRow
    <3> QED
      BY <1>0, <2>1, <3>1 DEF CancelCommit, HasRow
  <2>2. CASE ~CancelCommit(c)
    <3>1. status' = status
      BY <1>4, <2>2 DEF CancelAction, CancelStep, CancelSignal, CancelCheck, CancelRejected,
         CancelAbort, CancelRead, rowVars
    <3> QED
      BY <3>1 DEF HasRow
  <2> QED
    BY <2>1, <2>2
<1>5. ASSUME NEW w \in Workers, WorkerAction(w) PROVE Goal
  <2>1. CASE ClaimCommit(w) \/ RetryCommit(w) \/ FinishCommit(w)
    <3>1. HasRow(worker[w].job)
      BY <2>1 DEF ClaimCommit, RetryCommit, FinishCommit, ActedOnHasRow
    <3>2. \E new \in JobStatus \ {"none"} :
            status' = [status EXCEPT ![worker[w].job] = Written(worker[w].job, worker[w].seen, new)]
      BY <2>1 DEF ClaimCommit, RetryCommit, FinishCommit, TypeOK, WorkerState, JobStatus,
         Terminal
    <3> QED
      BY <1>0, <3>1, <3>2 DEF HasRow, Written
  <2>2. CASE ~(ClaimCommit(w) \/ RetryCommit(w) \/ FinishCommit(w))
    <3>1. status' = status
      BY <1>5, <2>2 DEF WorkerAction, RunStep, LoadReferences, StageCancelled,
         StageSucceeds, StageFails, RetryRead, RetryEnqueue, FinishReload,
         PersistOutputs, CheckLedger, FinishRejected, ClaimRead, NoCapacity,
         ObjectStoreFails, WorkerLost, rowVars
    <3> QED
      BY <3>1 DEF HasRow
  <2> QED
    BY <2>1, <2>2
<1>6. ASSUME UNCHANGED status PROVE Goal
  BY <1>6 DEF HasRow
<1>7. Goal
  <2> HIDE DEF Goal
  <2>1. UNCHANGED vars => UNCHANGED status
    BY DEF vars, rowVars
  <2> QED
    BY <1>2, <1>3, <1>4, <1>5, <1>6, <2>1, NextSplit, FetchFrame, QueueFrame
<1> QED
  BY <1>1, <1>7

LEMMA ActedOnInit == Init => ActedOnHasRow
  BY DEF Init, Idle, ActedOnHasRow

LEMMA ActedOnNext ==
  ASSUME TypeOK, ActedOnHasRow, [Next]_vars
  PROVE  ActedOnHasRow'
<1>0. \A j \in Jobs : HasRow(j) => status'[j] # "none"
  BY RowsFrame
<1>1. ASSUME NEW c \in Cancels, cancel'[c].pc # "new" PROVE status'[cancel'[c].job] # "none"
  <2>1. CASE cancel'[c] = cancel[c]
    <3>1. cancel[c].job \in Jobs /\ HasRow(cancel[c].job)
      BY <1>1, <2>1 DEF ActedOnHasRow, TypeOK, InHand
    <3> QED
      BY <1>0, <2>1, <3>1
  <2>2. ASSUME NEW d \in Cancels, CancelAction(d), cancel'[c] # cancel[c]
        PROVE  status'[cancel'[c].job] # "none"
    <3>1. d = c
      BY <2>2, CancelShape
    <3>2. CASE cancel'[c].job = cancel[c].job /\ cancel[c].pc # "new"
      <4>1. cancel[c].job \in Jobs /\ HasRow(cancel[c].job)
        BY <3>2 DEF ActedOnHasRow, TypeOK, InHand
      <4> QED
        BY <1>0, <3>2, <4>1
    <3>3. CASE \E j \in Jobs : cancel'[c].job = j /\ status[j] \in {"queued", "running"}
      BY <1>0, <3>3 DEF HasRow
    <3> QED
      BY <2>2, <3>1, <3>2, <3>3, CancelShape
  <2> QED
    BY <2>1, <2>2, NextSplit, SubmitFrame, RequeueFrame, WorkerFrame, FetchFrame, QueueFrame
       DEF vars, apiVars
<1>2. ASSUME NEW w \in Workers, worker'[w].pc \notin {"idle", "fetched"}
      PROVE  status'[worker'[w].job] # "none"
  <2>1. CASE worker'[w] = worker[w]
    <3>1. worker[w].job \in Jobs /\ HasRow(worker[w].job)
      BY <1>2, <2>1 DEF ActedOnHasRow, TypeOK, InHand
    <3> QED
      BY <1>0, <2>1, <3>1
  <2>2. ASSUME NEW v \in Workers, WorkerAction(v), worker'[w] # worker[w]
        PROVE  status'[worker'[w].job] # "none"
    <3>1. v = w
      BY <2>2, WorkerShape
    <3>2. worker'[w].job = worker[w].job /\ RunsOn(w, worker[w], worker'[w])
      BY <1>2, <2>2, <3>1, WorkerShape, IdleType
    <3>3. worker[w].job \in Jobs
      BY <2>2, <3>1, WorkerShape DEF TypeOK, InHand
    <3>4. HasRow(worker[w].job)
      BY <3>2 DEF RunsOn, MayClaim, HasRow, ActedOnHasRow
    <3> QED
      BY <1>0, <3>2, <3>3, <3>4
  <2>3. ASSUME NEW v \in Workers, NEW j \in Jobs, Fetch(v, j), worker'[w] # worker[w]
        PROVE  FALSE
    BY <1>2, <2>3, FetchShape
  <2> QED
    BY <2>1, <2>2, <2>3, NextSplit, SubmitFrame, RequeueFrame, CancelFrame, QueueFrame DEF vars
<1> QED
  BY <1>1, <1>2 DEF ActedOnHasRow, HasRow
=============================================================================
