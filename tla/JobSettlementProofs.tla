------------------------- MODULE JobSettlementProofs -------------------------
(***************************************************************************)
(* Proofs about what becomes of a job and of its hold, for every value of  *)
(* the constants of JobPipeline.  None of the properties is inductive:     *)
(*                                                                         *)
(*   - how a job ends: a transaction asks without a lock whether its       *)
(*     ledger row is there, and posts none if it is, so the invariant says *)
(*     that what it found is still there when it commits (FoundIsPosted);  *)
(*   - admission: a request is at most as far as its rows and its holds    *)
(*     say, and a key is minted once, so at most one job has it;           *)
(*   - delivery: a job is in one place at a time, on the queue, scheduled  *)
(*     or with a worker, and has been claimed once per attempt;            *)
(*   - a clone's flag: its entry has it whenever there is one, and its run  *)
(*     as long as it lasts, so that no such run commits with a debit;      *)
(*   - the hold: what is outstanding shrinks by the cost of the job that a *)
(*     commit settles, and what is held by no more than that.              *)
(***************************************************************************)
EXTENDS JobPipelineProofs

SettlementInv == CompletedIsCharged /\ UnfinishedIsRefunded /\ FoundIsPosted

-----------------------------------------------------------------------------
(* Who is about to commit, and since when.                                 *)

\* A worker gets to its commit by the look at the ledger only.
LEMMA CommitAfterCheck ==
  ASSUME TypeOK, NEW w \in Workers, WorkerAction(w), worker'[w].pc = "commit"
  PROVE  CheckLedger(w)
<1>0. worker[w] \in WorkerState
  BY DEF TypeOK
<1>1. SUFFICES ASSUME ~CheckLedger(w) PROVE \E s : Becomes(w, s) /\ s.pc # "commit"
  BY BecomesFact
<1>2. \A o : Finishing(w, o).pc = "finish"
  BY <1>0 DEF Finishing, WorkerState
<1>3. CASE ClaimCommit(w)
  <2> DEFINE n == worker[w].attempts + 1
             s == [worker[w] EXCEPT !.pc = "load", !.attempts = n]
  <2>1. Becomes(w, s)
    BY <1>3 DEF ClaimCommit
  <2>2. s.pc = "load"
    <3> HIDE DEF n
    <3> QED
      BY <1>0 DEF WorkerState
  <2> QED
    BY <2>1, <2>2
<1>4. CASE LoadReferences(w)
  <2> DEFINE s == [worker[w] EXCEPT !.pc = "stage", !.stage = 1]
  <2>1. Becomes(w, s) /\ s.pc = "stage"
    BY <1>0, <1>4 DEF LoadReferences, WorkerState
  <2> QED
    BY <2>1
<1>5. CASE StageCancelled(w)
  BY <1>2, <1>5 DEF StageCancelled
<1>6. CASE StageSucceeds(w)
  <2> DEFINE n == worker[w].stage + 1
             s == [worker[w] EXCEPT !.stage = n]
  <2>1. worker[w].pc = "stage" /\ (Becomes(w, s) \/ Becomes(w, Finishing(w, "completed")))
    BY <1>6 DEF StageSucceeds
  <2>2. s.pc = "stage"
    <3> HIDE DEF n
    <3> QED
      BY <1>0, <2>1 DEF WorkerState
  <2> QED
    BY <1>2, <2>1, <2>2
<1>7. ASSUME NEW transient \in BOOLEAN, StageFails(w, transient)
      PROVE  \E s : Becomes(w, s) /\ s.pc # "commit"
  <2> DEFINE s == [worker[w] EXCEPT !.pc = "retryRead"]
  <2>1. s.pc = "retryRead"
    BY <1>0 DEF WorkerState
  <2>2. Becomes(w, s) \/ Becomes(w, Finishing(w, "failed"))
    BY <1>7 DEF StageFails
  <2> QED
    BY <1>2, <2>1, <2>2
<1>8. CASE RetryRead(w)
  <2> DEFINE s == [worker[w] EXCEPT !.pc = "retryCommit", !.seen = status[worker[w].job]]
  <2>1. Becomes(w, s) /\ s.pc = "retryCommit"
    BY <1>0, <1>8 DEF RetryRead, WorkerState
  <2> QED
    BY <2>1
<1>9. CASE RetryCommit(w)
  <2> DEFINE s == [worker[w] EXCEPT !.pc = "retryEnqueue"]
  <2>1. Becomes(w, s) /\ s.pc = "retryEnqueue"
    BY <1>0, <1>9 DEF RetryCommit, WorkerState
  <2> QED
    BY <2>1
<1>10. CASE FinishReload(w)
  <2> DEFINE p == IF worker[w].outcome = "completed" THEN "persist" ELSE "check"
             s == [worker[w] EXCEPT !.pc = p, !.seen = status[worker[w].job]]
  <2>1. Becomes(w, s) /\ p # "commit"
    BY <1>10 DEF FinishReload
  <2>2. s.pc = p
    <3> HIDE DEF p
    <3> QED
      BY <1>0 DEF WorkerState
  <2> HIDE DEF p, s
  <2> QED
    BY <2>1, <2>2
<1>11. CASE PersistOutputs(w)
  <2> DEFINE s == [worker[w] EXCEPT !.pc = "check"]
  <2>1. Becomes(w, s) /\ s.pc = "check"
    BY <1>0, <1>11 DEF PersistOutputs, WorkerState
  <2> QED
    BY <2>1
<1>12. CASE ClaimRead(w)
  <2> DEFINE s == [worker[w] EXCEPT !.pc = "claim", !.seen = status[worker[w].job],
                                    !.attempts = attempts[worker[w].job]]
  <2>1. s.pc = "claim"
    BY <1>0 DEF WorkerState
  <2>2. Becomes(w, s) \/ Becomes(w, Idle)
    BY <1>12 DEF ClaimRead
  <2> QED
    BY <2>1, <2>2, IdleType
<1>13. CASE \/ RetryEnqueue(w) \/ FinishCommit(w) \/ FinishRejected(w) \/ NoCapacity(w)
            \/ ObjectStoreFails(w) \/ WorkerLost(w)
  <2>1. Becomes(w, Idle)
    BY <1>13 DEF RetryEnqueue, FinishCommit, FinishRejected, NoCapacity, ObjectStoreFails,
                 WorkerLost
  <2> QED
    BY <2>1, IdleType
<1> QED
  BY <1>1, <1>3, <1>4, <1>5, <1>6, <1>7, <1>8, <1>9, <1>10, <1>11, <1>12, <1>13
     DEF WorkerAction, RunStep

\* A worker in its commit was in the same commit before, or has just looked.
LEMMA WorkerCommits ==
  ASSUME TypeOK, [Next]_vars, NEW w \in Workers, worker'[w].pc = "commit"
  PROVE  worker'[w] = worker[w] \/ CheckLedger(w)
<1>1. ASSUME NEW v \in Workers, WorkerAction(v) PROVE worker'[w] = worker[w] \/ CheckLedger(w)
  <2>1. CASE v = w
    BY <1>1, <2>1, CommitAfterCheck
  <2>2. CASE v # w
    <3>1. \E s : Becomes(v, s)
      BY <1>1 DEF WorkerAction, RunStep, ClaimCommit, LoadReferences, StageCancelled,
         StageSucceeds, StageFails, RetryRead, RetryCommit, RetryEnqueue, FinishReload,
         PersistOutputs, CheckLedger, FinishCommit, FinishRejected, ClaimRead, NoCapacity,
         ObjectStoreFails, WorkerLost
    <3> QED
      BY <2>2, <3>1, BecomesFact
  <2> QED
    BY <2>1, <2>2
<1>2. ASSUME NEW v \in Workers, NEW j \in Jobs, Fetch(v, j)
      PROVE  worker'[w] = worker[w]
  <2> DEFINE s == [Idle EXCEPT !.pc = "fetched", !.job = j, !.noCharge = j \in freeEntries]
  <2>1. Becomes(v, s)
    BY <1>2, FetchFrame
  <2>2. s.pc = "fetched"
    BY DEF Idle
  <2> HIDE DEF s
  <2> QED
    BY <2>1, <2>2, BecomesFact
<1>3. CASE UNCHANGED worker
  BY <1>3
<1> QED
  BY <1>1, <1>2, <1>3, NextSplit, SubmitFrame, RequeueFrame, CancelFrame, QueueFrame DEF vars

\* The same of a cancel call.
LEMMA CancelCommits ==
  ASSUME TypeOK, [Next]_vars, NEW c \in Cancels, cancel'[c].pc = "commit"
  PROVE  cancel'[c] = cancel[c] \/ CancelCheck(c)
<1> DEFINE Goal == cancel'[c] = cancel[c] \/ CancelCheck(c)
<1>0. cancel \in [Cancels -> CancelState] /\ cancel[c] \in CancelState
  BY DEF TypeOK
<1>1. ASSUME NEW d \in Cancels, CancelAction(d) PROVE Goal
  <2>1. PICK s : Answers(d, s)
    BY <1>1 DEF CancelAction, CancelStep, CancelSignal, CancelCheck, CancelCommit,
       CancelRejected, CancelAbort, CancelRead
  <2>2. CASE d # c
    BY <1>0, <2>1, <2>2 DEF Answers
  <2>3. CASE d = c
    <3>1. CASE \E j \in Jobs : CancelRead(c, j)
      <4>1. PICK j \in Jobs : CancelRead(c, j)
        BY <3>1
      <4>2. cancel'[c] = [cancel[c] EXCEPT !.pc = "signal", !.job = j]
        BY <1>0, <4>1 DEF CancelRead, Answers
      <4>3. cancel'[c].pc = "signal"
        BY <1>0, <4>2 DEF CancelState
      <4> QED
        BY <4>3
    <3>2. CASE CancelSignal(c)
      BY <1>0, <3>2 DEF CancelSignal, Answers, CancelState
    <3>3. CASE CancelCommit(c) \/ CancelRejected(c) \/ CancelAbort(c)
      <4>1. cancel'[c] = [cancel[c] EXCEPT !.pc = "done"]
        BY <1>0, <3>3 DEF CancelCommit, CancelRejected, CancelAbort, Answers
      <4> QED
        BY <1>0, <4>1 DEF CancelState
    <3> QED
      BY <1>1, <2>3, <3>1, <3>2, <3>3 DEF CancelAction, CancelStep
  <2> QED
    BY <2>2, <2>3
<1>2. CASE UNCHANGED cancel
  BY <1>2
<1> QED
  BY <1>1, <1>2, NextSplit, SubmitFrame, RequeueFrame, WorkerFrame, FetchFrame, QueueFrame
     DEF vars, apiVars

-----------------------------------------------------------------------------
LEMMA FoundIsPostedNext ==
  ASSUME TypeOK, FoundIsPosted, [Next]_vars
  PROVE  FoundIsPosted'
<1>1. ASSUME NEW w \in Workers, NEW j \in NewJobs, NEW o, worker'[w].pc = "commit",
             ~worker'[w].post, worker'[w].job = j, worker'[w].outcome = o
      PROVE  Posted(Owner[j], Posting(o), KeyOf[j])'
  <2>1. SUFFICES Posted(Owner[j], Posting(o), KeyOf[j])
    BY PostedStays
  <2>2. CASE worker'[w] = worker[w]
    BY <1>1, <2>2 DEF FoundIsPosted
  <2>3. CASE CheckLedger(w)
    <3> DEFINE me == worker[w]
               post == /\ Charges(w)
                       /\ ~Posted(Owner[me.job], Posting(me.outcome), KeyOf[me.job])
               s == [me EXCEPT !.pc = "commit", !.post = post]
    <3>1. worker'[w] = s
      BY <2>3, BecomesFact DEF CheckLedger
    <3>2. s.job = me.job /\ s.outcome = me.outcome /\ s.post = post
      <4>1. me \in WorkerState
        BY DEF TypeOK
      <4> HIDE DEF post
      <4> QED
        BY <4>1 DEF WorkerState
    <3>3. ~post /\ me.job = j /\ me.outcome = o
      <4> HIDE DEF s, post
      <4> QED
        BY <1>1, <3>1, <3>2
    <3>4. Charges(w)
      BY <3>3 DEF Charges, NewJobs, TypeOK, InHand
    <3> QED
      BY <3>3, <3>4
  <2> QED
    BY <1>1, <2>2, <2>3, WorkerCommits
<1>2. ASSUME NEW c \in Cancels, NEW j, cancel'[c].pc = "commit", ~cancel'[c].post,
             cancel'[c].job = j
      PROVE  Posted(Owner[j], "refund", KeyOf[j])'
  <2>1. SUFFICES Posted(Owner[j], "refund", KeyOf[j])
    BY PostedStays
  <2>2. CASE cancel'[c] = cancel[c]
    BY <1>2, <2>2 DEF FoundIsPosted, Refunded
  <2>3. CASE CancelCheck(c)
    <3> DEFINE me == cancel[c]
               post == ~Posted(Owner[me.job], "refund", KeyOf[me.job])
               s == [me EXCEPT !.pc = "commit", !.post = post]
    <3>1. me \in CancelState /\ cancel'[c] = s
      BY <2>3 DEF CancelCheck, Answers, TypeOK
    <3>2. s.job = me.job /\ s.post = post
      <4> HIDE DEF post
      <4> QED
        BY <3>1 DEF CancelState
    <3>3. ~post /\ me.job = j
      <4> HIDE DEF s, post
      <4> QED
        BY <1>2, <3>1, <3>2
    <3> QED
      BY <3>3
  <2> QED
    BY <1>2, <2>2, <2>3, CancelCommits
<1> QED
  BY <1>1, <1>2 DEF FoundIsPosted, Refunded, Posted

\* The commit of a run that found no row of its kind, or posts one.
LEMMA FinishSettles ==
  ASSUME TypeOK, SettlementInv, [Next]_vars, NEW w \in Workers, FinishCommit(w),
         NEW j \in NewJobs, worker[w].job = j, NEW o, worker[w].outcome = o
  PROVE  Posted(Owner[j], Posting(o), KeyOf[j])'
<1>1. worker[w].pc = "commit"
  BY DEF FinishCommit
<1>2. CASE ~worker[w].post
  <2>1. Posted(Owner[j], Posting(o), KeyOf[j])
    BY <1>1, <1>2 DEF SettlementInv, FoundIsPosted
  <2> QED
    BY <2>1, PostedStays
<1>3. CASE worker[w].post /\ o = "completed"
  <2>1. Row(Owner[j], "debit", KeyOf[j], -Cost[j]) \in txns'
    BY <1>3, FinishPosts DEF Debit
  <2> QED
    BY <1>3, <2>1 DEF Posted, Row, Posting
<1>4. CASE worker[w].post /\ o # "completed"
  <2>1. Row(Owner[j], "refund", KeyOf[j], 0) \in txns'
    BY <1>4, FinishPosts DEF RefundHold
  <2> QED
    BY <1>4, <2>1 DEF Posted, Row, Posting
<1> QED
  BY <1>2, <1>3, <1>4

LEMMA CancelSettles ==
  ASSUME TypeOK, SettlementInv, [Next]_vars, NEW c \in Cancels, CancelCommit(c),
         NEW j, cancel[c].job = j
  PROVE  Posted(Owner[j], "refund", KeyOf[j])'
<1>1. cancel[c].pc = "commit"
  BY DEF CancelCommit
<1>2. CASE ~cancel[c].post
  <2>1. Posted(Owner[j], "refund", KeyOf[j])
    BY <1>1, <1>2 DEF SettlementInv, FoundIsPosted, Refunded
  <2> QED
    BY <2>1, PostedStays
<1>3. CASE cancel[c].post
  <2>1. Row(Owner[j], "refund", KeyOf[j], 0) \in txns'
    BY <1>3, CancelPosts DEF RefundHold
  <2> QED
    BY <2>1 DEF Posted, Row
<1> QED
  BY <1>2, <1>3

LEMMA SettlementInit == Init => SettlementInv
  BY DEF Init, SettlementInv, CompletedIsCharged, UnfinishedIsRefunded, FoundIsPosted, Idle,
     NewJobs

LEMMA SettlementNext ==
  ASSUME TypeOK, SettlementInv, [Next]_vars
  PROVE  SettlementInv'
<1>1. FoundIsPosted'
  BY FoundIsPostedNext DEF SettlementInv
<1>2. ASSUME NEW j \in NewJobs
      PROVE  /\ status'[j] = "completed" => Debited(j)'
             /\ status'[j] \in {"failed", "cancelled"} => Refunded(j)'
  <2>0. j \in Jobs
    BY DEF NewJobs
  <2>1. CASE status'[j] = status[j]
    BY <2>1, PostedStays
       DEF SettlementInv, CompletedIsCharged, UnfinishedIsRefunded, Debited, Refunded
  <2>2. CASE status'[j] \in {"queued", "running"}
    BY <2>2
  <2>3. ASSUME NEW c \in Cancels, CancelCommit(c), cancel[c].job = j, status'[j] = "cancelled"
        PROVE  Refunded(j)'
    BY <2>3, CancelSettles DEF Refunded
  <2>4. ASSUME NEW w \in Workers, FinishCommit(w), worker[w].job = j,
               status'[j] = worker[w].outcome
        PROVE  /\ status'[j] = "completed" => Debited(j)'
               /\ status'[j] \in {"failed", "cancelled"} => Refunded(j)'
    BY <2>4, FinishSettles DEF Posting, Debited, Refunded
  <2> QED
    BY <2>0, <2>1, <2>2, <2>3, <2>4, StatusFrame
<1> QED
  BY <1>1, <1>2 DEF SettlementInv, CompletedIsCharged, UnfinishedIsRefunded

\* Whatever is retried, redelivered, cancelled or lost on the way, a job that is
\* reported completed has its debit in the ledger.
THEOREM CompletedIsChargedCorrect == Spec => []CompletedIsCharged
<1>1. SettlementInv => CompletedIsCharged
  BY DEF SettlementInv
<1> QED
  BY <1>1, SettlementInit, SettlementNext, TypeCorrect, PTL DEF Spec

\* ... and one that is reported failed or cancelled has its refund.
THEOREM UnfinishedIsRefundedCorrect == Spec => []UnfinishedIsRefunded
<1>1. SettlementInv => UnfinishedIsRefunded
  BY DEF SettlementInv
<1> QED
  BY <1>1, SettlementInit, SettlementNext, TypeCorrect, PTL DEF Spec

-----------------------------------------------------------------------------
(* Admission: which rows and which reservations a request has made by the  *)
(* time it is at an item, and which of them it can still take back.        *)

\* The job ids that request r mints, and those that it has not come past yet.
Minted(r) == {Plan[r][n] : n \in DOMAIN Plan[r]}
Ahead(r) == {Plan[r][n] : n \in {m \in DOMAIN Plan[r] : /\ request[r].pc \in Working
                                                      /\ m >= request[r].item}}

\* What is still to be inserted, or inserted and not committed, has no row.
PendingHasNoRow ==
    /\ \A r \in Requests : \A j \in Ahead(r) : ~HasRow(j)
    /\ \A r \in Requests : \A j \in request[r].inserted : ~RowWithKey(KeyOf[j])
    /\ \A c \in Clones : clone[c] # "closed" => ~HasRow(c)

\* What an open submit has flushed: ids of its own that it has come past, each with its
\* hold, under keys that no other transaction has flushed.
FlushedOwn(r) ==
    LET q == request[r]
    IN  /\ q.inserted \subseteq Minted(r) \ Ahead(r)
        /\ q.pc \in {"checkHold", "lockHold", "insert"} => ~OwnKey(q.inserted, KeyOf[Item(r)])
        /\ q.pc # "insert" => q.posted = q.inserted
        /\ q.pc = "insert" => \/ q.posted = q.inserted \cup {Item(r)}
                              \/ q.posted = q.inserted /\ RowWithKey(KeyOf[Item(r)])

Flushed ==
    /\ \A r \in Requests : FlushedOwn(r)
    /\ \A r, s \in Requests : \A i \in request[r].inserted, j \in request[s].inserted :
         KeyOf[i] = KeyOf[j] => i = j

AdmissionInv ==
    /\ ActedOnHasRow /\ PendingHasNoRow /\ Flushed
    /\ OneJobPerKey /\ AdmittedIffHeld

LEMMA MintedFact ==
  ASSUME NEW r \in Requests, NEW j \in Minted(r)
  PROVE  /\ j \in NewJobs /\ j \in Jobs /\ j \notin Clones /\ Owner[j] = Requester[r]
         /\ \A s \in Requests : j \in Minted(s) => s = r
<1>1. PICK n \in DOMAIN Plan[r] : j = Plan[r][n]
  BY DEF Minted
<1>2. j \in NewJobs
  BY <1>1, PlanAssumption
<1>3. \A s \in Requests : j \in Minted(s) => s = r
  BY <1>1, PlanAssumption DEF Minted
<1>4. Owner[j] = Requester[r]
  BY <1>1, PlanAssumption
<1> QED
  BY <1>2, <1>3, <1>4 DEF NewJobs

\* The item in hand is the next of those ahead.
LEMMA ItemAhead ==
  ASSUME TypeOK, NEW r \in Requests, request[r].pc \in Working
  PROVE  Item(r) \in Ahead(r) /\ Item(r) \in Minted(r)
<1>1. request[r].item \in DOMAIN Plan[r] /\ request[r].item \in Nat
  BY DEF TypeOK, InHand, Working, RequestState
<1> QED
  BY <1>1 DEF Item, Ahead, Minted

\* A request only ever comes past its items.
LEMMA AheadShrinks ==
  ASSUME TypeOK, NEW r \in Requests, NEW q \in Requests, SubmitStep(q)
  PROVE  /\ Ahead(r)' \subseteq Ahead(r)
         /\ r = q /\ NextItem(r) /\ request[r].pc \in Working => Item(r) \notin Ahead(r)'
<1>0. request[r].item \in Nat /\ Plan[r] \in Seq(NewJobs)
  BY PlanAssumption DEF TypeOK, RequestState
<1>1. CASE r # q
  <2>1. request'[r] = request[r]
    BY <1>1, SubmitShape
  <2> QED
    BY <1>1, <2>1 DEF Ahead
<1>2. CASE r = q
  <2>1. \/ request'[r].item = request[r].item /\ request[r].pc \in Working
        \/ NextItem(r) /\ request[r].pc \in Working
        \/ request'[r].pc \in {"done", "aborted"}
    BY <1>2, SubmitShape DEF Working
  <2>2. CASE request'[r].item = request[r].item /\ request[r].pc \in Working
    <3>1. ~NextItem(r)
      BY <1>0, <2>2 DEF NextItem
    <3> QED
      BY <2>2, <3>1 DEF Ahead
  <2>3. CASE NextItem(r) /\ request[r].pc \in Working
    <3>1. request'[r].item = request[r].item + 1
      BY <2>3 DEF NextItem
    <3>2. Ahead(r)' \subseteq Ahead(r)
      BY <1>0, <2>3, <3>1 DEF Ahead
    <3>3. Item(r) \notin Ahead(r)'
      <4> SUFFICES ASSUME Item(r) \in Ahead(r)' PROVE FALSE
        OBVIOUS
      <4>1. PICK n \in DOMAIN Plan[r] : n >= request[r].item + 1 /\ Item(r) = Plan[r][n]
        BY <3>1 DEF Ahead
      <4>2. request[r].item \in DOMAIN Plan[r]
        BY <2>3 DEF TypeOK, InHand, Working
      <4>3. n = request[r].item
        BY <4>1, <4>2, PlanAssumption DEF Item
      <4> QED
        BY <1>0, <4>1, <4>3
    <3> QED
      BY <3>2, <3>3
  <2>4. CASE request'[r].pc \in {"done", "aborted"}
    <3>1. Ahead(r)' = {} /\ ~NextItem(r)
      BY <2>4 DEF Ahead, NextItem, Working
    <3> QED
      BY <3>1
  <2> QED
    BY <2>1, <2>2, <2>3, <2>4
<1> QED
  BY <1>1, <1>2

\* Only a submit moves the local state of a request.
LEMMA RequestFrame ==
  ASSUME [Next]_vars
  PROVE  UNCHANGED request \/ \E r \in Requests : SubmitStep(r)
<1>1. UNCHANGED vars => UNCHANGED request
  BY DEF vars, apiVars
<1> QED
  BY <1>1, NextSplit, RequeueFrame, CancelFrame, WorkerFrame, FetchFrame, QueueFrame

\* The step of a row that appears, and what it was before.
LEMMA NewRow ==
  ASSUME TypeOK, AdmissionInv, [Next]_vars, NEW j \in Jobs, ~HasRow(j), status'[j] # "none"
  PROVE  \/ \E r \in Requests : /\ SubmitCommit(r) /\ j \in request[r].inserted
                                /\ j \in Minted(r) /\ j \notin Ahead(r)
         \/ j \in Clones /\ RequeueCommit(j)
  BY RowsFrame DEF AdmissionInv, Flushed, FlushedOwn

LEMMA RowWithKeyStays ==
  ASSUME TypeOK, AdmissionInv, [Next]_vars, NEW k, RowWithKey(k)
  PROVE  RowWithKey(k)'
<1>1. PICK j \in Jobs : HasRow(j) /\ KeyOf[j] = k
  BY DEF RowWithKey, HasRow
<1>2. status'[j] # "none"
  BY <1>1, RowsFrame DEF AdmissionInv
<1> QED
  BY <1>1, <1>2 DEF RowWithKey

LEMMA PendingNext ==
  ASSUME TypeOK, AdmissionInv, [Next]_vars
  PROVE  PendingHasNoRow'
<1>1. ASSUME NEW r \in Requests, NEW j \in Ahead(r)'
      PROVE  status'[j] = "none"
  <2>1. j \in Ahead(r)
    <3>1. UNCHANGED request => Ahead(r)' = Ahead(r)
      BY DEF Ahead
    <3> QED
      BY <1>1, <3>1, AheadShrinks, RequestFrame
  <2>2. j \in Minted(r) /\ ~HasRow(j)
    BY <2>1 DEF Ahead, Minted, AdmissionInv, PendingHasNoRow
  <2>3. j \in Jobs /\ j \notin Clones
    BY <2>2, MintedFact
  <2> QED
    BY <2>1, <2>2, <2>3, NewRow, MintedFact
<1>2. ASSUME NEW r \in Requests, NEW j \in request'[r].inserted, NEW i \in Jobs,
             status'[i] # "none", KeyOf[i] = KeyOf[j]
      PROVE  FALSE
  <2>1. /\ ~RowWithKey(KeyOf[j])
        /\ \A s \in Requests \ {r} : ~OwnKey(request[s].inserted, KeyOf[j])
        /\ j \in Minted(r)
        /\ ~SubmitCommit(r)
    <3>1. CASE j \in request[r].inserted
      <4>1. /\ ~RowWithKey(KeyOf[j]) /\ j \in Minted(r)
        BY <3>1 DEF AdmissionInv, PendingHasNoRow, Flushed, FlushedOwn
      <4>2. ASSUME NEW s \in Requests \ {r}, OwnKey(request[s].inserted, KeyOf[j]) PROVE FALSE
        <5>1. j \in request[s].inserted
          BY <3>1, <4>2 DEF OwnKey, AdmissionInv, Flushed
        <5>2. j \in Minted(s)
          BY <5>1 DEF AdmissionInv, Flushed, FlushedOwn
        <5> QED
          BY <4>1, <5>2, MintedFact
      <4>3. ~SubmitCommit(r)
        <5>1. SubmitCommit(r) => request'[r].inserted = {}
          <6> SUFFICES ASSUME SubmitCommit(r) PROVE request'[r].inserted = {}
            OBVIOUS
          <6>1. Continues(r, TransactionOver(r, "done"))
            BY DEF SubmitCommit
          <6> QED
            BY <6>1, ContinuesFact, TransactionOverType
        <5> QED
          BY <1>2, <5>1
      <4> QED
        BY <4>1, <4>2, <4>3
    <3>2. CASE j \notin request[r].inserted
      <4>1. PICK q \in Requests : SubmitStep(q)
        BY <1>2, <3>2, RequestFrame
      <4>2. q = r
        BY <1>2, <3>2, <4>1, SubmitShape
      <4>3. /\ SubmitInsert(r) /\ request[r].pc = "insert"
            /\ request'[r].inserted = request[r].inserted \cup {Item(r)}
        BY <1>2, <3>2, <4>1, <4>2, SubmitShape DEF SameFlushed
      <4>4. j = Item(r) /\ request[r].pc \in Working
        BY <1>2, <3>2, <4>3 DEF Working
      <4>5. ~SubmitCommit(r)
        BY <4>3 DEF SubmitCommit
      <4> QED
        BY <4>3, <4>4, <4>5, ItemAhead DEF SubmitInsert
    <3> QED
      BY <3>1, <3>2
  <2>2. ~HasRow(i)
    BY <1>2, <2>1 DEF RowWithKey, HasRow
  <2>3. CASE \E s \in Requests : SubmitCommit(s) /\ i \in request[s].inserted
    BY <1>2, <2>1, <2>3 DEF OwnKey
  <2>4. CASE i \in Clones
    <3>1. j \in Jobs /\ j \notin Clones
      BY <2>1, MintedFact
    <3> QED
      BY <1>2, <2>4, <3>1, CloneAssumption
  <2> QED
    BY <1>2, <2>2, <2>3, <2>4, NewRow
<1>3. ASSUME NEW c \in Clones, clone'[c] # "closed" PROVE status'[c] = "none"
  <2>1. c \in Jobs
    BY JobAssumption
  <2>2. \A r \in Requests : c \notin Minted(r)
    BY MintedFact
  <2>3. ~RequeueCommit(c)
    BY <1>3 DEF RequeueCommit, TypeOK
  <2>4. clone[c] # "closed"
    <3>1. CASE UNCHANGED clone
      BY <1>3, <3>1
    <3>2. ASSUME NEW d \in Clones, RequeueStep(d) PROVE clone[c] # "closed"
      <4>1. clone[d] \in {"new", "open"} /\ \E x : clone' = [clone EXCEPT ![d] = x]
        BY <3>2 DEF RequeueStep, RequeueOpen, RequeueCommit, RequeueAbort
      <4> QED
        BY <1>3, <4>1 DEF TypeOK
    <3>3. UNCHANGED vars => UNCHANGED clone
      BY DEF vars, apiVars
    <3> QED
      BY <3>1, <3>2, <3>3, NextSplit, SubmitFrame, CancelFrame, WorkerFrame, FetchFrame, QueueFrame
  <2>5. ~HasRow(c)
    BY <2>4 DEF AdmissionInv, PendingHasNoRow
  <2> QED
    BY <2>1, <2>2, <2>3, <2>5, NewRow
<1> QED
  BY <1>1, <1>2, <1>3 DEF PendingHasNoRow, RowWithKey, HasRow

\* A hold that credits.hold finds is that of a job with a row.
LEMMA HoldFoundHasRow ==
  ASSUME TypeOK, AdmissionInv, NEW r \in Requests, request[r].pc = "checkHold", HoldFound(r)
  PROVE  RowWithKey(KeyOf[Item(r)])
<1>1. ~OwnKey(request[r].posted, KeyOf[Item(r)])
  BY DEF AdmissionInv, Flushed, FlushedOwn
<1>2. PICK t \in txns : t.type = "hold" /\ t.key = KeyOf[Item(r)]
  BY <1>1 DEF HoldFound, Posted
<1> QED
  BY <1>2 DEF AdmissionInv, AdmittedIffHeld, RowWithKey, HasRow, NewJobs

LEMMA FlushedOwnNext ==
  ASSUME TypeOK, AdmissionInv, [Next]_vars, NEW r \in Requests
  PROVE  FlushedOwn(r)'
<1> DEFINE q == request[r]
           p == request'[r]
<1>0. FlushedOwn(r) /\ \A k : RowWithKey(k) => RowWithKey(k)'
  BY RowWithKeyStays DEF AdmissionInv, Flushed
<1>1. CASE p = q
  <2>1. Item(r)' = Item(r) /\ Ahead(r)' = Ahead(r)
    BY <1>1 DEF Item, Ahead
  <2>2. RowWithKey(KeyOf[Item(r)]) => RowWithKey(KeyOf[Item(r)])'
    BY <1>0, <2>1 DEF RowWithKey
  <2> QED
    BY <1>0, <1>1, <2>1, <2>2 DEF FlushedOwn, Minted, OwnKey
<1>2. CASE p # q
  <2>1. SubmitStep(r)
    BY <1>2, RequestFrame, SubmitShape
  <2>2. Ahead(r)' \subseteq Ahead(r)
        /\ (NextItem(r) /\ q.pc \in Working => Item(r) \notin Ahead(r)')
    BY <2>1, AheadShrinks
  <2>3. CASE q.pc = "lookup" /\ SameFlushed(r) /\ NextItem(r)
    BY <1>0, <2>2, <2>3 DEF FlushedOwn, Minted, SameFlushed, NextItem
  <2>4. CASE /\ q.pc = "lookup" /\ SameFlushed(r)
             /\ p.pc = "checkHold" /\ p.item = q.item
             /\ ~OwnKey(q.inserted, KeyOf[Item(r)])
    <3>1. Item(r)' = Item(r)
      BY <2>4 DEF Item
    <3> QED
      BY <1>0, <2>2, <2>4, <3>1 DEF FlushedOwn, Minted, SameFlushed, OwnKey
  <2>5. CASE /\ q.pc = "checkHold" /\ SameFlushed(r) /\ p.item = q.item
             /\ p.pc = IF HoldFound(r) THEN "insert" ELSE "lockHold"
    <3>1. Item(r)' = Item(r)
      BY <2>5 DEF Item
    <3>2. p.pc = "insert" => RowWithKey(KeyOf[Item(r)])'
      <4>1. HoldFound(r) => RowWithKey(KeyOf[Item(r)])
        BY <2>5, HoldFoundHasRow
      <4> QED
        BY <1>0, <2>5, <3>1, <4>1 DEF RowWithKey
    <3> QED
      BY <1>0, <2>2, <2>5, <3>1, <3>2 DEF FlushedOwn, Minted, SameFlushed, OwnKey
  <2>6. CASE /\ q.pc = "lockHold" /\ p.pc = "insert" /\ p.item = q.item
             /\ p.inserted = q.inserted /\ p.posted = q.posted \cup {Item(r)}
    <3>1. Item(r)' = Item(r)
      BY <2>6 DEF Item
    <3> QED
      BY <1>0, <2>2, <2>6, <3>1 DEF FlushedOwn, Minted, OwnKey
  <2>7. CASE /\ SubmitInsert(r) /\ q.pc = "insert" /\ NextItem(r)
             /\ p.inserted = q.inserted \cup {Item(r)} /\ p.posted = q.posted
    <3>1. q.posted = q.inserted \cup {Item(r)}
      BY <1>0, <2>7 DEF FlushedOwn, SubmitInsert
    <3>2. Item(r) \in Minted(r) /\ Item(r) \notin Ahead(r)'
      BY <2>2, <2>7, ItemAhead DEF Working
    <3>3. p.inserted \subseteq Minted(r) \ Ahead(r)'
      BY <1>0, <2>2, <2>7, <3>2 DEF FlushedOwn
    <3> QED
      BY <2>7, <3>1, <3>3 DEF FlushedOwn, Minted, NextItem
  <2>8. CASE p.pc \in {"done", "aborted"} /\ p.posted = {} /\ p.inserted = {}
    BY <2>8 DEF FlushedOwn
  <2> QED
    BY <2>1, <2>3, <2>4, <2>5, <2>6, <2>7, <2>8, SubmitShape
<1> QED
  BY <1>1, <1>2

\* What is flushed after a step was flushed before, or is being inserted.
LEMMA InsertedFrame ==
  ASSUME TypeOK, [Next]_vars, NEW r \in Requests, NEW j \in request'[r].inserted
  PROVE  \/ j \in request[r].inserted
         \/ SubmitInsert(r) /\ request[r].pc = "insert" /\ j = Item(r)
<1>1. SUFFICES ASSUME request'[r] # request[r]
               PROVE  \/ j \in request[r].inserted
                      \/ SubmitInsert(r) /\ request[r].pc = "insert" /\ j = Item(r)
  OBVIOUS
<1>2. SubmitStep(r)
  BY <1>1, RequestFrame, SubmitShape
<1> QED
  BY <1>2, SubmitShape DEF SameFlushed

LEMMA FlushedNext ==
  ASSUME TypeOK, AdmissionInv, [Next]_vars
  PROVE  Flushed'
<1>1. ASSUME NEW r \in Requests, NEW i \in request[r].inserted, NEW s \in Requests,
             SubmitInsert(s), request[s].pc = "insert", KeyOf[i] = KeyOf[Item(s)]
      PROVE  FALSE
  BY <1>1 DEF SubmitInsert, AdmissionInv, Flushed, FlushedOwn, OwnKey
<1>2. ASSUME NEW r \in Requests, NEW s \in Requests, SubmitInsert(r), SubmitInsert(s)
      PROVE  r = s
  <2>1. request[r].pc = "insert" /\ request'[r].pc # "insert"
    BY <1>2, InsertShape DEF NextItem
  <2> QED
    BY <1>2, <2>1, InsertShape
<1>3. ASSUME NEW r \in Requests, NEW s \in Requests, NEW i \in request'[r].inserted,
             NEW j \in request'[s].inserted, KeyOf[i] = KeyOf[j]
      PROVE  i = j
  <2>1. CASE i \in request[r].inserted /\ j \in request[s].inserted
    BY <1>3, <2>1 DEF AdmissionInv, Flushed
  <2>2. CASE i \notin request[r].inserted /\ j \notin request[s].inserted
    BY <1>2, <2>2, InsertedFrame
  <2>3. CASE i \in request[r].inserted /\ j \notin request[s].inserted
    BY <1>1, <1>3, <2>3, InsertedFrame
  <2>4. CASE i \notin request[r].inserted /\ j \in request[s].inserted
    <3>1. SubmitInsert(r) /\ request[r].pc = "insert" /\ i = Item(r)
      BY <2>4, InsertedFrame
    <3> QED
      BY <1>1, <1>3, <2>4, <3>1
  <2> QED
    BY <2>1, <2>2, <2>3, <2>4
<1> QED
  BY <1>3, FlushedOwnNext DEF Flushed

LEMMA OneJobPerKeyNext ==
  ASSUME TypeOK, AdmissionInv, [Next]_vars
  PROVE  OneJobPerKey'
<1> DEFINE New(j) == \E r \in Requests : SubmitCommit(r) /\ j \in request[r].inserted
<1>1. ASSUME NEW i \in Jobs, NEW j \in Jobs, status'[i] # "none", KeyOf[i] = KeyOf[j], New(j)
      PROVE  i = j
  <2>1. ~RowWithKey(KeyOf[j])
    BY <1>1 DEF AdmissionInv, PendingHasNoRow
  <2>2. ~HasRow(i)
    BY <1>1, <2>1 DEF RowWithKey, HasRow
  <2>3. CASE New(i)
    BY <1>1, <2>3 DEF AdmissionInv, Flushed
  <2>4. CASE i \in Clones
    BY <1>1, <2>4, CloneAssumption
  <2> QED
    BY <1>1, <2>2, <2>3, <2>4, NewRow
<1>2. ASSUME NEW i \in Jobs, NEW j \in Jobs, status'[i] # "none", status'[j] # "none",
             KeyOf[i] = KeyOf[j]
      PROVE  i = j
  <2>1. CASE New(i) \/ New(j)
    BY <1>1, <1>2, <2>1
  <2>2. CASE i \in Clones \/ j \in Clones
    BY <1>2, <2>2, CloneAssumption
  <2>3. CASE HasRow(i) /\ HasRow(j)
    BY <1>2, <2>3 DEF AdmissionInv, OneJobPerKey
  <2> QED
    BY <1>2, <2>1, <2>2, <2>3, NewRow
<1> QED
  BY <1>2 DEF OneJobPerKey, HasRow

\* A hold appears in the commit of a submit only, for what that submit has posted.
LEMMA NewHold ==
  ASSUME TypeOK, [Next]_vars, NEW t \in txns', t \notin txns, t.type = "hold"
  PROVE  \E r \in Requests : /\ SubmitCommit(r)
                             /\ \E j \in request[r].posted : t = Row(Requester[r], "hold", KeyOf[j], 0)
<1>1. ASSUME NEW c \in Cancels, CancelCommit(c) PROVE FALSE
  BY <1>1, CancelPosts DEF RefundHold, Row
<1>2. ASSUME NEW w \in Workers, FinishCommit(w) PROVE FALSE
  BY <1>2, FinishPosts DEF RefundHold, Debit, Row
<1>3. ASSUME NEW r \in Requests, SubmitStep(r) PROVE SubmitCommit(r)
  BY <1>3 DEF SubmitStep, SubmitLookup, SubmitCheckHold, SubmitHold, SubmitInsert, SubmitAbort,
     ledgerVars
<1>4. PICK r \in Requests : SubmitCommit(r)
  BY <1>1, <1>2, <1>3, LedgerFrame
<1> QED
  BY <1>4 DEF SubmitCommit, CommitHolds

LEMMA AdmittedIffHeldNext ==
  ASSUME TypeOK, AdmissionInv, [Next]_vars
  PROVE  AdmittedIffHeld'
<1>1. ASSUME NEW r \in Requests, SubmitCommit(r)
      PROVE  request[r].posted = request[r].inserted
  BY <1>1 DEF SubmitCommit, AdmissionInv, Flushed, FlushedOwn
<1>2. ASSUME NEW j \in NewJobs, status'[j] # "none"
      PROVE  Posted(Owner[j], "hold", KeyOf[j])'
  <2>1. j \in Jobs /\ j \notin Clones
    BY DEF NewJobs
  <2>2. CASE HasRow(j)
    BY <2>2, PostedStays DEF AdmissionInv, AdmittedIffHeld
  <2>3. ASSUME NEW r \in Requests, SubmitCommit(r), j \in request[r].inserted, j \in Minted(r)
        PROVE  Posted(Owner[j], "hold", KeyOf[j])'
    <3>1. Row(Requester[r], "hold", KeyOf[j], 0) \in txns'
      BY <1>1, <2>3 DEF SubmitCommit, CommitHolds
    <3>2. Requester[r] = Owner[j]
      BY <2>3, MintedFact
    <3> QED
      BY <3>1, <3>2 DEF Posted, Row
  <2> QED
    BY <1>2, <2>1, <2>2, <2>3, NewRow
<1>3. ASSUME NEW t \in txns', t.type = "hold"
      PROVE  \E j \in NewJobs : status'[j] # "none" /\ Owner[j] = t.user /\ KeyOf[j] = t.key
  <2>1. CASE t \in txns
    <3>1. PICK j \in NewJobs : HasRow(j) /\ Owner[j] = t.user /\ KeyOf[j] = t.key
      BY <1>3, <2>1 DEF AdmissionInv, AdmittedIffHeld
    <3>2. status'[j] # "none"
      BY <3>1, RowsFrame DEF AdmissionInv, NewJobs
    <3> QED
      BY <3>1, <3>2
  <2>2. CASE t \notin txns
    <3>0. PICK r \in Requests :
            /\ SubmitCommit(r)
            /\ \E j \in request[r].posted : t = Row(Requester[r], "hold", KeyOf[j], 0)
      BY <1>3, <2>2, NewHold
    <3>1. PICK j \in request[r].posted :
            SubmitCommit(r) /\ t = Row(Requester[r], "hold", KeyOf[j], 0)
      BY <3>0
    <3>2. j \in request[r].inserted /\ j \in Minted(r)
      BY <1>1, <3>1 DEF AdmissionInv, Flushed, FlushedOwn
    <3>3. j \in NewJobs /\ j \in Jobs /\ Owner[j] = Requester[r]
      BY <3>2, MintedFact
    <3>4. status'[j] # "none"
      BY <3>1, <3>2, <3>3, RowsFrame DEF AdmissionInv
    <3> QED
      BY <3>1, <3>3, <3>4 DEF Row
  <2> QED
    BY <2>1, <2>2
<1> QED
  BY <1>2, <1>3 DEF AdmittedIffHeld, HasRow, Posted

LEMMA AdmissionInit == Init => AdmissionInv
<1> SUFFICES ASSUME Init PROVE AdmissionInv
  OBVIOUS
<1>1. \A j \in Jobs : ~HasRow(j)
  BY DEF Init, HasRow
<1>2. /\ \A r \in Requests : request[r].pc = "lookup" /\ request[r].inserted = {}
                             /\ request[r].posted = {}
      /\ \A c \in Cancels : cancel[c].pc = "new"
      /\ \A w \in Workers : worker[w].pc = "idle"
  BY DEF Init, Idle
<1>3. ActedOnHasRow
  BY <1>2 DEF ActedOnHasRow
<1>4. PendingHasNoRow
  <2>1. \A r \in Requests : \A j \in Ahead(r) : j \in Jobs
    BY MintedFact DEF Ahead, Minted
  <2> QED
    BY <1>1, <1>2, <2>1, JobAssumption DEF PendingHasNoRow
<1>5. Flushed
  BY <1>2 DEF Flushed, FlushedOwn
<1>6. OneJobPerKey
  BY <1>1 DEF OneJobPerKey
<1>7. AdmittedIffHeld
  <2>1. \A t \in txns : t.type = "grant"
    BY DEF Init, LedgerInit, Row
  <2> QED
    BY <1>1, <2>1 DEF AdmittedIffHeld, NewJobs
<1> QED
  BY <1>3, <1>4, <1>5, <1>6, <1>7 DEF AdmissionInv

LEMMA AdmissionNext ==
  ASSUME TypeOK, AdmissionInv, [Next]_vars
  PROVE  AdmissionInv'
<1>1. ActedOnHasRow'
  BY ActedOnNext DEF AdmissionInv
<1> QED
  BY <1>1, PendingNext, FlushedNext, OneJobPerKeyNext, AdmittedIffHeldNext DEF AdmissionInv

LEMMA AdmissionAlways == Spec => []AdmissionInv
  BY AdmissionInit, AdmissionNext, TypeCorrect, PTL DEF Spec

\* Two rows never share an idempotency key, for any number of racing submits.
THEOREM OneJobPerKeyCorrect == Spec => []OneJobPerKey
<1>1. AdmissionInv => OneJobPerKey
  BY DEF AdmissionInv
<1> QED
  BY <1>1, AdmissionAlways, PTL

\* A job row and its hold are committed together or not at all.
THEOREM AdmittedIffHeldCorrect == Spec => []AdmittedIffHeld
<1>1. AdmissionInv => AdmittedIffHeld
  BY DEF AdmissionInv
<1> QED
  BY <1>1, AdmissionAlways, PTL

\* What settles a hold is the commit of a run or of a cancel.
LEMMA NewSettlement ==
  ASSUME TypeOK, [Next]_vars, NEW t \in txns', t \notin txns, t.type \in {"debit", "refund"}
  PROVE  \/ \E w \in Workers : LET j == worker[w].job IN
              /\ FinishCommit(w) /\ worker[w].post
              /\ t.user = Owner[j] /\ t.key = KeyOf[j] /\ t.type = Posting(worker[w].outcome)
         \/ \E c \in Cancels : LET j == cancel[c].job IN
              CancelCommit(c) /\ t.user = Owner[j] /\ t.key = KeyOf[j] /\ t.type = "refund"
<1>1. ASSUME NEW r \in Requests, SubmitStep(r) PROVE FALSE
  <2>1. SubmitCommit(r)
    BY <1>1 DEF SubmitStep, SubmitLookup, SubmitCheckHold, SubmitHold, SubmitInsert, SubmitAbort,
       ledgerVars
  <2> QED
    BY <2>1 DEF SubmitCommit, CommitHolds, Row
<1>2. ASSUME NEW c \in Cancels, CancelCommit(c)
      PROVE  LET j == cancel[c].job IN t.user = Owner[j] /\ t.key = KeyOf[j] /\ t.type = "refund"
  BY <1>2, CancelPosts DEF RefundHold, Row
<1>3. ASSUME NEW w \in Workers, FinishCommit(w)
      PROVE  LET j == worker[w].job IN
             /\ worker[w].post
             /\ t.user = Owner[j] /\ t.key = KeyOf[j] /\ t.type = Posting(worker[w].outcome)
  BY <1>3, FinishPosts DEF RefundHold, Debit, Row, Posting
<1> QED
  BY <1>1, <1>2, <1>3, LedgerFrame

-----------------------------------------------------------------------------
(* The clone of a requeue: where nothing is re-enqueued by hand, every     *)
(* entry of a clone and every run of one has the flag no_charge, so that   *)
(* no run of a clone comes to its commit with a row to post.               *)

EntriesFree ==
    \A c \in Clones : queue[c] > 0 \/ c \in scheduled => c \in freeEntries

RunsFree == \A w \in Workers : worker[w].job \in Clones => worker[w].noCharge

\* A run that is going to post is not a clone's.
PostsAreCharged == \A w \in Workers :
    worker[w].pc = "commit" /\ worker[w].post => worker[w].job \notin Clones

CloneInv ==
    redeliveries = 0 => /\ \A c \in Clones : ~Debited(c)
                        /\ EntriesFree /\ RunsFree /\ PostsAreCharged

\* A job that has been re-enqueued by hand stays one that has been.
LEMMA NoReenqueueYet ==
  ASSUME TypeOK, [Next]_vars, redeliveries' = 0
  PROVE  redeliveries = 0
<1>1. redeliveries \in Nat
  BY DEF TypeOK
<1>2. UNCHANGED vars => redeliveries' = redeliveries
  BY DEF vars, boundVars
<1>3. ASSUME NEW j \in Jobs, QueueAction(j) PROVE redeliveries = 0
  BY <1>1, <1>3, QueueFrame
<1>4. redeliveries' = redeliveries \/ \E j \in Jobs : QueueAction(j)
  BY <1>2, NextSplit, SubmitFrame, RequeueFrame, CancelFrame, WorkerFrame, FetchFrame
<1> QED
  BY <1>3, <1>4

\* The flag stays with the payload, as it is handed on.
LEMMA EntriesFreeNext ==
  ASSUME TypeOK, EntriesFree, RunsFree, redeliveries = 0, redeliveries' = 0, [Next]_vars
  PROVE  EntriesFree'
<1>0. /\ queue \in [Jobs -> Nat] /\ Clones \subseteq Jobs
      /\ scheduled \subseteq Jobs
  BY JobAssumption DEF TypeOK
<1> SUFFICES ASSUME NEW c \in Clones, queue'[c] > 0 \/ c \in scheduled' PROVE c \in freeEntries'
  BY DEF EntriesFree
<1>1. ASSUME NEW r \in Requests, SubmitInsert(r), Carries(Item(r), FALSE)
      PROVE  c \in freeEntries'
  <2>1. Item(r) \in NewJobs /\ Item(r) # c
    BY <1>1, ItemFact DEF SubmitInsert, NewJobs
  <2>2. queue'[c] = queue[c] /\ scheduled' = scheduled
    BY <1>0, <1>1, <2>1 DEF SubmitInsert, Enqueue
  <2> QED
    BY <1>1, <2>1, <2>2 DEF EntriesFree, Carries
<1>2. ASSUME NEW w \in Workers, RetryEnqueue(w) \/ NoCapacity(w),
             Carries(worker[w].job, worker[w].noCharge)
      PROVE  c \in freeEntries'
  <2>1. queue' = queue /\ scheduled' = scheduled \cup {worker[w].job}
    BY <1>2 DEF RetryEnqueue, NoCapacity, EnqueueIn
  <2>2. CASE worker[w].job = c
    BY <1>2, <2>2 DEF RunsFree, Carries
  <2>3. CASE worker[w].job # c
    BY <1>2, <2>1, <2>3 DEF EntriesFree, Carries
  <2> QED
    BY <2>2, <2>3
<1>3. ASSUME NEW d \in Clones, RequeueStep(d), Carries(d, TRUE)
      PROVE  c \in freeEntries'
  <2>1. CASE d = c
    BY <1>3, <2>1 DEF Carries
  <2>2. CASE d # c
    <3>1. queue'[c] = queue[c] /\ scheduled' = scheduled
      BY <1>0, <1>3, <2>2, RequeueFrame
    <3> QED
      BY <1>3, <2>2, <3>1 DEF EntriesFree, Carries
  <2> QED
    BY <2>1, <2>2
<1>4. ASSUME freeEntries' = freeEntries, queue'[c] > 0 \/ c \in scheduled'
             => queue[c] > 0 \/ c \in scheduled
      PROVE  c \in freeEntries'
  BY <1>4 DEF EntriesFree
<1>5. ASSUME NEW r \in Requests, SubmitStep(r) PROVE c \in freeEntries'
  <2>1. CASE SubmitInsert(r)
    BY <1>1, <2>1 DEF SubmitInsert, Enqueue
  <2>2. CASE ~SubmitInsert(r)
    <3>1. UNCHANGED <<queue, scheduled, freeEntries>>
      BY <1>5, <2>2 DEF SubmitStep, SubmitLookup, SubmitCheckHold, SubmitHold, SubmitCommit,
         SubmitAbort, queueVars
    <3> QED
      BY <1>4, <3>1
  <2> QED
    BY <2>1, <2>2
<1>6. ASSUME NEW d \in Clones, RequeueStep(d) PROVE c \in freeEntries'
  <2>1. CASE RequeueOpen(d)
    BY <1>3, <1>6, <2>1 DEF RequeueOpen, Enqueue
  <2>2. CASE RequeueCommit(d) \/ RequeueAbort(d)
    <3>1. UNCHANGED <<queue, scheduled, freeEntries>>
      BY <2>2 DEF RequeueCommit, RequeueAbort, queueVars
    <3> QED
      BY <1>4, <3>1
  <2> QED
    BY <1>6, <2>1, <2>2 DEF RequeueStep
<1>7. ASSUME NEW x \in Cancels, CancelAction(x) PROVE c \in freeEntries'
  <2>1. CASE CancelSignal(x)
    <3> DEFINE j == cancel[x].job
    <3>1. QueueCancel(j) /\ j \in Jobs
      BY <2>1 DEF CancelSignal, TypeOK, InHand
    <3> HIDE DEF j
    <3>2. freeEntries' = freeEntries /\ scheduled' \subseteq scheduled
      BY <3>1 DEF QueueCancel, queueVars
    <3>3. queue' = queue \/ queue' = [queue EXCEPT ![j] = ClampedSub(queue[j], 1)]
      BY <3>1 DEF QueueCancel, queueVars
    <3>4. queue'[c] > 0 => queue[c] > 0
      BY <1>0, <3>1, <3>3 DEF ClampedSub
    <3> QED
      BY <1>4, <3>2, <3>4
  <2>2. CASE ~CancelSignal(x)
    <3>1. UNCHANGED <<queue, scheduled, freeEntries>>
      BY <1>7, <2>2 DEF CancelAction, CancelStep, CancelCommit, CancelCheck, CancelRejected,
         CancelAbort, CancelRead, queueVars
    <3> QED
      BY <1>4, <3>1
  <2> QED
    BY <2>1, <2>2
<1>8. ASSUME NEW w \in Workers, WorkerAction(w) PROVE c \in freeEntries'
  <2>1. CASE RetryEnqueue(w) \/ NoCapacity(w)
    BY <1>2, <2>1 DEF RetryEnqueue, NoCapacity, EnqueueIn
  <2>2. CASE ~RetryEnqueue(w) /\ ~NoCapacity(w)
    <3>1. UNCHANGED <<queue, scheduled, freeEntries>>
      BY <1>8, <2>2 DEF WorkerAction, RunStep, ClaimCommit, LoadReferences, StageCancelled,
         StageSucceeds, StageFails, RetryRead, RetryCommit, FinishReload, PersistOutputs,
         CheckLedger, FinishCommit, FinishRejected, ClaimRead, ObjectStoreFails, WorkerLost,
         queueVars
    <3> QED
      BY <1>4, <3>1
  <2> QED
    BY <2>1, <2>2
<1>9. ASSUME NEW w \in Workers, NEW j \in Jobs, Fetch(w, j) PROVE c \in freeEntries'
  <2>1. /\ UNCHANGED <<scheduled, freeEntries>> /\ queue[j] > 0
        /\ queue' = [queue EXCEPT ![j] = queue[j] - 1]
    BY <1>9 DEF Fetch
  <2>2. queue'[c] > 0 => queue[c] > 0
    BY <1>0, <2>1
  <2> QED
    BY <1>4, <2>1, <2>2
<1>10. ASSUME NEW j \in Jobs, QueueAction(j) PROVE c \in freeEntries'
  <2>1. ~Redeliver(j)
    BY DEF Redeliver
  <2>2. CASE Promote(j)
    <3>1. freeEntries' = freeEntries /\ scheduled' = scheduled \ {j} /\ j \in scheduled
          /\ queue' = [queue EXCEPT ![j] = queue[j] + 1]
      BY <2>2 DEF Promote
    <3>2. queue'[c] > 0 => queue[c] > 0 \/ c = j
      BY <1>0, <3>1
    <3> QED
      BY <1>4, <3>1, <3>2
  <2>3. CASE ExpireFlag(j)
    BY <1>4, <2>3 DEF ExpireFlag
  <2> QED
    BY <1>10, <2>1, <2>2, <2>3 DEF QueueAction
<1>11. CASE UNCHANGED vars
  BY <1>4, <1>11 DEF vars, queueVars
<1> QED
  BY <1>5, <1>6, <1>7, <1>8, <1>9, <1>10, <1>11, NextSplit

LEMMA RunsFreeNext ==
  ASSUME TypeOK, EntriesFree, RunsFree, [Next]_vars
  PROVE  RunsFree'
<1>0. None \notin Clones /\ Idle.job = None
  BY JobAssumption DEF Idle
<1>1. ASSUME NEW w \in Workers, WorkerAction(w) PROVE RunsFree'
  <2>1. \A v \in Workers \ {w} : worker'[v] = worker[v]
    BY <1>1, WorkerShape
  <2>2. worker'[w] = Idle \/ (worker'[w].job = worker[w].job
                              /\ worker'[w].noCharge = worker[w].noCharge)
    BY <1>1, WorkerShape
  <2> QED
    BY <1>0, <2>1, <2>2 DEF RunsFree
<1>2. ASSUME NEW w \in Workers, NEW j \in Jobs, Fetch(w, j) PROVE RunsFree'
  <2> DEFINE free == j \in freeEntries
             s == [Idle EXCEPT !.pc = "fetched", !.job = j, !.noCharge = free]
  <2>1. Becomes(w, s) /\ queue[j] > 0
    BY <1>2, FetchFrame
  <2>2. s.job = j /\ s.noCharge = free
    <3> HIDE DEF free
    <3> QED
      BY DEF Idle
  <2>3. s.job \in Clones => s.noCharge
    <3> HIDE DEF s
    <3> QED
      BY <2>1, <2>2 DEF EntriesFree
  <2> HIDE DEF s
  <2> QED
    BY <2>1, <2>3, BecomesFact DEF RunsFree
<1>3. CASE UNCHANGED worker
  BY <1>3 DEF RunsFree
<1> QED
  BY <1>1, <1>2, <1>3, NextSplit, SubmitFrame, RequeueFrame, CancelFrame, QueueFrame DEF vars

LEMMA PostsAreChargedNext ==
  ASSUME TypeOK, RunsFree, PostsAreCharged, [Next]_vars
  PROVE  PostsAreCharged'
<1> SUFFICES ASSUME NEW w \in Workers, worker'[w].pc = "commit", worker'[w].post
             PROVE  worker'[w].job \notin Clones
  BY DEF PostsAreCharged
<1>1. CASE worker'[w] = worker[w]
  BY <1>1 DEF PostsAreCharged
<1>2. CASE CheckLedger(w)
  <2> DEFINE me == worker[w]
             post == /\ Charges(w)
                     /\ ~Posted(Owner[me.job], Posting(me.outcome), KeyOf[me.job])
             s == [me EXCEPT !.pc = "commit", !.post = post]
  <2>1. worker'[w] = s
    BY <1>2, BecomesFact DEF CheckLedger
  <2>2. s.job = me.job /\ s.post = post
    <3>1. me \in WorkerState
      BY DEF TypeOK
    <3> HIDE DEF post
    <3> QED
      BY <3>1 DEF WorkerState
  <2>3. post /\ worker'[w].job = me.job
    <3> HIDE DEF s, post
    <3> QED
      BY <2>1, <2>2
  <2> QED
    BY <2>3 DEF Charges, RunsFree
<1> QED
  BY <1>1, <1>2, WorkerCommits

LEMMA CloneNext ==
  ASSUME TypeOK, CloneInv, [Next]_vars
  PROVE  CloneInv'
<1> SUFFICES ASSUME redeliveries' = 0 PROVE CloneInv'
  BY DEF CloneInv
<1>0. redeliveries = 0
  BY NoReenqueueYet
<1>1. /\ \A c \in Clones : ~Debited(c)
      /\ EntriesFree /\ RunsFree /\ PostsAreCharged
  BY <1>0 DEF CloneInv
<1>2. EntriesFree' /\ RunsFree' /\ PostsAreCharged'
  BY <1>0, <1>1, EntriesFreeNext, RunsFreeNext, PostsAreChargedNext
<1>3. ASSUME NEW c \in Clones, NEW t \in txns', t.user = Owner[c], t.type = "debit",
             t.key = KeyOf[c]
      PROVE  FALSE
  <2>1. t \notin txns
    BY <1>1, <1>3 DEF Debited, Posted
  <2>2. PICK w \in Workers : FinishCommit(w) /\ worker[w].post /\ t.key = KeyOf[worker[w].job]
    BY <1>3, <2>1, NewSettlement
  <2>3. worker[w].job \in Jobs /\ worker[w].job \notin Clones
    BY <1>1, <2>2 DEF FinishCommit, PostsAreCharged, TypeOK, InHand
  <2> QED
    BY <1>3, <2>2, <2>3, CloneAssumption
<1> QED
  BY <1>2, <1>3 DEF CloneInv, Debited, Posted

LEMMA CloneInit == Init => CloneInv
<1> SUFFICES ASSUME Init PROVE CloneInv
  OBVIOUS
<1>1. \A t \in txns : t.type = "grant"
  BY DEF Init, LedgerInit, Row
<1>2. \A w \in Workers : worker[w].pc = "idle" /\ worker[w].job = None
  BY DEF Init, Idle
<1>3. \A c \in Clones : queue[c] = 0 /\ scheduled = {}
  BY JobAssumption DEF Init
<1>4. EntriesFree /\ RunsFree /\ PostsAreCharged
  BY <1>2, <1>3, JobAssumption DEF EntriesFree, RunsFree, PostsAreCharged
<1> QED
  BY <1>1, <1>4 DEF CloneInv, Debited, Posted

LEMMA CloneAlways == Spec => []CloneInv
  BY CloneInit, CloneNext, TypeCorrect, PTL DEF Spec

\* The clone that an admin requeue makes never posts a debit, where no entry is made by
\* hand: each retry and each run put back without capacity hands the flag on.
THEOREM CloneIsFreeCorrect == Spec => []CloneIsFree
<1>1. CloneInv => CloneIsFree
  BY DEF CloneInv, CloneIsFree
<1> QED
  BY <1>1, CloneAlways, PTL

-----------------------------------------------------------------------------
(* The cached balance.  The sum over a user's rows moves with the balance  *)
(* in every commit; it is a sum because the ledger is finite.              *)

BalanceInv ==
    /\ LedgerFinite /\ BalanceIsLedgerSum
    /\ \A r \in Requests : IsFiniteSet(request[r].posted)

LEMMA PostedFinite ==
  ASSUME TypeOK, BalanceInv, [Next]_vars, NEW r \in Requests
  PROVE  IsFiniteSet(request'[r].posted)
<1>1. CASE request'[r] = request[r]
  BY <1>1 DEF BalanceInv
<1>2. CASE request'[r] # request[r]
  <2>1. SubmitStep(r)
    BY <1>2, RequestFrame, SubmitShape
  <2>2. \/ request'[r].posted = request[r].posted
        \/ request'[r].posted = request[r].posted \cup {Item(r)}
        \/ request'[r].posted = {}
    BY <2>1, SubmitShape DEF SameFlushed
  <2>3. IsFiniteSet(request[r].posted) /\ IsFiniteSet({})
    BY FS_EmptySet DEF BalanceInv
  <2>4. IsFiniteSet(request[r].posted \cup {Item(r)})
    BY <2>3, FS_AddElement
  <2> QED
    BY <2>2, <2>3, <2>4
<1> QED
  BY <1>1, <1>2

LEMMA KeysFinite ==
  ASSUME NEW J, IsFiniteSet(J)
  PROVE  IsFiniteSet({KeyOf[j] : j \in J})
<1> DEFINE f == [j \in J |-> KeyOf[j]]
           K == {KeyOf[j] : j \in J}
<1>1. f \in Surjection(J, K)
  BY DEF Surjection
<1> HIDE DEF f, K
<1>2. IsFiniteSet(K)
  BY <1>1, FS_Surjection
<1> QED
  BY <1>2 DEF K

LEMMA BalanceNext ==
  ASSUME TypeOK, BalanceInv, [Next]_vars
  PROVE  BalanceInv'
<1> DEFINE Goal == LedgerFinite' /\ BalanceIsLedgerSum'
<1>0. LedgerTypeOK /\ LedgerFinite /\ balance \in [Users -> Nat]
      /\ \A u \in Users : balance[u] = LedgerSum(u)
  BY DEF TypeOK, LedgerTypeOK, BalanceInv, BalanceIsLedgerSum
<1>1. ASSUME LedgerFinite', balance' = balance, \A u \in Users : LedgerSum(u)' = LedgerSum(u)
      PROVE  Goal
  BY <1>0, <1>1 DEF BalanceIsLedgerSum
<1>2. ASSUME NEW u \in Users, NEW k \in Keys, NEW n \in Nat, Debit(u, k, n) PROVE Goal
  <2>1. LedgerFinite' /\ \A v \in Users : LedgerSum(v)' = LedgerSum(v) - (IF v = u THEN n ELSE 0)
    BY <1>0, <1>2, DebitSum
  <2>2. ASSUME NEW v \in Users PROVE balance'[v] = LedgerSum(v)'
    <3>1. balance' = [balance EXCEPT ![u] = balance[u] - n]
      BY <1>2 DEF Debit
    <3>2. balance[v] \in Nat /\ balance[v] = LedgerSum(v)
      BY <1>0
    <3>3. balance'[v] = balance[v] - (IF v = u THEN n ELSE 0)
      BY <1>0, <3>1, <3>2
    <3> QED
      BY <2>1, <3>2, <3>3
  <2> QED
    BY <2>1, <2>2 DEF BalanceIsLedgerSum
<1>3. ASSUME NEW u \in Users, NEW k \in Keys, NEW n \in Nat, RefundHold(u, k, n) PROVE Goal
  <2>1. balance' = balance
    BY <1>3 DEF RefundHold
  <2> QED
    BY <1>0, <1>1, <1>3, <2>1, RefundSum
<1>4. ASSUME UNCHANGED <<balance, held, txns, lockedBy>> PROVE Goal
  <2>1. LedgerFinite' /\ \A u \in Users : LedgerSum(u)' = LedgerSum(u)
    BY <1>0, <1>4, LedgerSumSame
  <2> QED
    BY <1>1, <1>4, <2>1
<1>5. ASSUME NEW r \in Requests, SubmitStep(r) PROVE Goal
  <2>1. CASE SubmitCommit(r)
    <3> DEFINE K == {KeyOf[j] : j \in request[r].posted}
    <3>1. request[r].posted \subseteq Jobs /\ IsFiniteSet(request[r].posted)
      BY DEF TypeOK, RequestState, NewJobs, BalanceInv
    <3>2. K \in SUBSET Keys
      BY <3>1, JobAssumption
    <3>3. IsFiniteSet(K)
      BY <3>1, KeysFinite
    <3>4. CommitHolds(Requester[r], r, K, request[r].reserved)
      BY <2>1 DEF SubmitCommit
    <3>5. Requester[r] \in Users /\ balance' = balance
      BY <3>4, PlanAssumption DEF CommitHolds
    <3> HIDE DEF K
    <3>6. LedgerFinite' /\ \A v \in Users : LedgerSum(v)' = LedgerSum(v)
      BY <1>0, <3>2, <3>3, <3>4, <3>5, CommitHoldsSum
    <3> QED
      BY <1>1, <3>5, <3>6
  <2>2. CASE ~SubmitCommit(r)
    <3>1. balance' = balance /\ txns' = txns
      BY <1>5, <2>2 DEF SubmitStep, SubmitLookup, SubmitCheckHold, SubmitHold, SubmitInsert,
         SubmitAbort, ledgerVars
    <3>2. LedgerFinite' /\ \A u \in Users : LedgerSum(u)' = LedgerSum(u)
      BY <1>0, <3>1, LedgerSumSame
    <3> QED
      BY <1>1, <3>1, <3>2
  <2> QED
    BY <2>1, <2>2
<1> HIDE DEF Goal
<1>6. ASSUME NEW c \in Cancels, CancelCommit(c) PROVE Goal
  BY <1>3, <1>4, <1>6, CancelPosts
<1>7. ASSUME NEW w \in Workers, FinishCommit(w) PROVE Goal
  BY <1>2, <1>3, <1>4, <1>7, FinishPosts
<1>8. Goal
  BY <1>4, <1>5, <1>6, <1>7, LedgerFrame
<1> QED
  BY <1>8, PostedFinite DEF BalanceInv, Goal

LEMMA BalanceInit == Init => BalanceInv
<1> SUFFICES ASSUME Init PROVE BalanceInv
  OBVIOUS
<1>1. LedgerInit /\ LedgerTypeOK
  BY TypeInit DEF Init, TypeOK
<1>2. \A r \in Requests : request[r].posted = {}
  BY DEF Init
<1> QED
  BY <1>1, <1>2, LedgerSumInit, FS_EmptySet DEF BalanceInv, BalanceIsLedgerSum

LEMMA BalanceAlways == Spec => []BalanceInv
  BY BalanceInit, BalanceNext, TypeCorrect, PTL DEF Spec

\* The cached balance of every user is the sum of that user's rows in the ledger,
\* for any number of users, jobs and workers.
THEOREM BalanceIsLedgerSumCorrect == Spec => []BalanceIsLedgerSum
<1>1. BalanceInv => BalanceIsLedgerSum
  BY DEF BalanceInv
<1> QED
  BY <1>1, BalanceAlways, PTL

-----------------------------------------------------------------------------
(* Delivery: where a job is, between its first enqueue and its last run.   *)

Nowhere(j) ==
    /\ queue[j] = 0 /\ j \notin scheduled
    /\ \A w \in Workers : worker[w].job # j

\* A job is on the queue once, or scheduled, or with one worker.
OnePlace(j) ==
    /\ queue[j] \in {0, 1}
    /\ queue[j] = 1 => j \notin scheduled
    /\ queue[j] = 1 \/ j \in scheduled => \A w \in Workers : worker[w].job # j
    /\ \A v, w \in Workers : worker[v].job = j /\ worker[w].job = j => v = w

\* It is nowhere before it is first enqueued ...
Started ==
    /\ \A r \in Requests : \A j \in Ahead(r) : Nowhere(j)
    /\ \A c \in Clones : clone[c] = "new" => Nowhere(c)
    /\ \A j \in Jobs : ~HasRow(j) => attempts[j] = 0 /\ outputs[j] = 0

\* ... and after a run of it has come to an end of its own.
Ended(j) ==
    /\ outputs[j] \in {0, 1}
    /\ outputs[j] = 1 \/ status[j] \in {"completed", "failed"} => Nowhere(j)

\* What is on its way to a claim has been claimed fewer than MaxRetries times.
ClaimsLeft(j) ==
    /\ attempts[j] <= MaxRetries
    /\ queue[j] > 0 \/ j \in scheduled => attempts[j] < MaxRetries
    /\ \A w \in Workers : worker[w].job = j =>
         /\ worker[w].pc \in {"fetched", "claim", "retryRead", "retryCommit", "retryEnqueue"}
              => attempts[j] < MaxRetries
         /\ worker[w].pc \in {"claim", "load", "stage"} => worker[w].attempts = attempts[j]

DeliveryInv == Started /\ \A j \in Jobs : OnePlace(j) /\ Ended(j) /\ ClaimsLeft(j)

\* The ways in which the place of a job may change.
NoNewPlace(j) ==
    /\ queue'[j] <= queue[j]
    /\ j \in scheduled' => j \in scheduled
    /\ \A w \in Workers : worker'[w].job = j => worker[w].job = j

Enqueued(j) ==
    /\ \/ \E r \in Requests : SubmitInsert(r) /\ request[r].pc = "insert" /\ j = Item(r)
       \/ j \in Clones /\ RequeueOpen(j)
    /\ queue'[j] = queue[j] + 1 /\ scheduled' = scheduled /\ worker' = worker

PutBack(w, j) ==
    /\ worker[w].job = j /\ worker[w].pc \in {"fetched", "retryEnqueue"}
    /\ worker'[w] = Idle /\ \A v \in Workers \ {w} : worker'[v] = worker[v]
    /\ scheduled' = scheduled \cup {j} /\ queue' = queue

Promoted(j) ==
    /\ j \in scheduled /\ j \notin scheduled'
    /\ queue'[j] = queue[j] + 1 /\ worker' = worker

LEMMA PlaceFrame ==
  ASSUME TypeOK, redeliveries = 0, redeliveries' = 0, [Next]_vars, NEW j \in Jobs
  PROVE  \/ NoNewPlace(j)
         \/ Enqueued(j)
         \/ \E w \in Workers : WorkerAction(w) /\ PutBack(w, j)
         \/ Promoted(j)
         \/ \E w \in Workers : Fetch(w, j)
<1> DEFINE Goal == \/ NoNewPlace(j)
                   \/ Enqueued(j)
                   \/ \E w \in Workers : WorkerAction(w) /\ PutBack(w, j)
                   \/ Promoted(j)
                   \/ \E w \in Workers : Fetch(w, j)
<1>0. /\ queue \in [Jobs -> Nat] /\ queue[j] \in Nat /\ None # j
      /\ \A r \in Requests : request[r].pc \in Working => Item(r) \in Jobs
  BY ItemFact, JobAssumption DEF TypeOK, Working
<1>1. ASSUME UNCHANGED <<queue, scheduled, worker>> PROVE Goal
  BY <1>0, <1>1 DEF NoNewPlace
<1>2. ASSUME NEW r \in Requests, SubmitStep(r) PROVE Goal
  <2>1. scheduled' = scheduled /\ worker' = worker
    BY <1>2, SubmitFrame
  <2>2. CASE SubmitInsert(r)
    <3>1. request[r].pc = "insert" /\ queue' = [queue EXCEPT ![Item(r)] = @ + 1]
      BY <2>2 DEF SubmitInsert, Enqueue
    <3>2. CASE j = Item(r)
      BY <1>0, <2>1, <2>2, <3>1, <3>2 DEF Enqueued
    <3>3. CASE j # Item(r)
      BY <1>0, <1>1, <2>1, <3>1, <3>3 DEF NoNewPlace
    <3> QED
      BY <3>2, <3>3
  <2>3. CASE ~SubmitInsert(r)
    <3>1. queue' = queue
      BY <1>2, <2>3 DEF SubmitStep, SubmitLookup, SubmitCheckHold, SubmitHold, SubmitCommit,
         SubmitAbort, queueVars
    <3> QED
      BY <1>1, <2>1, <3>1
  <2> QED
    BY <2>2, <2>3
<1>3. ASSUME NEW c \in Clones, RequeueStep(c) PROVE Goal
  <2>1. scheduled' = scheduled /\ worker' = worker
    BY <1>3, RequeueFrame
  <2>2. CASE RequeueOpen(c)
    <3>1. queue' = [queue EXCEPT ![c] = @ + 1]
      BY <2>2 DEF RequeueOpen, Enqueue
    <3> QED
      BY <1>0, <2>1, <2>2, <3>1 DEF NoNewPlace, Enqueued
  <2>3. CASE ~RequeueOpen(c)
    <3>1. queue' = queue
      BY <1>3, <2>3 DEF RequeueStep, RequeueCommit, RequeueAbort, queueVars
    <3> QED
      BY <1>1, <2>1, <3>1
  <2> QED
    BY <2>2, <2>3
<1>4. ASSUME NEW c \in Cancels, CancelAction(c) PROVE Goal
  <2>1. worker' = worker
    BY <1>4, CancelFrame
  <2>2. CASE CancelSignal(c)
    <3>1. QueueCancel(cancel[c].job)
      BY <2>2 DEF CancelSignal
    <3>2. queue'[j] <= queue[j] /\ (j \in scheduled' => j \in scheduled)
      BY <1>0, <3>1 DEF QueueCancel, ClampedSub, queueVars
    <3> QED
      BY <2>1, <3>2 DEF NoNewPlace
  <2>3. CASE ~CancelSignal(c)
    <3>1. UNCHANGED <<queue, scheduled>>
      BY <1>4, <2>3 DEF CancelAction, CancelStep, CancelCommit, CancelCheck, CancelRejected,
         CancelAbort, CancelRead, queueVars
    <3> QED
      BY <1>1, <2>1, <3>1
  <2> QED
    BY <2>2, <2>3
<1>5. ASSUME NEW w \in Workers, WorkerAction(w) PROVE Goal
  <2>1. queue' = queue /\ \A v \in Workers \ {w} : worker'[v] = worker[v]
    BY <1>5, WorkerFrame, WorkerShape
  <2>2. worker'[w].job \in {None, worker[w].job}
    BY <1>5, WorkerShape DEF Idle
  <2>3. \A v \in Workers : worker'[v].job = j => worker[v].job = j
    BY <1>0, <2>1, <2>2
  <2>4. CASE RetryEnqueue(w) \/ NoCapacity(w)
    <3>1. /\ scheduled' = scheduled \cup {worker[w].job} /\ Becomes(w, Idle)
          /\ worker[w].pc \in {"fetched", "retryEnqueue"}
      BY <2>4 DEF RetryEnqueue, NoCapacity, EnqueueIn
    <3>2. worker'[w] = Idle
      BY <3>1, BecomesFact
    <3>3. CASE worker[w].job = j
      BY <1>5, <2>1, <3>1, <3>2, <3>3 DEF PutBack
    <3>4. CASE worker[w].job # j
      BY <1>0, <2>1, <2>3, <3>1, <3>4 DEF NoNewPlace
    <3> QED
      BY <3>3, <3>4
  <2>5. CASE ~RetryEnqueue(w) /\ ~NoCapacity(w)
    <3>1. scheduled' = scheduled
      BY <1>5, <2>5 DEF WorkerAction, RunStep, ClaimCommit, LoadReferences, StageCancelled,
         StageSucceeds, StageFails, RetryRead, RetryCommit, FinishReload, PersistOutputs,
         CheckLedger, FinishCommit, FinishRejected, ClaimRead, ObjectStoreFails, WorkerLost,
         queueVars
    <3> QED
      BY <1>0, <2>1, <2>3, <3>1 DEF NoNewPlace
  <2> QED
    BY <2>4, <2>5
<1>6. ASSUME NEW w \in Workers, NEW i \in Jobs, Fetch(w, i) PROVE Goal
  <2>1. CASE i = j
    BY <1>6, <2>1
  <2>2. CASE i # j
    <3>1. queue'[j] = queue[j] /\ scheduled' = scheduled
      BY <1>0, <1>6, <2>2, FetchFrame
    <3>2. \A v \in Workers : worker'[v].job = j => worker[v].job = j
      BY <1>6, <2>2, FetchShape
    <3> QED
      BY <1>0, <3>1, <3>2 DEF NoNewPlace
  <2> QED
    BY <2>1, <2>2
<1>7. ASSUME NEW i \in Jobs, QueueAction(i) PROVE Goal
  <2>1. worker' = worker /\ ~Redeliver(i)
    BY <1>7, QueueFrame DEF Redeliver
  <2>2. CASE Promote(i)
    <3>1. /\ i \in scheduled /\ scheduled' = scheduled \ {i}
          /\ queue' = [queue EXCEPT ![i] = @ + 1]
      BY <2>2 DEF Promote
    <3> QED
      BY <1>0, <2>1, <3>1 DEF NoNewPlace, Promoted
  <2>3. CASE ExpireFlag(i)
    BY <1>1, <2>1, <2>3 DEF ExpireFlag
  <2> QED
    BY <1>7, <2>1, <2>2, <2>3 DEF QueueAction
<1>8. ASSUME UNCHANGED vars PROVE Goal
  BY <1>1, <1>8 DEF vars, queueVars
<1>9. Goal
  <2> HIDE DEF Goal
  <2> QED
    BY <1>2, <1>3, <1>4, <1>5, <1>6, <1>7, <1>8, NextSplit
<1> QED
  BY <1>9

\* A step of a worker that counts an attempt, or records the outputs.
LEMMA CountFrame ==
  ASSUME TypeOK, [Next]_vars, NEW j \in Jobs
  PROVE  /\ \/ attempts'[j] = attempts[j]
            \/ \E w \in Workers : /\ WorkerAction(w) /\ ClaimCommit(w) /\ worker[w].job = j
                                  /\ attempts'[j] = worker[w].attempts + 1
         /\ \/ outputs'[j] = outputs[j]
            \/ \E w \in Workers : /\ WorkerAction(w) /\ FinishCommit(w) /\ worker[w].job = j
                                  /\ outputs'[j] = outputs[j] + 1
<1>0. attempts \in [Jobs -> Nat] /\ outputs \in [Jobs -> Nat]
  BY DEF TypeOK
<1>1. ASSUME NEW w \in Workers, WorkerAction(w)
      PROVE  /\ \/ attempts'[j] = attempts[j]
                \/ /\ ClaimCommit(w) /\ worker[w].job = j
                   /\ attempts'[j] = worker[w].attempts + 1
             /\ \/ outputs'[j] = outputs[j]
                \/ /\ FinishCommit(w) /\ worker[w].job = j
                   /\ outputs'[j] = outputs[j] + 1
  <2>1. CASE ClaimCommit(w)
    BY <1>0, <2>1 DEF ClaimCommit
  <2>2. CASE FinishCommit(w)
    <3>1. /\ attempts' = attempts
          /\ outputs' = [outputs EXCEPT ![worker[w].job] =
                           IF worker[w].outcome = "completed" THEN @ + 1 ELSE @]
      BY <2>2 DEF FinishCommit
    <3> QED
      BY <1>0, <2>2, <3>1
  <2>3. CASE ~ClaimCommit(w) /\ ~FinishCommit(w)
    <3>1. attempts' = attempts /\ outputs' = outputs
      BY <1>1, <2>3 DEF WorkerAction, RunStep, LoadReferences, StageCancelled, StageSucceeds,
         StageFails, RetryRead, RetryCommit, RetryEnqueue, FinishReload, PersistOutputs,
         CheckLedger, FinishRejected, ClaimRead, NoCapacity, ObjectStoreFails, WorkerLost,
         rowVars
    <3> QED
      BY <3>1
  <2> QED
    BY <2>1, <2>2, <2>3
<1>2. \/ attempts' = attempts /\ outputs' = outputs
      \/ \E w \in Workers : WorkerAction(w)
  <2>1. UNCHANGED vars => attempts' = attempts /\ outputs' = outputs
    BY DEF vars, rowVars
  <2> QED
    BY <2>1, NextSplit, SubmitFrame, RequeueFrame, CancelFrame, FetchFrame, QueueFrame
<1> QED
  BY <1>1, <1>2

LEMMA EnqueuedFact ==
  ASSUME TypeOK, AdmissionInv, DeliveryInv, [Next]_vars, NEW j \in Jobs, Enqueued(j)
  PROVE  /\ Nowhere(j) /\ ~HasRow(j)
         /\ \A r \in Requests : j \notin Ahead(r)'
         /\ j \in Clones => clone'[j] # "new"
<1>1. CASE \E r \in Requests : SubmitInsert(r) /\ request[r].pc = "insert" /\ j = Item(r)
  <2>1. PICK r \in Requests : SubmitInsert(r) /\ request[r].pc = "insert" /\ j = Item(r)
    BY <1>1
  <2>2. SubmitStep(r) /\ request[r].pc \in Working
    BY <2>1 DEF SubmitStep, Working
  <2>3. j \in Ahead(r) /\ j \in Minted(r)
    BY <2>1, <2>2, ItemAhead
  <2>4. NextItem(r)
    BY <2>1, InsertShape
  <2>5. \A s \in Requests : j \notin Ahead(s)'
    <3> SUFFICES ASSUME NEW s \in Requests, j \in Ahead(s)' PROVE FALSE
      OBVIOUS
    <3>1. j \in Minted(s)
      BY DEF Ahead, Minted
    <3>2. s = r
      BY <2>3, <3>1, MintedFact
    <3> QED
      BY <2>1, <2>2, <2>4, <3>2, AheadShrinks
  <2>6. j \notin Clones
    BY <2>3, MintedFact
  <2> QED
    BY <2>3, <2>5, <2>6 DEF DeliveryInv, Started, AdmissionInv, PendingHasNoRow
<1>2. CASE j \in Clones /\ RequeueOpen(j)
  <2>1. clone[j] = "new" /\ clone' = [clone EXCEPT ![j] = "open"]
    BY <1>2 DEF RequeueOpen
  <2>2. clone'[j] = "open"
    BY <1>2, <2>1 DEF TypeOK
  <2>3. \A r \in Requests : j \notin Ahead(r)'
    BY <1>2, MintedFact DEF Ahead, Minted
  <2> QED
    BY <1>2, <2>1, <2>2, <2>3 DEF DeliveryInv, Started, AdmissionInv, PendingHasNoRow
<1> QED
  BY <1>1, <1>2 DEF Enqueued

LEMMA OnePlaceNext ==
  ASSUME TypeOK, AdmissionInv, DeliveryInv, redeliveries = 0, redeliveries' = 0,
         [Next]_vars, NEW j \in Jobs
  PROVE  OnePlace(j)'
<1>0. OnePlace(j) /\ queue[j] \in Nat /\ queue'[j] \in Nat /\ None # j
  <2>1. TypeOK'
    BY LedgerTypeNext, ApiTypeNext, RowTypeNext, QueueTypeNext, PayloadTypeNext DEF TypeOK
  <2> QED
    BY <2>1, JobAssumption DEF DeliveryInv, TypeOK
<1>1. CASE NoNewPlace(j)
  <2>1. queue'[j] \in {0, 1} /\ (queue'[j] = 1 => queue[j] = 1)
    BY <1>0, <1>1 DEF OnePlace, NoNewPlace
  <2> QED
    BY <1>0, <1>1, <2>1 DEF OnePlace, NoNewPlace
<1>2. CASE Enqueued(j)
  <2>1. Nowhere(j)
    BY <1>2, EnqueuedFact
  <2> QED
    BY <1>0, <1>2, <2>1 DEF OnePlace, Nowhere, Enqueued
<1>3. ASSUME NEW w \in Workers, PutBack(w, j) PROVE OnePlace(j)'
  <2>1. queue[j] = 0
    BY <1>0, <1>3 DEF OnePlace, PutBack
  <2>2. \A v \in Workers : worker'[v].job # j
    BY <1>0, <1>3 DEF OnePlace, PutBack, Idle
  <2> QED
    BY <1>0, <1>3, <2>1, <2>2 DEF OnePlace, PutBack
<1>4. CASE Promoted(j)
  <2>1. queue[j] = 0 /\ \A v \in Workers : worker[v].job # j
    BY <1>0, <1>4 DEF OnePlace, Promoted
  <2> QED
    BY <1>0, <1>4, <2>1 DEF OnePlace, Promoted
<1>5. ASSUME NEW w \in Workers, Fetch(w, j) PROVE OnePlace(j)'
  <2>0. queue[j] > 0 /\ queue' = [queue EXCEPT ![j] = queue[j] - 1] /\ scheduled' = scheduled
    BY <1>5 DEF Fetch
  <2>1. queue[j] = 1 /\ \A v \in Workers : worker[v].job # j
    BY <1>0, <2>0 DEF OnePlace
  <2>2. queue'[j] = 0 /\ j \notin scheduled'
    BY <1>0, <2>0, <2>1 DEF OnePlace, TypeOK
  <2>3. \A v \in Workers : worker'[v].job = j => v = w
    BY <1>5, <2>1, FetchShape
  <2> QED
    BY <1>0, <2>2, <2>3 DEF OnePlace
<1> QED
  BY <1>1, <1>2, <1>3, <1>4, <1>5, PlaceFrame

\* What is nowhere is enqueued first, or stays where it is.
LEMMA NowhereStays ==
  ASSUME TypeOK, AdmissionInv, DeliveryInv, redeliveries = 0, redeliveries' = 0,
         [Next]_vars, NEW j \in Jobs, Nowhere(j)
  PROVE  Nowhere(j)' \/ Enqueued(j)
<1>0. queue'[j] \in Nat
  BY QueueTypeNext
<1>1. CASE NoNewPlace(j)
  BY <1>0, <1>1 DEF Nowhere, NoNewPlace
<1>2. ~ \E w \in Workers : PutBack(w, j)
  BY DEF Nowhere, PutBack
<1>3. ~Promoted(j)
  BY DEF Nowhere, Promoted
<1>4. ~ \E w \in Workers : Fetch(w, j)
  BY DEF Nowhere, Fetch
<1> QED
  BY <1>1, <1>2, <1>3, <1>4, PlaceFrame

LEMMA StartedNext ==
  ASSUME TypeOK, AdmissionInv, DeliveryInv, redeliveries = 0, redeliveries' = 0, [Next]_vars
  PROVE  Started'
<1>1. ASSUME NEW r \in Requests, NEW j \in Ahead(r)' PROVE Nowhere(j)'
  <2>1. j \in Ahead(r)
    <3>1. UNCHANGED request => Ahead(r)' = Ahead(r)
      BY DEF Ahead
    <3> QED
      BY <1>1, <3>1, AheadShrinks, RequestFrame
  <2>2. j \in Jobs
    <3>1. j \in Minted(r)
      BY <2>1 DEF Ahead, Minted
    <3> QED
      BY <3>1, MintedFact
  <2>3. Nowhere(j)
    BY <2>1 DEF DeliveryInv, Started
  <2> QED
    BY <1>1, <2>2, <2>3, NowhereStays, EnqueuedFact
<1>2. ASSUME NEW c \in Clones, clone'[c] = "new" PROVE Nowhere(c)'
  <2>1. clone[c] = "new"
    <3>1. UNCHANGED vars => UNCHANGED clone
      BY DEF vars, apiVars
    <3>2. UNCHANGED clone \/ \E d \in Clones : RequeueStep(d)
      BY <3>1, NextSplit, SubmitFrame, CancelFrame, WorkerFrame, FetchFrame, QueueFrame
    <3>3. ASSUME NEW d \in Clones, RequeueStep(d) PROVE clone[c] = "new"
      BY <1>2, <3>3, RequeueFrame DEF TypeOK
    <3> QED
      BY <1>2, <3>2, <3>3
  <2>2. c \in Jobs /\ Nowhere(c)
    BY <2>1, JobAssumption DEF DeliveryInv, Started
  <2> QED
    BY <1>2, <2>2, NowhereStays, EnqueuedFact
<1>3. ASSUME NEW j \in Jobs, status'[j] = "none"
      PROVE  attempts'[j] = 0 /\ outputs'[j] = 0
  <2>1. ~HasRow(j)
    BY <1>3, RowsFrame DEF AdmissionInv
  <2>2. attempts[j] = 0 /\ outputs[j] = 0
    BY <2>1 DEF DeliveryInv, Started
  <2>3. ASSUME NEW w \in Workers, ClaimCommit(w) \/ FinishCommit(w), worker[w].job = j PROVE FALSE
    BY <2>1, <2>3 DEF ClaimCommit, FinishCommit, AdmissionInv, ActedOnHasRow
  <2> QED
    BY <2>2, <2>3, CountFrame
<1> QED
  BY <1>1, <1>2, <1>3 DEF Started, HasRow, Nowhere

LEMMA EndedNext ==
  ASSUME TypeOK, AdmissionInv, DeliveryInv, redeliveries = 0, redeliveries' = 0,
         [Next]_vars, NEW j \in Jobs
  PROVE  Ended(j)'
<1>0. Ended(j) /\ OnePlace(j) /\ None # j
  BY JobAssumption DEF DeliveryInv
<1>1. ASSUME NEW w \in Workers, FinishCommit(w), worker[w].job = j PROVE Nowhere(j)' /\ outputs[j] = 0
  <2>1. Becomes(w, Idle) /\ queue' = queue /\ scheduled' = scheduled
    BY <1>1 DEF FinishCommit, queueVars
  <2>2. worker'[w] = Idle /\ \A v \in Workers \ {w} : worker'[v] = worker[v]
    BY <2>1, BecomesFact
  <2>3. queue[j] = 0 /\ j \notin scheduled /\ \A v \in Workers \ {w} : worker[v].job # j
    BY <1>0, <1>1 DEF OnePlace
  <2>4. Nowhere(j)'
    BY <1>0, <2>1, <2>2, <2>3 DEF Nowhere, Idle
  <2> QED
    BY <1>0, <1>1, <2>4 DEF Ended, Nowhere
<1>2. outputs'[j] \in {0, 1}
  BY <1>0, <1>1, CountFrame DEF Ended
<1>3. ASSUME outputs'[j] = 1 \/ status'[j] \in {"completed", "failed"} PROVE Nowhere(j)'
  <2>1. CASE \E w \in Workers : FinishCommit(w) /\ worker[w].job = j
    BY <1>1, <2>1
  <2>2. CASE ~ \E w \in Workers : FinishCommit(w) /\ worker[w].job = j
    <3>1. outputs'[j] = outputs[j]
      BY <2>2, CountFrame
    <3>2. status'[j] \in {"completed", "failed"} => status'[j] = status[j]
      BY <2>2, StatusFrame
    <3>3. Nowhere(j) /\ (outputs[j] = 1 \/ status[j] \in {"completed", "failed"})
      BY <1>0, <1>3, <3>1, <3>2 DEF Ended
    <3>4. ~Enqueued(j)
      <4>1. ~HasRow(j) => outputs[j] = 0
        BY DEF DeliveryInv, Started
      <4> QED
        BY <3>3, <4>1, EnqueuedFact DEF HasRow
    <3> QED
      BY <3>3, <3>4, NowhereStays
  <2> QED
    BY <2>1, <2>2
<1> QED
  BY <1>2, <1>3 DEF Ended, Nowhere

LEMMA ClaimsLeftNext ==
  ASSUME TypeOK, AdmissionInv, DeliveryInv, redeliveries = 0, redeliveries' = 0,
         [Next]_vars, NEW j \in Jobs
  PROVE  ClaimsLeft(j)'
<1>0. /\ ClaimsLeft(j) /\ OnePlace(j) /\ None # j
      /\ attempts[j] \in Nat /\ MaxRetries \in Nat \ {0} /\ queue[j] \in Nat /\ queue'[j] \in Nat
      /\ \A w \in Workers : worker[w].attempts \in Nat
  BY JobAssumption, BoundAssumption, QueueTypeNext DEF DeliveryInv, TypeOK, WorkerState
<1>1. ASSUME NEW w \in Workers, WorkerAction(w), ClaimCommit(w), worker[w].job = j,
             attempts'[j] = worker[w].attempts + 1
      PROVE  ClaimsLeft(j)'
  <2>1. /\ worker[w].pc = "claim" /\ attempts[j] < MaxRetries /\ worker[w].attempts = attempts[j]
        /\ UNCHANGED <<queue, scheduled>>
    BY <1>0, <1>1 DEF ClaimCommit, ClaimsLeft, queueVars
  <2>2. queue[j] = 0 /\ j \notin scheduled /\ \A v \in Workers \ {w} : worker[v].job # j
    BY <1>0, <1>1 DEF OnePlace
  <2>3. /\ \A v \in Workers \ {w} : worker'[v] = worker[v]
        /\ \/ worker'[w] = Idle
           \/ worker'[w].pc = "load" /\ worker'[w].attempts = attempts'[j]
    BY <1>1, <2>1, WorkerShape DEF RunsOn
  <2>4. \A v \in Workers : worker'[v].job = j
          => v = w /\ worker'[v].pc = "load" /\ worker'[v].attempts = attempts'[j]
    BY <1>0, <2>2, <2>3 DEF Idle
  <2>5. attempts'[j] <= MaxRetries
    BY <1>0, <1>1, <2>1
  <2> QED
    BY <2>1, <2>2, <2>4, <2>5 DEF ClaimsLeft
<1>2. CASE attempts'[j] = attempts[j]
  <2>1. queue'[j] > 0 \/ j \in scheduled' => attempts[j] < MaxRetries
    <3>1. CASE NoNewPlace(j)
      BY <1>0, <3>1 DEF NoNewPlace, ClaimsLeft
    <3>2. CASE Enqueued(j)
      <4>1. attempts[j] = 0
        BY <3>2, EnqueuedFact DEF DeliveryInv, Started
      <4> QED
        BY <1>0, <4>1
    <3>3. ASSUME NEW w \in Workers, PutBack(w, j) PROVE attempts[j] < MaxRetries
      BY <1>0, <3>3 DEF PutBack, ClaimsLeft
    <3>4. CASE Promoted(j)
      BY <1>0, <3>4 DEF Promoted, ClaimsLeft
    <3>5. ASSUME NEW w \in Workers, Fetch(w, j) PROVE attempts[j] < MaxRetries
      BY <1>0, <3>5 DEF Fetch, ClaimsLeft
    <3> QED
      BY <3>1, <3>2, <3>3, <3>4, <3>5, PlaceFrame
  <2>2. ASSUME NEW w \in Workers, worker'[w].job = j
        PROVE  /\ worker'[w].pc \in {"fetched", "claim", "retryRead", "retryCommit", "retryEnqueue"}
                    => attempts[j] < MaxRetries
               /\ worker'[w].pc \in {"claim", "load", "stage"} => worker'[w].attempts = attempts'[j]
    <3>1. CASE worker'[w] = worker[w]
      BY <1>0, <1>2, <2>2, <3>1 DEF ClaimsLeft
    <3>2. ASSUME WorkerAction(w), worker'[w] # worker[w]
          PROVE  /\ worker'[w].pc \in {"fetched", "claim", "retryRead", "retryCommit", "retryEnqueue"}
                    => attempts[j] < MaxRetries
                 /\ worker'[w].pc \in {"claim", "load", "stage"}
                    => worker'[w].attempts = attempts'[j]
      <4>1. worker[w].job = j /\ RunsOn(w, worker[w], worker'[w])
        BY <1>0, <2>2, <3>2, WorkerShape DEF Idle
      <4>2. CASE ClaimCommit(w)
        <5>1. attempts' = [attempts EXCEPT ![j] = worker[w].attempts + 1]
              /\ worker[w].attempts = attempts[j]
          BY <1>0, <4>1, <4>2 DEF ClaimCommit, ClaimsLeft
        <5>2. attempts'[j] = attempts[j] + 1
          BY <5>1 DEF TypeOK
        <5> QED
          BY <1>0, <1>2, <5>2
      <4>3. CASE ~ClaimCommit(w)
        <5>1. \/ /\ worker[w].pc = "fetched" /\ worker'[w].pc = "claim"
                 /\ worker'[w].attempts = attempts[j]
              \/ worker[w].pc = "load" /\ worker'[w].pc = "stage"
                 /\ worker'[w].attempts = worker[w].attempts
              \/ /\ worker[w].pc = "stage" /\ worker'[w].pc \in {"stage", "finish", "retryRead"}
                 /\ worker'[w].attempts = worker[w].attempts
                 /\ worker'[w].pc = "retryRead" => worker[w].attempts < MaxRetries
              \/ worker[w].pc = "retryRead" /\ worker'[w].pc = "retryCommit"
              \/ worker[w].pc = "retryCommit" /\ worker'[w].pc = "retryEnqueue"
              \/ worker'[w].pc \in {"persist", "check", "commit"}
          BY <4>1, <4>3 DEF RunsOn
        <5> QED
          BY <1>0, <1>2, <4>1, <5>1 DEF ClaimsLeft
      <4> QED
        BY <4>2, <4>3
    <3>3. ASSUME NEW i \in Jobs, Fetch(w, i)
          PROVE  worker'[w].pc = "fetched" /\ attempts[j] < MaxRetries
      <4>1. i = j /\ worker'[w].pc = "fetched" /\ queue[j] > 0
        BY <2>2, <3>3, FetchShape DEF Fetch
      <4> QED
        BY <1>0, <4>1 DEF ClaimsLeft
    <3>4. worker'[w] = worker[w] \/ WorkerAction(w) \/ \E i \in Jobs : Fetch(w, i)
      <4>1. UNCHANGED vars => UNCHANGED worker
        BY DEF vars
      <4> QED
        BY <4>1, NextSplit, SubmitFrame, RequeueFrame, CancelFrame, QueueFrame, WorkerShape,
           FetchShape
    <3> QED
      BY <3>1, <3>2, <3>3, <3>4
  <2> QED
    BY <1>0, <1>2, <2>1, <2>2 DEF ClaimsLeft
<1> QED
  BY <1>1, <1>2, CountFrame

LEMMA DeliveryNext ==
  ASSUME TypeOK, AdmissionInv, DeliveryInv, redeliveries = 0, redeliveries' = 0, [Next]_vars
  PROVE  DeliveryInv'
  BY StartedNext, OnePlaceNext, EndedNext, ClaimsLeftNext DEF DeliveryInv

LEMMA DeliveryInit == Init => DeliveryInv
<1> SUFFICES ASSUME Init PROVE DeliveryInv
  OBVIOUS
<1>1. \A w \in Workers : worker[w] = Idle /\ worker[w].job = None
  BY DEF Init, Idle
<1>2. \A j \in Jobs : /\ Nowhere(j) /\ attempts[j] = 0 /\ outputs[j] = 0 /\ status[j] = "none"
  BY <1>1, JobAssumption DEF Init, Nowhere
<1>3. \A j \in Jobs : OnePlace(j) /\ Ended(j) /\ ClaimsLeft(j)
  BY <1>2, BoundAssumption DEF Nowhere, OnePlace, Ended, ClaimsLeft
<1>4. Started
  <2>1. \A r \in Requests : Ahead(r) \subseteq Jobs
    BY MintedFact DEF Ahead, Minted
  <2> QED
    BY <1>2, <2>1, JobAssumption DEF Started
<1> QED
  BY <1>3, <1>4 DEF DeliveryInv

LEMMA DeliveryAlways == Spec => [](redeliveries = 0 => DeliveryInv)
<1>1. TypeOK /\ AdmissionInv /\ (redeliveries = 0 => DeliveryInv) /\ [Next]_vars
        => (redeliveries = 0 => DeliveryInv)'
  BY NoReenqueueYet, DeliveryNext
<1>2. Init => (redeliveries = 0 => DeliveryInv)
  BY DeliveryInit
<1> QED
  BY <1>1, <1>2, AdmissionAlways, TypeCorrect, PTL DEF Spec

\* Until an operator re-enqueues one, a job is in one place only: on the queue, scheduled for
\* a retry, or with one worker; its outputs are recorded once; and it is claimed at most
\* MaxRetries times.
THEOREM OneDeliveryCorrect == Spec => []OneDelivery
<1>1. TypeOK /\ (redeliveries = 0 => DeliveryInv) => OneDelivery
  <2> SUFFICES ASSUME TypeOK, redeliveries = 0, DeliveryInv, NEW j \in Jobs
               PROVE  Deliveries(j) <= 1 /\ outputs[j] <= 1
    BY DEF OneDelivery, DeliveryInv, ClaimsLeft
  <2> DEFINE H == {w \in Workers : worker[w].job = j}
  <2>1. OnePlace(j) /\ outputs[j] \in {0, 1}
    BY DEF DeliveryInv, Ended
  <2>2. Deliveries(j) = queue[j] + (IF j \in scheduled THEN 1 ELSE 0) + Cardinality(H)
    BY DEF Deliveries
  <2>3. CASE H = {}
    <3>1. Cardinality(H) = 0
      BY <2>3, FS_EmptySet
    <3> HIDE DEF H
    <3> QED
      BY <2>1, <2>2, <3>1 DEF OnePlace
  <2>4. CASE H # {}
    <3>1. PICK w \in Workers : worker[w].job = j /\ H = {w}
      BY <2>1, <2>4 DEF OnePlace
    <3>2. queue[j] = 0 /\ j \notin scheduled
      BY <2>1, <3>1 DEF OnePlace
    <3> HIDE DEF H
    <3>3. Cardinality(H) = 1
      BY <3>1, FS_Singleton
    <3> QED
      BY <2>1, <2>2, <3>2, <3>3
  <2> QED
    BY <2>3, <2>4
<1> QED
  BY <1>1, DeliveryAlways, TypeCorrect, PTL

\* A job that completed or failed is never queued or run again.
THEOREM FinishedNeverRunsCorrect == Spec => FinishedNeverRuns
<1> DEFINE Finished == \A j \in Jobs : /\ redeliveries = 0
                                       /\ status[j] \in {"completed", "failed"}
                                       => status'[j] \notin {"queued", "running"}
<1>1. /\ TypeOK /\ AdmissionInv /\ (redeliveries = 0 => DeliveryInv) /\ [Next]_vars
      => [Finished]_status
  <2> SUFFICES ASSUME TypeOK, AdmissionInv, DeliveryInv, redeliveries = 0, [Next]_vars,
                      NEW j \in Jobs, status[j] \in {"completed", "failed"},
                      status'[j] \in {"queued", "running"}
               PROVE  FALSE
    OBVIOUS
  <2>1. HasRow(j) /\ Nowhere(j)
    BY DEF HasRow, DeliveryInv, Ended
  <2>2. Starts(j)
    <3>1. \A w \in Workers : worker[w].outcome \in Terminal
      BY DEF TypeOK, WorkerState
    <3> QED
      BY <3>1, StatusFrame DEF Terminal
  <2>3. ASSUME NEW r \in Requests, SubmitCommit(r), j \in request[r].inserted PROVE FALSE
    BY <2>1, <2>3 DEF AdmissionInv, PendingHasNoRow, RowWithKey, HasRow
  <2>4. ASSUME NEW c \in Clones, RequeueCommit(c), c = j PROVE FALSE
    BY <2>1, <2>4 DEF AdmissionInv, PendingHasNoRow, RequeueCommit
  <2>5. ~ \E w \in Workers : worker[w].job = j
    BY <2>1 DEF Nowhere
  <2> QED
    BY <2>2, <2>3, <2>4, <2>5 DEF Starts
<1> QED
  BY <1>1, AdmissionAlways, DeliveryAlways, TypeCorrect, PTL DEF Spec, FinishedNeverRuns

-----------------------------------------------------------------------------
(* What is held.  Every commit that settles a hold takes its job off the   *)
(* outstanding ones, and takes no more off held than the job costs.        *)

Unsettled(u) == {j \in NewJobs : Owner[j] = u /\ HasRow(j) /\ ~Debited(j) /\ ~Refunded(j)}

\* A debit or a refund is that of a job with a row.
SettledHasRow ==
    \A t \in txns : t.type \in {"debit", "refund"} =>
        \E j \in Jobs : HasRow(j) /\ Owner[j] = t.user /\ KeyOf[j] = t.key

\* What an open submit has reserved is what its holds cost.
ReservedIsPosted ==
    \A r \in Requests : request[r].reserved = SumFunctionOnSet(Cost, request[r].posted)

RowsFinite == IsFiniteSet({j \in NewJobs : HasRow(j)})

RowsInv == SettledHasRow /\ ReservedIsPosted /\ RowsFinite

LEMMA SettledHasRowNext ==
  ASSUME TypeOK, AdmissionInv, SettledHasRow, [Next]_vars
  PROVE  SettledHasRow'
<1> SUFFICES ASSUME NEW t \in txns', t.type \in {"debit", "refund"}
             PROVE  \E j \in Jobs : status'[j] # "none" /\ Owner[j] = t.user /\ KeyOf[j] = t.key
  BY DEF SettledHasRow, HasRow
<1>1. \E j \in Jobs : HasRow(j) /\ Owner[j] = t.user /\ KeyOf[j] = t.key
  <2>1. CASE t \in txns
    BY <2>1 DEF SettledHasRow
  <2>2. ASSUME NEW w \in Workers, FinishCommit(w)
        PROVE  worker[w].job \in Jobs /\ HasRow(worker[w].job)
    BY <2>2 DEF FinishCommit, TypeOK, InHand, AdmissionInv, ActedOnHasRow
  <2>3. ASSUME NEW c \in Cancels, CancelCommit(c)
        PROVE  cancel[c].job \in Jobs /\ HasRow(cancel[c].job)
    BY <2>3 DEF CancelCommit, TypeOK, InHand, AdmissionInv, ActedOnHasRow
  <2> QED
    BY <2>1, <2>2, <2>3, NewSettlement
<1>2. PICK j \in Jobs : HasRow(j) /\ Owner[j] = t.user /\ KeyOf[j] = t.key
  BY <1>1
<1> QED
  BY <1>2, RowsFrame DEF AdmissionInv

LEMMA ReservedIsPostedNext ==
  ASSUME TypeOK, AdmissionInv, BalanceInv, ReservedIsPosted, [Next]_vars
  PROVE  ReservedIsPosted'
<1> SUFFICES ASSUME NEW r \in Requests
             PROVE  request'[r].reserved = SumFunctionOnSet(Cost, request'[r].posted)
  BY DEF ReservedIsPosted
<1>0. request[r].reserved = SumFunctionOnSet(Cost, request[r].posted)
  BY DEF ReservedIsPosted
<1>1. CASE request'[r].posted = request[r].posted /\ request'[r].reserved = request[r].reserved
  BY <1>0, <1>1
<1>2. CASE request'[r].posted = {} /\ request'[r].reserved = 0
  BY <1>2, SumOfNone
<1>3. CASE /\ request[r].pc = "lockHold"
           /\ request'[r].posted = request[r].posted \cup {Item(r)}
           /\ request'[r].reserved = request[r].reserved + Cost[Item(r)]
  <2>1. Item(r) \in Ahead(r) /\ Item(r) \in NewJobs
    BY <1>3, ItemAhead, ItemFact DEF Working
  <2>2. Item(r) \notin request[r].posted
    BY <1>3, <2>1 DEF AdmissionInv, Flushed, FlushedOwn
  <2>3. IsFiniteSet(request[r].posted) /\ \A j \in request[r].posted \cup {Item(r)} : Cost[j] \in Int
    BY <2>1, JobAssumption DEF BalanceInv, TypeOK, RequestState, NewJobs
  <2>4. SumFunctionOnSet(Cost, request[r].posted \cup {Item(r)})
          = SumFunctionOnSet(Cost, request[r].posted) + Cost[Item(r)]
    BY <2>2, <2>3, SumWith
  <2> QED
    BY <1>0, <1>3, <2>4
<1>4. CASE request'[r] # request[r]
  <2>1. SubmitStep(r)
    BY <1>4, RequestFrame, SubmitShape
  <2> QED
    BY <2>1, <1>1, <1>2, <1>3, SubmitShape DEF SameFlushed
<1> QED
  BY <1>1, <1>4

LEMMA RowsFiniteNext ==
  ASSUME TypeOK, AdmissionInv, BalanceInv, RowsFinite, [Next]_vars
  PROVE  RowsFinite'
<1> DEFINE R == {j \in NewJobs : HasRow(j)}
           S == {j \in NewJobs : status'[j] # "none"}
<1>1. CASE \E r \in Requests : SubmitCommit(r)
  <2>1. PICK r \in Requests : SubmitCommit(r)
    BY <1>1
  <2>2. IsFiniteSet(request[r].inserted)
    BY <2>1 DEF BalanceInv, SubmitCommit, AdmissionInv, Flushed, FlushedOwn
  <2>3. S \subseteq R \cup request[r].inserted
    BY <2>1 DEF SubmitCommit, NewJobs, HasRow
  <2>4. IsFiniteSet(R \cup request[r].inserted)
    BY <2>2, FS_Union DEF RowsFinite
  <2>5. IsFiniteSet(S)
    <3> HIDE DEF R, S
    <3> QED
      BY <2>3, <2>4, FS_Subset
  <2> QED
    BY <2>5 DEF RowsFinite, HasRow
<1>2. CASE ~ \E r \in Requests : SubmitCommit(r)
  <2>1. S \subseteq R
    BY <1>2, NewRow DEF NewJobs
  <2>2. IsFiniteSet(R)
    BY DEF RowsFinite
  <2>3. IsFiniteSet(S)
    <3> HIDE DEF R, S
    <3> QED
      BY <2>1, <2>2, FS_Subset
  <2> QED
    BY <2>3 DEF RowsFinite, HasRow
<1> QED
  BY <1>1, <1>2

LEMMA RowsInit == Init => RowsInv
<1> SUFFICES ASSUME Init PROVE RowsInv
  OBVIOUS
<1>1. SettledHasRow
  BY DEF Init, LedgerInit, Row, SettledHasRow
<1>2. ReservedIsPosted
  <2>1. \A r \in Requests : request[r].posted = {} /\ request[r].reserved = 0
    BY DEF Init
  <2> QED
    BY <2>1, SumOfNone DEF ReservedIsPosted
<1>3. RowsFinite
  <2>1. {j \in NewJobs : HasRow(j)} = {}
    BY DEF Init, HasRow, NewJobs
  <2> QED
    BY <2>1, FS_EmptySet DEF RowsFinite
<1> QED
  BY <1>1, <1>2, <1>3 DEF RowsInv

LEMMA RowsAlways == Spec => []RowsInv
<1>1. TypeOK /\ AdmissionInv /\ BalanceInv /\ RowsInv /\ [Next]_vars => RowsInv'
  BY SettledHasRowNext, ReservedIsPostedNext, RowsFiniteNext DEF RowsInv
<1> QED
  BY <1>1, RowsInit, AdmissionAlways, BalanceAlways, TypeCorrect, PTL DEF Spec

-----------------------------------------------------------------------------
\* The commit of a run or of a cancel that posts its ledger row.
Settles(j) ==
    \/ \E w \in Workers : FinishCommit(w) /\ worker[w].post /\ worker[w].job = j
    \/ \E c \in Cancels : CancelCommit(c) /\ cancel[c].post /\ cancel[c].job = j

LEMMA UnsettledFinite ==
  ASSUME RowsInv, NEW u
  PROVE  IsFiniteSet(Unsettled(u)) /\ Unsettled(u) \subseteq Jobs
<1>1. Unsettled(u) \subseteq {j \in NewJobs : HasRow(j)}
  BY DEF Unsettled
<1> QED
  BY <1>1, FS_Subset DEF RowsInv, RowsFinite, Unsettled, NewJobs

LEMMA OutstandingFact ==
  ASSUME RowsInv, NEW u
  PROVE  Outstanding(u) = SumFunctionOnSet(Cost, Unsettled(u)) /\ Outstanding(u) \in Nat
<1>1. \A j \in Unsettled(u) : Cost[j] \in Nat
  BY UnsettledFinite, JobAssumption
<1>2. Outstanding(u) = SumFunctionOnSet(Cost, Unsettled(u))
  BY DEF Outstanding, Unsettled
<1> QED
  BY <1>1, <1>2, UnsettledFinite, SumOfNaturals

LEMMA OutstandingNext ==
  ASSUME NEW u
  PROVE  Outstanding(u)' = SumFunctionOnSet(Cost, Unsettled(u)')
  BY DEF Outstanding, Unsettled

\* A hold is added to what is outstanding in the commit that makes its row.
LEMMA CommitOutstanding ==
  ASSUME TypeOK, AdmissionInv, BalanceInv, RowsInv, [Next]_vars,
         NEW r \in Requests, SubmitCommit(r)
  PROVE  \A u \in Users : Outstanding(u)'
           = Outstanding(u) + (IF u = Requester[r] THEN request[r].reserved ELSE 0)
<1> DEFINE I == request[r].inserted
<1>1. /\ request[r].posted = I /\ IsFiniteSet(I)
      /\ request[r].reserved = SumFunctionOnSet(Cost, I)
  BY DEF SubmitCommit, AdmissionInv, Flushed, FlushedOwn, BalanceInv, RowsInv, ReservedIsPosted
<1>2. \A j \in I : j \in NewJobs /\ j \in Jobs /\ Owner[j] = Requester[r] /\ Cost[j] \in Nat
  BY MintedFact, JobAssumption DEF AdmissionInv, Flushed, FlushedOwn
<1>3. \A j \in NewJobs : status'[j] # "none" <=> HasRow(j) \/ j \in I
  BY DEF SubmitCommit, HasRow, NewJobs
<1>4. \A u, k : \A ty \in {"debit", "refund"} : Posted(u, ty, k)' <=> Posted(u, ty, k)
  BY DEF SubmitCommit, CommitHolds, Row, Posted
<1>5. \A j \in I : ~HasRow(j) /\ ~Debited(j) /\ ~Refunded(j)
  <2> SUFFICES ASSUME NEW j \in I, HasRow(j) \/ Debited(j) \/ Refunded(j) PROVE FALSE
    OBVIOUS
  <2>1. RowWithKey(KeyOf[j])
    BY <1>2 DEF Debited, Refunded, Posted, RowsInv, SettledHasRow, RowWithKey, HasRow
  <2> QED
    BY <2>1 DEF AdmissionInv, PendingHasNoRow
<1>6. ASSUME NEW u \in Users
      PROVE  Outstanding(u)' = Outstanding(u) + (IF u = Requester[r] THEN request[r].reserved ELSE 0)
  <2>1. Unsettled(u)' = IF u = Requester[r] THEN Unsettled(u) \cup I ELSE Unsettled(u)
    <3>1. \A j \in NewJobs : (Debited(j)' <=> Debited(j)) /\ (Refunded(j)' <=> Refunded(j))
      BY <1>4 DEF Debited, Refunded
    <3>2. \A j \in NewJobs : HasRow(j)' <=> HasRow(j) \/ j \in I
      BY <1>3 DEF HasRow
    <3>3. Unsettled(u)' = {j \in NewJobs : /\ Owner[j] = u /\ (HasRow(j) \/ j \in I)
                                           /\ ~Debited(j) /\ ~Refunded(j)}
      BY <3>1, <3>2 DEF Unsettled
    <3> DEFINE N == {j \in NewJobs : /\ Owner[j] = u /\ (HasRow(j) \/ j \in I)
                                     /\ ~Debited(j) /\ ~Refunded(j)}
    <3>4. CASE u = Requester[r]
      <4>1. \A j \in I : j \in NewJobs /\ Owner[j] = u /\ ~Debited(j) /\ ~Refunded(j)
        BY <1>2, <1>5, <3>4
      <4>2. N = Unsettled(u) \cup I
        <5> HIDE DEF I
        <5> QED
          BY <4>1 DEF Unsettled
      <4> QED
        BY <3>3, <3>4, <4>2
    <3>5. CASE u # Requester[r]
      <4>1. \A j \in I : Owner[j] # u
        BY <1>2, <3>5
      <4>2. N = Unsettled(u)
        <5> HIDE DEF I
        <5> QED
          BY <4>1 DEF Unsettled
      <4> QED
        BY <3>3, <3>5, <4>2
    <3> QED
      BY <3>4, <3>5
  <2>2. Unsettled(u) \cap I = {} /\ \A j \in Unsettled(u) \cup I : Cost[j] \in Int
    <3>1. Unsettled(u) \cap I = {}
      BY <1>5 DEF Unsettled
    <3>2. \A j \in Unsettled(u) : Cost[j] \in Int
      BY UnsettledFinite, JobAssumption
    <3> HIDE DEF I
    <3> QED
      BY <1>2, <3>1, <3>2
  <2> HIDE DEF I
  <2>3. CASE u = Requester[r]
    <3>1. SumFunctionOnSet(Cost, Unsettled(u) \cup I)
            = SumFunctionOnSet(Cost, Unsettled(u)) + SumFunctionOnSet(Cost, I)
      BY <1>1, <2>2, UnsettledFinite, SumOfUnion
    <3>2. Unsettled(u)' = Unsettled(u) \cup I
      BY <2>1, <2>3
    <3> QED
      BY <1>1, <2>3, <3>1, <3>2, OutstandingNext, OutstandingFact
  <2>4. CASE u # Requester[r]
    <3>1. Unsettled(u)' = Unsettled(u)
      BY <2>1, <2>4
    <3>2. Outstanding(u)' = Outstanding(u)
      BY <3>1, OutstandingNext, OutstandingFact
    <3> QED
      BY <2>4, <3>2, OutstandingFact
  <2> QED
    BY <2>3, <2>4
<1> QED
  BY <1>6

\* The job of a debit or of a refund is taken off what is outstanding, once.
LEMMA SettleOutstanding ==
  ASSUME TypeOK, AdmissionInv, RowsInv, [Next]_vars, NEW j \in Jobs, HasRow(j),
         \A i \in NewJobs : status'[i] # "none" <=> HasRow(i),
         NEW t, t.type \in {"debit", "refund"}, t.user = Owner[j], t.key = KeyOf[j],
         txns' = txns \cup {t}
  PROVE  /\ \A u \in Users : u # Owner[j] => Outstanding(u)' = Outstanding(u)
         /\ j \in Unsettled(Owner[j])
              => Outstanding(Owner[j])' = Outstanding(Owner[j]) - Cost[j]
                 /\ Cost[j] <= Outstanding(Owner[j])
         /\ j \notin Unsettled(Owner[j]) => Outstanding(Owner[j])' = Outstanding(Owner[j])
<1>1. \A i \in NewJobs : HasRow(i) /\ (Debited(i)' \/ Refunded(i)')
                         <=> HasRow(i) /\ (Debited(i) \/ Refunded(i) \/ i = j)
  <2>1. \A i \in NewJobs : HasRow(i) /\ KeyOf[i] = KeyOf[j] => i = j
    BY DEF AdmissionInv, OneJobPerKey, NewJobs
  <2> QED
    BY <2>1 DEF Debited, Refunded, Posted
<1>2. \A u : Unsettled(u)' = Unsettled(u) \ {j}
  BY <1>1 DEF Unsettled, HasRow, NewJobs
<1>3. ASSUME NEW u, j \notin Unsettled(u) PROVE Outstanding(u)' = Outstanding(u)
  <2>1. Unsettled(u)' = Unsettled(u)
    BY <1>2, <1>3
  <2> QED
    BY <2>1, OutstandingNext, OutstandingFact
<1>4. \A u : u # Owner[j] => j \notin Unsettled(u)
  BY DEF Unsettled
<1>5. ASSUME j \in Unsettled(Owner[j])
      PROVE  Outstanding(Owner[j])' = Outstanding(Owner[j]) - Cost[j]
             /\ Cost[j] <= Outstanding(Owner[j])
  <2> DEFINE U == Unsettled(Owner[j])
  <2>1. IsFiniteSet(U) /\ \A i \in U : Cost[i] \in Nat /\ Cost[i] \in Int
    BY UnsettledFinite, JobAssumption
  <2>2. IsFiniteSet(U \ {j}) /\ \A i \in U \ {j} : Cost[i] \in Nat
    BY <2>1, FS_Subset
  <2>3. SumFunctionOnSet(Cost, U \ {j}) \in Nat
    BY <2>2, SumOfNaturals
  <2>4. SumFunctionOnSet(Cost, U) = Cost[j] + SumFunctionOnSet(Cost, U \ {j})
    BY <1>5, <2>1, SumWithout
  <2>5. Outstanding(Owner[j])' = SumFunctionOnSet(Cost, U \ {j})
    BY <1>2, OutstandingNext
  <2>6. Outstanding(Owner[j]) = SumFunctionOnSet(Cost, U)
    BY OutstandingFact
  <2>7. Cost[j] \in Nat
    BY JobAssumption
  <2> QED
    BY <2>3, <2>4, <2>5, <2>6, <2>7
<1> QED
  BY <1>3, <1>4, <1>5

\* What a settlement of j takes off held, and off what is outstanding.
Released(j) ==
    LET u == Owner[j]
    IN  /\ \A v \in Users : v # u => held'[v] = held[v] /\ Outstanding(v)' = Outstanding(v)
        /\ held'[u] = ClampedSub(held[u], Cost[j])
        /\ j \in Unsettled(u) => /\ Outstanding(u)' = Outstanding(u) - Cost[j]
                                 /\ Cost[j] <= Outstanding(u)
        /\ j \notin Unsettled(u) => Outstanding(u)' = Outstanding(u)

LEMMA SettledRelease ==
  ASSUME TypeOK, AdmissionInv, RowsInv, [Next]_vars, NEW j \in Jobs, HasRow(j),
         \A i \in NewJobs : status'[i] # "none" <=> HasRow(i),
         \/ Debit(Owner[j], KeyOf[j], Cost[j])
         \/ RefundHold(Owner[j], KeyOf[j], Cost[j])
  PROVE  Released(j)
<1>1. PICK t : /\ t.type \in {"debit", "refund"} /\ t.user = Owner[j] /\ t.key = KeyOf[j]
               /\ txns' = txns \cup {t}
  BY DEF Debit, RefundHold, Row
<1>2. held' = [held EXCEPT ![Owner[j]] = ClampedSub(held[Owner[j]], Cost[j])]
  BY DEF Debit, RefundHold
<1>3. held \in [Users -> Nat] /\ Owner[j] \in Users
  BY JobAssumption DEF TypeOK, LedgerTypeOK
<1>4. /\ held'[Owner[j]] = ClampedSub(held[Owner[j]], Cost[j])
      /\ \A v \in Users : v # Owner[j] => held'[v] = held[v]
  BY <1>2, <1>3
<1> QED
  BY <1>1, <1>4, SettleOutstanding DEF Released

\* Which steps move what is held, or what is outstanding.
LEMMA HeldFrame ==
  ASSUME TypeOK, AdmissionInv, BalanceInv, RowsInv, [Next]_vars
  PROVE  \/ held' = held /\ \A u \in Users : Outstanding(u)' = Outstanding(u)
         \/ \E r \in Requests : \A u \in Users :
              LET n == IF u = Requester[r] THEN request[r].reserved ELSE 0
              IN  SubmitCommit(r) /\ held'[u] = held[u] + n
                  /\ Outstanding(u)' = Outstanding(u) + n
         \/ \E j \in Jobs : Settles(j) /\ HasRow(j) /\ Released(j)
<1> DEFINE Same == held' = held /\ \A u \in Users : Outstanding(u)' = Outstanding(u)
           Frees == \E j \in Jobs : Settles(j) /\ HasRow(j) /\ Released(j)
<1>0. status \in [Jobs -> JobStatus] /\ held \in [Users -> Nat]
  BY DEF TypeOK, LedgerTypeOK
<1>1. ASSUME held' = held, txns' = txns, ~ \E r \in Requests : SubmitCommit(r)
      PROVE  Same
  <2>1. \A i \in NewJobs : status'[i] # "none" <=> HasRow(i)
    BY <1>1, RowsFrame, NewRow DEF AdmissionInv, NewJobs
  <2>2. \A u : Unsettled(u)' = Unsettled(u)
    BY <1>1, <2>1 DEF Unsettled, HasRow, Debited, Refunded, Posted
  <2> QED
    BY <1>1, <2>2, OutstandingNext, OutstandingFact
<1>2. ASSUME NEW r \in Requests, SubmitCommit(r), NEW u \in Users
      PROVE  LET n == IF u = Requester[r] THEN request[r].reserved ELSE 0
             IN  held'[u] = held[u] + n /\ Outstanding(u)' = Outstanding(u) + n
  <2>1. held' = [held EXCEPT ![Requester[r]] = held[Requester[r]] + request[r].reserved]
    BY <1>2 DEF SubmitCommit, CommitHolds
  <2>2. held'[u] = held[u] + (IF u = Requester[r] THEN request[r].reserved ELSE 0)
    BY <1>0, <2>1
  <2> QED
    BY <1>2, <2>2, CommitOutstanding
<1>3. ASSUME NEW j \in Jobs, HasRow(j), NEW new, new # "none",
             status' = [status EXCEPT ![j] = new]
      PROVE  \A i \in NewJobs : status'[i] # "none" <=> HasRow(i)
  BY <1>0, <1>3 DEF HasRow, NewJobs
<1>4. ASSUME NEW c \in Cancels, CancelCommit(c) PROVE Same \/ Frees
  <2> DEFINE j == cancel[c].job
  <2>1. j \in Jobs /\ HasRow(j) /\ status' = [status EXCEPT ![j] = "cancelled"]
    BY <1>4 DEF CancelCommit, TypeOK, InHand, AdmissionInv, ActedOnHasRow
  <2>2. CASE cancel[c].post
    <3>1. RefundHold(Owner[j], KeyOf[j], Cost[j])
      BY <1>4, <2>2 DEF CancelCommit
    <3>2. Released(j)
      BY <1>3, <2>1, <3>1, SettledRelease
    <3>3. Settles(j)
      BY <1>4, <2>2 DEF Settles
    <3> QED
      BY <2>1, <3>2, <3>3
  <2>3. CASE ~cancel[c].post
    <3>1. txns' = txns /\ held' = held
      BY <1>4, <2>3 DEF CancelCommit, ledgerVars
    <3>2. \A i \in NewJobs : status'[i] # "none" <=> HasRow(i)
      BY <1>3, <2>1
    <3>3. \A u : Unsettled(u)' = Unsettled(u)
      BY <3>1, <3>2 DEF Unsettled, HasRow, Debited, Refunded, Posted
    <3> QED
      BY <3>1, <3>3, OutstandingNext, OutstandingFact
  <2> QED
    BY <2>2, <2>3
<1>5. ASSUME NEW w \in Workers, FinishCommit(w) PROVE Same \/ Frees
  <2> DEFINE j == worker[w].job
             new == Written(j, worker[w].seen, worker[w].outcome)
  <2>1. j \in Jobs /\ HasRow(j) /\ status' = [status EXCEPT ![j] = new]
    BY <1>5 DEF FinishCommit, TypeOK, InHand, AdmissionInv, ActedOnHasRow
  <2>2. new # "none"
    BY <2>1 DEF Written, HasRow, TypeOK, WorkerState, Terminal
  <2>3. \A i \in NewJobs : status'[i] # "none" <=> HasRow(i)
    <3> HIDE DEF new
    <3> QED
      BY <1>3, <2>1, <2>2
  <2>4. CASE worker[w].post
    <3>1. \/ Debit(Owner[j], KeyOf[j], Cost[j])
          \/ RefundHold(Owner[j], KeyOf[j], Cost[j])
      BY <1>5, <2>4 DEF FinishCommit
    <3>2. Released(j)
      BY <2>1, <2>3, <3>1, SettledRelease
    <3>3. Settles(j)
      BY <1>5, <2>4 DEF Settles
    <3> QED
      BY <2>1, <3>2, <3>3
  <2>5. CASE ~worker[w].post
    <3>1. txns' = txns /\ held' = held
      BY <1>5, <2>5 DEF FinishCommit, ledgerVars
    <3>2. \A u : Unsettled(u)' = Unsettled(u)
      BY <2>3, <3>1 DEF Unsettled, HasRow, Debited, Refunded, Posted
    <3> QED
      BY <3>1, <3>2, OutstandingNext, OutstandingFact
  <2> QED
    BY <2>4, <2>5
<1>6. ASSUME NEW r \in Requests, SubmitStep(r), ~ \E q \in Requests : SubmitCommit(q)
      PROVE  Same
  <2>1. held' = held /\ txns' = txns
    BY <1>6 DEF SubmitStep, SubmitLookup, SubmitCheckHold, SubmitHold, SubmitInsert,
       SubmitAbort, ledgerVars
  <2> QED
    BY <1>1, <1>6, <2>1
<1>7. CASE \E r \in Requests : SubmitCommit(r)
  BY <1>2, <1>7
<1>8. CASE ~ \E r \in Requests : SubmitCommit(r)
  <2>1. Same \/ Frees
    <3> HIDE DEF Frees
    <3>1. UNCHANGED <<balance, held, txns, lockedBy, request>> => Same
      BY <1>1, <1>8
    <3> HIDE DEF Same
    <3> QED
      BY <1>4, <1>5, <1>6, <1>8, <3>1, LedgerFrame
  <2> QED
    BY <2>1
<1> QED
  BY <1>7, <1>8

\* The reservation that a debit or a refund releases is at most that of its own job, so
\* nothing stays reserved without an unsettled job that it is reserved for.
THEOREM HeldIsBackedCorrect == Spec => []HeldIsBacked
<1>1. Init => HeldIsBacked
  <2> SUFFICES ASSUME Init, NEW u \in Users PROVE held[u] <= Outstanding(u)
    BY DEF HeldIsBacked
  <2>1. held[u] = 0
    BY DEF Init, LedgerInit
  <2>2. Outstanding(u) \in Nat
    BY RowsInit, OutstandingFact
  <2> QED
    BY <2>1, <2>2
<1>2. TypeOK /\ AdmissionInv /\ BalanceInv /\ RowsInv /\ HeldIsBacked /\ [Next]_vars
         => HeldIsBacked'
  <2> SUFFICES ASSUME TypeOK, AdmissionInv, BalanceInv, RowsInv, HeldIsBacked, [Next]_vars,
                      NEW u \in Users
               PROVE  held'[u] <= Outstanding(u)'
    BY DEF HeldIsBacked
  <2>0. held[u] \in Nat /\ held[u] <= Outstanding(u) /\ Outstanding(u) \in Nat
    BY OutstandingFact DEF TypeOK, LedgerTypeOK, HeldIsBacked
  <2>1. CASE held' = held /\ Outstanding(u)' = Outstanding(u)
    BY <2>0, <2>1
  <2>2. ASSUME NEW n \in Nat, held'[u] = held[u] + n, Outstanding(u)' = Outstanding(u) + n
        PROVE  held'[u] <= Outstanding(u)'
    BY <2>0, <2>2
  <2>3. ASSUME NEW j \in Jobs, Released(j)
        PROVE  held'[u] <= Outstanding(u)'
    <3>1. Cost[j] \in Nat
      BY JobAssumption
    <3>2. CASE u # Owner[j]
      <4>1. held'[u] = held[u] /\ Outstanding(u)' = Outstanding(u)
        BY <2>3, <3>2 DEF Released
      <4> QED
        BY <2>0, <4>1
    <3>3. CASE u = Owner[j] /\ j \in Unsettled(u)
      <4>1. /\ held'[u] = ClampedSub(held[u], Cost[j]) /\ Cost[j] <= Outstanding(u)
            /\ Outstanding(u)' = Outstanding(u) - Cost[j]
        BY <2>3, <3>3 DEF Released
      <4> QED
        BY <2>0, <3>1, <4>1 DEF ClampedSub
    <3>4. CASE u = Owner[j] /\ j \notin Unsettled(u)
      <4>1. held'[u] = ClampedSub(held[u], Cost[j]) /\ Outstanding(u)' = Outstanding(u)
        BY <2>3, <3>4 DEF Released
      <4> QED
        BY <2>0, <3>1, <4>1 DEF ClampedSub
    <3> QED
      BY <3>2, <3>3, <3>4
  <2>4. \A r \in Requests : request[r].reserved \in Nat /\ 0 \in Nat
    BY DEF TypeOK, RequestState
  <2> QED
    BY <2>1, <2>2, <2>3, <2>4, HeldFrame
<1> QED
  BY <1>1, <1>2, BalanceAlways, RowsAlways, AdmissionAlways, TypeCorrect, PTL DEF Spec

-----------------------------------------------------------------------------
(* Where nobody cancels and nothing is delivered twice, a job is settled   *)
(* by the only run of it that comes to its end, so its hold is whole.      *)

SettledAtRest ==
    \A j \in NewJobs : HasRow(j) /\ (Debited(j) \/ Refunded(j)) => Nowhere(j)

HeldWhole == \A u \in Users : held[u] = Outstanding(u)

LEMMA FinishLeaves ==
  ASSUME TypeOK, DeliveryInv, NEW w \in Workers, FinishCommit(w), NEW j \in Jobs,
         worker[w].job = j
  PROVE  Nowhere(j)' /\ ~Nowhere(j)
<1>1. Becomes(w, Idle) /\ queue' = queue /\ scheduled' = scheduled
  BY DEF FinishCommit, queueVars
<1>2. worker'[w] = Idle /\ \A v \in Workers \ {w} : worker'[v] = worker[v]
  BY <1>1, BecomesFact
<1>3. queue[j] = 0 /\ j \notin scheduled /\ \A v \in Workers \ {w} : worker[v].job # j
  BY DEF DeliveryInv, OnePlace
<1>4. Nowhere(j)'
  BY <1>1, <1>2, <1>3, JobAssumption DEF Nowhere, Idle
<1> QED
  BY <1>4 DEF Nowhere

LEMMA SettledAtRestNext ==
  ASSUME TypeOK, AdmissionInv, DeliveryInv, CloneInv, RowsInv, SettledAtRest, Cancels = {},
         redeliveries = 0, redeliveries' = 0, [Next]_vars
  PROVE  SettledAtRest'
<1> SUFFICES ASSUME NEW j \in NewJobs, status'[j] # "none", Debited(j)' \/ Refunded(j)'
             PROVE  Nowhere(j)'
  BY DEF SettledAtRest, HasRow
<1>0. j \in Jobs /\ j \notin Clones
  BY DEF NewJobs
<1>1. CASE Debited(j) \/ Refunded(j)
  <2>1. RowWithKey(KeyOf[j])
    BY <1>1 DEF Debited, Refunded, Posted, RowsInv, SettledHasRow, RowWithKey, HasRow
  <2>2. HasRow(j)
    <3>1. ASSUME NEW r \in Requests, j \in request[r].inserted PROVE FALSE
      BY <2>1, <3>1 DEF AdmissionInv, PendingHasNoRow
    <3> QED
      BY <1>0, <3>1, NewRow
  <2>3. Nowhere(j)
    BY <1>1, <2>2 DEF SettledAtRest
  <2> QED
    BY <1>0, <2>2, <2>3, NowhereStays, EnqueuedFact
<1>2. CASE ~Debited(j) /\ ~Refunded(j)
  <2>1. PICK t \in txns' : /\ t \notin txns /\ t.type \in {"debit", "refund"}
                           /\ t.key = KeyOf[j]
    BY <1>2 DEF Debited, Refunded, Posted
  <2>2. PICK w \in Workers : FinishCommit(w) /\ t.key = KeyOf[worker[w].job]
    BY <2>1, NewSettlement
  <2>3. /\ worker[w].job \in Jobs /\ HasRow(worker[w].job)
        /\ status' = [status EXCEPT ![worker[w].job] =
                        Written(worker[w].job, worker[w].seen, worker[w].outcome)]
    BY <2>2 DEF FinishCommit, TypeOK, InHand, AdmissionInv, ActedOnHasRow
  <2>4. worker[w].job = j
    <3>1. worker[w].job # j => HasRow(j)
      BY <1>0, <2>3 DEF HasRow, TypeOK
    <3> QED
      BY <1>0, <2>1, <2>2, <2>3, <3>1 DEF AdmissionInv, OneJobPerKey
  <2> QED
    BY <1>0, <2>2, <2>4, FinishLeaves
<1> QED
  BY <1>1, <1>2

LEMMA HeldWholeNext ==
  ASSUME TypeOK, AdmissionInv, BalanceInv, RowsInv, DeliveryInv, CloneInv, SettledAtRest,
         HeldWhole, Cancels = {}, redeliveries = 0, redeliveries' = 0, [Next]_vars
  PROVE  HeldWhole'
<1> SUFFICES ASSUME NEW u \in Users PROVE held'[u] = Outstanding(u)'
  BY DEF HeldWhole
<1>0. held[u] \in Nat /\ held[u] = Outstanding(u) /\ Outstanding(u) \in Nat
  BY OutstandingFact DEF TypeOK, LedgerTypeOK, HeldWhole
<1>1. CASE held' = held /\ Outstanding(u)' = Outstanding(u)
  BY <1>0, <1>1
<1>2. ASSUME NEW n, held'[u] = held[u] + n, Outstanding(u)' = Outstanding(u) + n
      PROVE  held'[u] = Outstanding(u)'
  BY <1>0, <1>2
<1>3. ASSUME NEW j \in Jobs, Settles(j), HasRow(j), Released(j)
      PROVE  held'[u] = Outstanding(u)'
  <2>1. PICK w \in Workers : FinishCommit(w) /\ worker[w].post /\ worker[w].job = j
    BY <1>3 DEF Settles
  <2>2. j \in NewJobs
    BY <2>1 DEF FinishCommit, CloneInv, PostsAreCharged, NewJobs
  <2>3. j \in Unsettled(Owner[j])
    BY <1>3, <2>1, <2>2, FinishLeaves DEF SettledAtRest, Unsettled
  <2>4. CASE u # Owner[j]
    <3>1. held'[u] = held[u] /\ Outstanding(u)' = Outstanding(u)
      BY <1>3, <2>4 DEF Released
    <3> QED
      BY <1>0, <3>1
  <2>5. CASE u = Owner[j]
    <3>1. /\ held'[u] = ClampedSub(held[u], Cost[j]) /\ Cost[j] <= Outstanding(u)
          /\ Outstanding(u)' = Outstanding(u) - Cost[j]
      BY <1>3, <2>3, <2>5 DEF Released
    <3>2. Cost[j] \in Nat
      BY JobAssumption
    <3> QED
      BY <1>0, <3>1, <3>2 DEF ClampedSub
  <2> QED
    BY <2>4, <2>5
<1> QED
  BY <1>1, <1>2, <1>3, HeldFrame

\* Where nobody cancels and nothing is delivered twice, no settlement releases a part of
\* another job's hold: what is held is exactly what is outstanding.
THEOREM HeldIsOutstandingCorrect == Spec => []HeldIsOutstanding
<1> DEFINE Quiet == Cancels = {} /\ redeliveries = 0
           WholeInv == Quiet => SettledAtRest /\ HeldWhole
<1>1. Init => WholeInv
  <2> SUFFICES ASSUME Init PROVE SettledAtRest /\ HeldWhole
    OBVIOUS
  <2>1. \A j \in NewJobs : ~HasRow(j)
    BY DEF Init, HasRow, NewJobs
  <2>2. SettledAtRest
    BY <2>1 DEF SettledAtRest
  <2>3. ASSUME NEW u \in Users PROVE held[u] = Outstanding(u)
    <3>1. Unsettled(u) = {}
      BY <2>1 DEF Unsettled
    <3>2. Outstanding(u) = SumFunctionOnSet(Cost, {})
      BY <3>1, RowsInit, OutstandingFact
    <3>3. held[u] = 0
      BY DEF Init, LedgerInit
    <3> QED
      BY <3>2, <3>3, SumOfNone
  <2> QED
    BY <2>2, <2>3 DEF HeldWhole
<1>2. TypeOK /\ AdmissionInv /\ BalanceInv /\ RowsInv /\ CloneInv
      /\ (redeliveries = 0 => DeliveryInv) /\ WholeInv /\ [Next]_vars
         => WholeInv'
  <2> SUFFICES ASSUME TypeOK, AdmissionInv, BalanceInv, RowsInv, CloneInv, DeliveryInv,
                      SettledAtRest, HeldWhole, Cancels = {}, redeliveries = 0,
                      redeliveries' = 0, [Next]_vars
               PROVE  SettledAtRest' /\ HeldWhole'
    BY NoReenqueueYet
  <2> QED
    BY SettledAtRestNext, HeldWholeNext
<1>3. WholeInv => HeldIsOutstanding
  BY DEF HeldWhole, HeldIsOutstanding
<1> HIDE DEF WholeInv
<1> QED
  BY <1>1, <1>2, <1>3, BalanceAlways, RowsAlways, AdmissionAlways, CloneAlways, DeliveryAlways,
     TypeCorrect, PTL DEF Spec
=============================================================================
