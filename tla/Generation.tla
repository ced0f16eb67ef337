----------------------------- MODULE Generation -----------------------------
(***************************************************************************)
(* A worker process: its pool of models and the stages of the jobs that it *)
(* runs, one after the other (ai_engine/pipeline, ai_engine/models).       *)
(*                                                                         *)
(* A model is loaded on first use and what came of it, success or failure, *)
(* is remembered until the process ends.  The generate stage goes through  *)
(* the backends in order of priority; a backend without a model is passed  *)
(* over, an error of one that has its model is not.                        *)
(*                                                                         *)
(* An image is the sequence of what was done to it.  Queueing, credits and *)
(* cancellation are JobPipeline's.                                         *)
(***************************************************************************)
EXTENDS Naturals, Sequences, SequencesExt

CONSTANTS
    Jobs,
    Requested,       \* Requested[j]: jobs.stages
    Reference,       \* Reference[j]: the first reference image
    Supported,       \* jobs whose control type is supported
    Backends,        \* values of settings.generation_backend
    None,
    StageMaxRetries, \* STAGE_MAX_RETRIES
    MaxRetries,      \* settings.job_max_retries
    MaxRestarts      \* bound: deaths of the process

\* Mutant of Order: the transparent variant is cut out before the upscaling.
OrderCutOutFirst == <<"generate", "instantid", "controlnet", "gfpgan", "bg_removal", "realesrgan">>

\* Canonical execution order.
Order == <<"generate", "instantid", "controlnet", "gfpgan", "realesrgan", "bg_removal">>

ASSUME GenerationAssumption ==
    /\ \A j \in Jobs : Requested[j] \subseteq ToSet(Order)
    /\ Reference \in [Jobs -> {"none", "good", "unreadable"}]
    /\ Supported \subseteq Jobs
    /\ Backends \subseteq {"sdturbo", "flux", "auto"}
    /\ None \notin Jobs
    /\ StageMaxRetries \in Nat /\ MaxRetries \in Nat \ {0} /\ MaxRestarts \in Nat

VARIABLES
    backend,  \* settings.generation_backend, fixed for a deployment
    pool,     \* _pool: what is remembered of each model
    run,      \* the run in progress
    status,   \* status of each job
    attempts, \* runs begun for each job
    output,   \* what was stored for a completed job
    restarts

vars == <<backend, pool, run, status, attempts, output, restarts>>
jobVars == <<status, attempts, output>>

-----------------------------------------------------------------------------
Generators == {"sd-turbo", "instantid", "flux-controlnet", "flux.1"}
Models == Generators \cup {"gfpgan", "realesrgan", "rembg", "inswapper"}
Steps == ToSet(Order) \cup Generators

NoImage == <<>>

Conditioned(j, s) == s \in Requested[j] /\ Reference[j] # "none"

\* The backends that generate tries for job j, in order of priority.
Candidates(j) ==
    IF backend = "sdturbo" THEN <<"sd-turbo">>
    ELSE (IF Conditioned(j, "instantid") THEN <<"instantid">> ELSE <<>>)
         \o (IF Conditioned(j, "controlnet") THEN <<"flux-controlnet">> ELSE <<>>)
         \o <<"flux.1">>

WarmKey == IF backend = "sdturbo" THEN "sd-turbo" ELSE "flux.1"

\* at is the stage's position in Order, next the backend's in Candidates, retries the
\* retries of the current stage, extra the transparent variant.
IdleRun == [pc |-> "idle", job |-> None, at |-> 1, next |-> 1, retries |-> 0,
            image |-> NoImage, extra |-> NoImage]

RunState == [pc: {"idle", "generate", "sample", "post", "finish"}, job: Jobs \cup {None},
             at: 1..Len(Order), next: 1..4, retries: 0..StageMaxRetries,
             image: Seq(Steps), extra: Seq(Steps)]

TypeOK ==
    /\ backend \in Backends
    /\ pool \in [Models -> {"absent", "loaded", "none"}]
    /\ run \in RunState /\ (run.job = None) = (run.pc = "idle")
    /\ status \in [Jobs -> {"queued", "running", "completed", "failed"}]
    /\ attempts \in [Jobs -> 0..MaxRetries + MaxRestarts]
    /\ output \in [Jobs -> [image: Seq(Steps), extra: Seq(Steps)]]
    /\ restarts \in 0..MaxRestarts

\* A process begins: the backend's base model is loaded, or found unavailable.
Started ==
    \E outcome \in {"loaded", "none"} :
        pool' = [m \in Models |-> IF m = WarmKey THEN outcome ELSE "absent"]

Init ==
    /\ backend \in Backends
    /\ pool \in [Models -> {"absent", "loaded", "none"}]
    /\ \A m \in Models : (pool[m] = "absent") = (m # WarmKey)
    /\ run = IdleRun
    /\ status = [j \in Jobs |-> "queued"]
    /\ attempts = [j \in Jobs |-> 0]
    /\ output = [j \in Jobs |-> [image |-> NoImage, extra |-> NoImage]]
    /\ restarts = 0

-----------------------------------------------------------------------------
(* The pool *)

\* get_model.  Whatever a loader raises, the model is unavailable from then on.
Obtains(m) ==
    \E outcome \in {"loaded", "none"} :
        /\ pool[m] # "absent" => outcome = pool[m]
        /\ pool' = [pool EXCEPT ![m] = outcome]

-----------------------------------------------------------------------------
(* Runs and stages *)

\* The worker takes a queued job, its references are loaded.
Start(j) ==
    /\ run.pc = "idle" /\ status[j] = "queued"
    /\ run' = [IdleRun EXCEPT !.pc = "generate", !.job = j]
    /\ status' = [status EXCEPT ![j] = "running"]
    /\ attempts' = [attempts EXCEPT ![j] = attempts[j] + 1]
    /\ UNCHANGED <<backend, pool, output, restarts>>

Stage == Order[run.at]

\* What is left of ordered_stages behind position n.
Later(j, n) == {k \in n + 1..Len(Order) : Order[k] \in Requested[j]}

\* The run with its current stage done.
Passed(state) ==
    LET later == Later(state.job, state.at) IN
    [state EXCEPT !.retries = 0,
                  !.at = IF later = {} THEN state.at ELSE Min(later),
                  !.pc = IF later = {} THEN "finish" ELSE "post"]

\* The stage ends the run: a transient error puts the job back while it has attempts.
StageFails(transient) ==
    LET j == run.job IN
    /\ status' = [status EXCEPT ![j] =
                    IF transient /\ attempts[j] < MaxRetries THEN "queued" ELSE "failed"]
    /\ run' = IdleRun
    /\ UNCHANGED <<attempts, output>>

\* The backend that is tried, while there is one.
Exhausted == run.next > Len(Candidates(run.job))
Backend == Candidates(run.job)[run.next]

\* The backends that work from the reference open it before they look at their model.
Readable(m) == m \in {"instantid", "flux-controlnet"} => Reference[run.job] = "good"

\* The next backend is tried; without a model it is passed over.
TryBackend ==
    /\ run.pc = "generate" /\ ~Exhausted /\ Readable(Backend)
    /\ Obtains(Backend)
    /\ run' = IF pool'[Backend] = "loaded"
              THEN [run EXCEPT !.pc = "sample"]
              ELSE [run EXCEPT !.next = run.next + 1]
    /\ UNCHANGED <<backend, jobVars, restarts>>

\* The reference cannot be opened: an error, with the model or without it.
ReferenceUnreadable ==
    /\ run.pc = "generate" /\ ~Exhausted /\ ~Readable(Backend)
    /\ Obtains(Backend)
    /\ StageFails(FALSE)
    /\ UNCHANGED <<backend, restarts>>

\* Mutant of NoBackend: the stage waits for a model.
NoBackendWaits ==
    /\ run.pc = "generate" /\ Exhausted
    /\ run' = [run EXCEPT !.next = 1]
    /\ UNCHANGED <<backend, pool, jobVars, restarts>>

\* model_unavailable: never a placeholder.
NoBackend ==
    /\ run.pc = "generate" /\ Exhausted
    /\ StageFails(FALSE)
    /\ UNCHANGED <<backend, pool, restarts>>

\* The pipeline returns an image.  InstantID's is given the face of the reference when
\* the swapper is there; whether it is makes no difference to the outcome.
Sample ==
    /\ run.pc = "sample"
    /\ IF Backend = "instantid" THEN Obtains("inswapper") ELSE pool' = pool
    /\ run' = Passed([run EXCEPT !.image = <<Backend>>])
    /\ UNCHANGED <<backend, jobVars, restarts>>

\* Mutant of SampleOutOfMemory: one retry too many.
SampleOutOfMemoryAgain ==
    /\ run.pc = "sample"
    /\ IF run.retries <= StageMaxRetries
       THEN /\ run' = [run EXCEPT !.pc = "generate", !.next = 1, !.retries = run.retries + 1]
            /\ UNCHANGED jobVars
       ELSE StageFails(TRUE)
    /\ UNCHANGED <<backend, pool, restarts>>

\* A transient error: run_stage begins the stage again, and gives up after two retries.
SampleOutOfMemory ==
    /\ run.pc = "sample"
    /\ IF run.retries < StageMaxRetries
       THEN /\ run' = [run EXCEPT !.pc = "generate", !.next = 1, !.retries = run.retries + 1]
            /\ UNCHANGED jobVars
       ELSE StageFails(TRUE)
    /\ UNCHANGED <<backend, pool, restarts>>

\* Mutant of SampleBreaks: the next backend takes over.
SampleFallsBack ==
    /\ run.pc = "sample"
    /\ run' = [run EXCEPT !.pc = "generate", !.next = run.next + 1]
    /\ UNCHANGED <<backend, pool, jobVars, restarts>>

\* Any other error: no face in the reference, whatever the pipeline raises.
SampleBreaks ==
    /\ run.pc = "sample"
    /\ StageFails(FALSE)
    /\ UNCHANGED <<backend, pool, restarts>>

ReferenceUsable == Reference[run.job] = "good"
ControlUsable == run.job \in Supported /\ ReferenceUsable

\* The instantid and controlnet stages only look at the reference, after the image.
Validate ==
    /\ run.pc = "post" /\ Stage \in {"instantid", "controlnet"}
    /\ IF (Stage = "instantid" /\ ReferenceUsable) \/ (Stage = "controlnet" /\ ControlUsable)
       THEN run' = Passed(run) /\ UNCHANGED jobVars
       ELSE StageFails(FALSE)
    /\ UNCHANGED <<backend, pool, restarts>>

ModelOf == [gfpgan |-> "gfpgan", realesrgan |-> "realesrgan", bg_removal |-> "rembg"]

\* What each post-processing stage does to the image, with its model or a stand-in.
Restored(state) == [state EXCEPT !.image = Append(state.image, "gfpgan")]
Upscaled(state) == [state EXCEPT !.image = Append(state.image, "realesrgan")]
CutOut(state)   == [state EXCEPT !.extra = state.image]

Postprocess ==
    /\ run.pc = "post" /\ Stage \in DOMAIN ModelOf
    /\ Obtains(ModelOf[Stage])
    /\ run' = Passed(CASE Stage = "gfpgan"     -> Restored(run)
                       [] Stage = "realesrgan" -> Upscaled(run)
                       [] Stage = "bg_removal" -> CutOut(run))
    /\ UNCHANGED <<backend, jobVars, restarts>>

\* stage_crashed, with the model loaded or not yet: what such a stage raises is never
\* transient.
PostprocessCrashes ==
    /\ run.pc = "post" /\ Stage \in DOMAIN ModelOf
    /\ pool' = pool \/ Obtains(ModelOf[Stage])
    /\ StageFails(FALSE)
    /\ UNCHANGED <<backend, restarts>>

\* The image and its variant are stored (_persist_outputs).
Finish ==
    /\ run.pc = "finish"
    /\ output' = [output EXCEPT ![run.job] = [image |-> run.image, extra |-> run.extra]]
    /\ status' = [status EXCEPT ![run.job] = "completed"]
    /\ run' = IdleRun
    /\ UNCHANGED <<backend, pool, attempts, restarts>>

\* The process dies and is started again, with an empty pool; an operator enqueues the
\* job it was running.
Restart ==
    /\ restarts < MaxRestarts /\ restarts' = restarts + 1
    /\ Started
    /\ status' = [j \in Jobs |-> IF j = run.job THEN "queued" ELSE status[j]]
    /\ run' = IdleRun
    /\ UNCHANGED <<backend, attempts, output>>

-----------------------------------------------------------------------------
RunStep == \/ TryBackend \/ ReferenceUnreadable \/ NoBackend
           \/ Sample \/ SampleOutOfMemory \/ SampleBreaks
           \/ Validate \/ Postprocess \/ PostprocessCrashes
           \/ Finish

Next == RunStep \/ Restart \/ \E j \in Jobs : Start(j)

\* The worker goes on with the run it has begun, and takes what is queued.
Fairness == WF_vars(RunStep) /\ WF_vars(\E j \in Jobs : Start(j))

Spec == Init /\ [][Next]_vars
FairSpec == Spec /\ Fairness

-----------------------------------------------------------------------------
(* Properties *)

Asked(j, s) == IF s \in Requested[j] THEN <<s>> ELSE <<>>

\* What a completed job stores comes from a generation model, with every requested
\* treatment once and in the canonical order, however often stages and runs were
\* retried; and the transparent variant shows the very image stored beside it.
OutputIsWhole ==
    \A j \in Jobs : status[j] = "completed" =>
        LET image == output[j].image
            treatments == Asked(j, "gfpgan") \o Asked(j, "realesrgan")
        IN  /\ image # NoImage /\ image[1] \in Generators
            /\ Tail(image) = treatments
            /\ output[j].extra = IF "bg_removal" \in Requested[j] THEN image ELSE NoImage

\* models/loader.py: "the pipeline then tries the next backend in priority order": the
\* image of a run comes from the best backend there is.  A better one was passed over
\* only if this process knows it to be unavailable; so all the runs of a process treat
\* the same request alike, and no error of a backend makes the next one take over.
BestBackend ==
    run.image # NoImage =>
        LET tried == Candidates(run.job)
        IN  \A n \in DOMAIN tried :
                /\ tried[n] = run.image[1] => pool[tried[n]] = "loaded"
                /\ (\A m \in 1..n : tried[m] # run.image[1]) => pool[tried[n]] = "none"

\* A run ends, and every job is completed or failed in the end: retries of stages and
\* of jobs, and restarts, are all bounded.
JobsEnd == \A j \in Jobs : <>(status[j] \in {"completed", "failed"})

=============================================================================
