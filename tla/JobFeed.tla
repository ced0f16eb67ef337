------------------------------- MODULE JobFeed -------------------------------
(***************************************************************************)
(* What a reader of a job's progress is promised: it is shown states that  *)
(* the job was in, or was about to be in, each later than the one before,  *)
(* with progress that does not go back unless the job was disturbed, up to *)
(* one that is final; states may be missed.  ProgressStream implements it. *)
(***************************************************************************)
EXTENDS Naturals, Sequences

CONSTANT Final \* the statuses in which a job ends

VARIABLES
    log,      \* states of the job, in the order in which they were stored or announced
    shown,    \* position in log of the state the reader was shown last, 0 for none
    reader,   \* "away", "reading" or "closed"
    disturbed \* a state was announced and then not stored, or by one run beside another

vars == <<log, shown, reader, disturbed>>

Init ==
    /\ Len(log) = 1
    /\ shown = 0 /\ reader = "away" /\ disturbed = FALSE

\* The job takes one more state; the ones before it stay as they are.
Grow ==
    /\ Len(log') = Len(log) + 1
    /\ SubSeq(log', 1, Len(log)) = log
    /\ disturbed' \in {disturbed, TRUE}
    /\ UNCHANGED <<shown, reader>>

Disturb == disturbed' = TRUE /\ UNCHANGED <<log, shown, reader>>

\* The reader is shown a later state.
Show ==
    /\ reader # "closed"
    /\ shown' \in (shown + 1)..Len(log)
    /\ shown # 0 => disturbed \/ log[shown].progress <= log[shown'].progress
    /\ reader' = IF log[shown'].status \in Final THEN "closed" ELSE "reading"
    /\ UNCHANGED <<log, disturbed>>

Leave == reader # "away" /\ shown' = 0 /\ reader' = "away" /\ UNCHANGED <<log, disturbed>>

Next == Grow \/ Disturb \/ Show \/ Leave

Spec == Init /\ [][Next]_vars

=============================================================================
