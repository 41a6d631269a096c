------------------------------ MODULE SweepJobs ------------------------------
(***************************************************************************)
(* The background jobs (src/job/): the single-shot recovery sweep and a    *)
(* sweep that reschedules itself, which lists at most Limit rows a tick    *)
(* and walks them one by one.  Both recurring sweeps have this shape: the  *)
(* orphan-hold sweep (src/app/sweep_orphan_holds.rs) over the rows of      *)
(* list_stranded_initiated, the reconciliation sweep over list_held.       *)
(*                                                                         *)
(* The job crate is external: what is modelled of it is the tables of      *)
(* migrations/20250904065521_job_setup.sql and how src/cli.rs uses it.     *)
(*                                                                         *)
(* A definition X_Something that stands before X is X with one plausible   *)
(* defect; the properties of Process are checked to notice it.             *)
(***************************************************************************)
EXTENDS Naturals, FiniteSets, FiniteSetsExt

CONSTANTS
    Row,            \* rows an outage left stranded
    Stuck,          \* the ones LND never gives a final answer for (NotFound)
    Limit           \* ORPHAN_HOLD_SWEEP_LIMIT, RECONCILIATION_SWEEP_LIMIT

ASSUME JobsAssumption ==
    /\ IsFiniteSet(Row) /\ Stuck \subseteq Row
    /\ Limit \in Nat \ {0}

VARIABLES
    row,     \* stranded or resolved
    job,     \* each job: absent, pending, running or finished
    todo     \* rows the running tick has listed and not yet visited

jobVars == <<row, job, todo>>

JobType == {"recovery", "sweep"}

InitJobs ==
    /\ row = [r \in Row |-> "stranded"]
    /\ job = [j \in JobType |-> "absent"]
    /\ todo = {}

\* spawn_unique: the insert into `jobs` under idx_unique_job_type.  A job that is
\* there already is left as it is, a finished one too: completion removes the row
\* of job_executions, while `jobs` has no state and job_events refers to its rows.
spawn_unique(js) ==
    job' = [j \in JobType |-> IF j \in js /\ job[j] = "absent" THEN "pending" ELSE job[j]]

\* The process ends: an execution that was running is taken up again later.
AbandonJobs ==
    /\ job' = [j \in JobType |-> IF job[j] = "running" THEN "pending" ELSE job[j]]
    /\ todo' = {}

------------------------------------------------------------------------------
(* The sweep *)

\* list_stranded_initiated, list_held: LIMIT without ORDER BY.
Listed == {r \in Row : row[r] = "stranded"}
Batches == kSubset(IF Cardinality(Listed) < Limit THEN Cardinality(Listed) ELSE Limit, Listed)

StartTick ==
    /\ job["sweep"] = "pending"
    /\ job' = [job EXCEPT !["sweep"] = "running"]
    /\ todo' \in Batches
    /\ UNCHANGED row

\* One row of the tick: driven to its end, or left for the next tick because
\* LND does not know it or a lookup or commit failed.
Visit(r) ==
    /\ r \in todo
    /\ todo' = todo \ {r}
    /\ \/ r \notin Stuck /\ row' = [row EXCEPT ![r] = "resolved"]
       \/ UNCHANGED row
    /\ UNCHANGED job

EndTick_Complete ==
    /\ job["sweep"] = "running" /\ todo = {}
    /\ job' = [job EXCEPT !["sweep"] = "finished"]
    /\ UNCHANGED <<row, todo>>

\* JobCompletion::RescheduleIn.
EndTick ==
    /\ job["sweep"] = "running" /\ todo = {}
    /\ job' = [job EXCEPT !["sweep"] = "pending"]
    /\ UNCHANGED <<row, todo>>

\* The tables keep their types, and a tick lists no more than Limit rows.
JobsTypeOK ==
    /\ row \in [Row -> {"stranded", "resolved"}]
    /\ job \in [JobType -> {"absent", "pending", "running", "finished"}]
    /\ todo \subseteq Row /\ Cardinality(todo) <= Limit
==============================================================================
