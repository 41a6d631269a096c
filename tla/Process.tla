------------------------------- MODULE Process -------------------------------
(***************************************************************************)
(* The gateway's process (src/cli.rs, run_cmd): boot, the supervised       *)
(* tasks, the signal handler, and the supervisor that drains them; killed  *)
(* and restarted at any point.  The background jobs of SweepJobs live in   *)
(* the database and are served by whichever process is up.                 *)
(*                                                                         *)
(* Tasks run on a multi-threaded runtime: every step between two awaits of *)
(* one task interleaves with the steps of the others.                      *)
(***************************************************************************)
EXTENDS SweepJobs, Sequences

CONSTANTS
    Server,         \* the server tasks: gRPC, GraphQL, HTTP health
    LndConfigured,  \* an `lnd:` block; without it the process runs on the boot stub
    Faults          \* subset of FaultKind

FaultKind == {"boot", "server", "panic", "kill"}

ASSUME ProcessAssumption ==
    /\ IsFiniteSet(Server) /\ Server \cap {"consumer", "subscription", "signal"} = {}
    /\ LndConfigured \in BOOLEAN /\ Faults \subseteq FaultKind

VARIABLES
    sv,          \* run_cmd: down, recv, drain
    at,          \* handles the supervisor has finished awaiting
    task,        \* the spawned tasks, by handle
    inner,       \* the payment-update consumer, spawned inside "subscription"
    channel,     \* the exit-reason channel, capacity 1
    cancel,      \* the CancellationToken
    serving,     \* the gRPC health status
    reason,      \* the exit reason the supervisor captured, and exits with
    recovered    \* the recovery sweep ran in this process

supVars == <<sv, at, task, inner, channel, cancel, serving, reason>>
vars == <<supVars, recovered, jobVars>>

\* The servers, in the order they are spawned.
Servers == CHOOSE q \in [1 .. Cardinality(Server) -> Server] : Server = {q[i] : i \in DOMAIN q}

\* `handles`, in the order they are pushed and awaited.
handles == Servers \o <<"consumer", "subscription", "signal">>
Task == Server \cup {"consumer", "subscription", "signal"}

Alive == sv # "down"

Init ==
    /\ sv = "down" /\ at = 0
    /\ task = [t \in Task |-> "over"] /\ inner = "over"
    /\ channel = <<>> /\ cancel = FALSE /\ serving = FALSE
    /\ reason = "none"
    /\ recovered = FALSE
    /\ InitJobs

------------------------------------------------------------------------------
(* Boot *)

\* Database, LND, the Symphony settings, the job service: each `?` before the
\* first task is spawned ends the process; the jobs spawned so far stay.
BootFails ==
    /\ "boot" \in Faults
    /\ sv = "down"
    /\ reason' = "err"
    /\ \E js \in IF LndConfigured THEN {{}, {"recovery"}, JobType} ELSE {{}} : spawn_unique(js)
    /\ UNCHANGED <<sv, at, task, inner, channel, cancel, serving, recovered, row, todo>>

Boot ==
    /\ sv = "down"
    /\ sv' = "recv" /\ at' = 0
    /\ task' = [t \in Task |-> "run"] /\ inner' = "run"
    /\ channel' = <<>> /\ cancel' = FALSE /\ serving' = TRUE
    /\ reason' = "none" /\ recovered' = FALSE
    /\ spawn_unique(IF LndConfigured THEN JobType ELSE {})
    /\ UNCHANGED <<row, todo>>

------------------------------------------------------------------------------
(* The tasks *)

report_exit_Overwrite(result) == channel' = <<result>>

\* try_send: when a reason is waiting already, this one is dropped.
report_exit(result) ==
    channel' = IF channel = <<>> THEN <<result>> ELSE channel

Ends(t, result) ==
    /\ task' = [task EXCEPT ![t] = "over"]
    /\ report_exit(result)

restOfTask == <<sv, at, reason, recovered, jobVars>>

run_server_Quiet(s) ==
    /\ Alive /\ task[s] = "run"
    /\ \/ cancel /\ Ends(s, "ok")
       \/ "server" \in Faults /\ Ends(s, "ok")
    /\ UNCHANGED <<inner, cancel, serving, restOfTask>>

\* run_grpc_server, run_graphql_server, health::run: return Ok once the token
\* is cancelled and the open connections have drained, which may be never;
\* Err when they cannot bind or serve.
run_server(s) ==
    /\ Alive /\ task[s] = "run"
    /\ \/ cancel /\ Ends(s, "ok")
       \/ "server" \in Faults /\ Ends(s, "err")
    /\ UNCHANGED <<inner, cancel, serving, restOfTask>>

\* The invoice-update consumer.  Its channel never closes while the process
\* lives (App holds a Sender), so it ends on cancellation or by a panic, which
\* its JoinHandle keeps and nobody reports.
run_consumer ==
    /\ Alive /\ task["consumer"] = "run"
    /\ \/ cancel /\ Ends("consumer", "ok")
       \/ /\ "panic" \in Faults
          /\ task' = [task EXCEPT !["consumer"] = "panicked"]
          /\ UNCHANGED channel
    /\ UNCHANGED <<inner, cancel, serving, restOfTask>>

\* The payment-update consumer, a task of the subscription task.
run_inner ==
    /\ Alive /\ inner = "run"
    /\ \/ cancel /\ inner' = "over"
       \/ "panic" \in Faults /\ inner' = "panicked"
    /\ UNCHANGED <<task, channel, cancel, serving, restOfTask>>

\* subscribe_payments reconnects until the token is cancelled, a dropped
\* receiver included; then the inner consumer is awaited.
run_subscription ==
    /\ Alive /\ task["subscription"] = "run"
    /\ cancel /\ inner # "run"
    /\ Ends("subscription", "ok")
    /\ UNCHANGED <<inner, cancel, serving, restOfTask>>

receive_signal_Silent ==
    /\ Alive /\ task["signal"] = "run"
    /\ task' = [task EXCEPT !["signal"] = "grace"]
    /\ UNCHANGED <<serving, inner, channel, cancel, restOfTask>>

\* wait_for_shutdown_signal returns: NotServing, then the grace window.
receive_signal ==
    /\ Alive /\ task["signal"] = "run"
    /\ task' = [task EXCEPT !["signal"] = "grace"]
    /\ serving' = FALSE
    /\ UNCHANGED <<inner, channel, cancel, restOfTask>>

install_fails ==
    /\ "server" \in Faults
    /\ Alive /\ task["signal"] = "run"
    /\ Ends("signal", "err")
    /\ UNCHANGED <<inner, cancel, serving, restOfTask>>

\* The grace window is over.  Another task may see the cancellation and report
\* before this one does.
cancel_token ==
    /\ Alive /\ task["signal"] = "grace"
    /\ task' = [task EXCEPT !["signal"] = "cancelled"]
    /\ cancel' = TRUE
    /\ UNCHANGED <<inner, channel, serving, restOfTask>>

report_signal ==
    /\ Alive /\ task["signal"] = "cancelled"
    /\ Ends("signal", "ok")
    /\ UNCHANGED <<inner, cancel, serving, restOfTask>>

------------------------------------------------------------------------------
(* The supervisor *)

Supervise_recv ==
    /\ sv = "recv" /\ channel # <<>>
    /\ reason' = Head(channel) /\ channel' = <<>>
    /\ cancel' = TRUE
    /\ sv' = "drain" /\ at' = 0
    /\ UNCHANGED <<task, inner, serving, recovered, jobVars>>

await_handle_NoDeadline ==
    /\ sv = "drain" /\ at < Len(handles)
    /\ task[handles[at + 1]] \in {"over", "panicked"}
    /\ at' = at + 1
    /\ UNCHANGED <<sv, task, inner, channel, cancel, serving, reason, recovered, jobVars>>

await_handle_NoAbort ==
    /\ sv = "drain" /\ at < Len(handles)
    /\ at' = at + 1
    /\ UNCHANGED <<sv, task, inner, channel, cancel, serving, reason, recovered, jobVars>>

\* One handle: joined, or aborted when drain_deadline elapses first.
await_handle ==
    /\ sv = "drain" /\ at < Len(handles)
    /\ LET t == handles[at + 1] IN
         /\ task[t] # "cancelled"    \* past its last await: it ends by itself
         /\ task' = IF task[t] \in {"over", "panicked"} THEN task
                    ELSE [task EXCEPT ![t] = "aborted"]
    /\ at' = at + 1
    /\ UNCHANGED <<sv, inner, channel, cancel, serving, reason, recovered, jobVars>>

\* The process and its memory are gone.
Down ==
    /\ sv' = "down" /\ at' = 0
    /\ task' = [t \in Task |-> "over"] /\ inner' = "over"
    /\ channel' = <<>> /\ cancel' = FALSE /\ serving' = FALSE
    /\ recovered' = FALSE
    /\ AbandonJobs
    /\ UNCHANGED row

\* jobs.shutdown, and run_cmd returns `reason`.
shutdown_jobs ==
    /\ sv = "drain" /\ at = Len(handles)
    /\ Down
    /\ UNCHANGED reason

Kill ==
    /\ "kill" \in Faults
    /\ Alive
    /\ Down
    /\ reason' = "err"

------------------------------------------------------------------------------
(* The jobs, polled while the process is up and LND is configured *)

Polling == Alive /\ LndConfigured

run_recovery_sweep ==
    /\ Polling /\ job["recovery"] = "pending"
    /\ job' = [job EXCEPT !["recovery"] = "finished"]
    /\ recovered' = TRUE
    /\ UNCHANGED <<supVars, row, todo>>

PollStart == Polling /\ StartTick /\ UNCHANGED <<supVars, recovered>>
PollVisit(r) == Polling /\ Visit(r) /\ UNCHANGED <<supVars, recovered>>
PollEnd == Polling /\ EndTick /\ UNCHANGED <<supVars, recovered>>

Next ==
    \/ BootFails \/ Boot \/ Kill
    \/ \E s \in Server : run_server(s)
    \/ run_consumer \/ run_inner \/ run_subscription
    \/ receive_signal \/ install_fails \/ cancel_token \/ report_signal
    \/ Supervise_recv \/ await_handle \/ shutdown_jobs
    \/ run_recovery_sweep \/ PollStart \/ PollEnd
    \/ \E r \in Row : PollVisit(r)

\* The runtime polls every ready task and timer; the job poller takes up what
\* is due; a row visited again and again is not refused by LND or the database
\* every time.
Fairness ==
    /\ WF_vars(cancel /\ run_consumer)
    /\ WF_vars(cancel /\ run_inner)
    /\ WF_vars(run_subscription)
    /\ WF_vars(cancel_token \/ report_signal)
    /\ WF_vars(Supervise_recv \/ await_handle \/ shutdown_jobs)
    /\ WF_vars(run_recovery_sweep)
    /\ WF_vars(PollStart \/ PollEnd \/ \E r \in Row : PollVisit(r))
    /\ \A r \in Row \ Stuck : SF_vars(PollVisit(r) /\ row[r]' = "resolved")

Spec == Init /\ [][Next]_vars
FairSpec == Spec /\ Fairness
------------------------------------------------------------------------------
(* Properties *)

\* Every task, handle, job and flag is in a state the code gives it, and the
\* channel of exit reasons holds one at most.
TypeOK ==
    /\ sv \in {"down", "recv", "drain"} /\ at \in 0 .. Len(handles)
    /\ task \in [Task -> {"run", "grace", "cancelled", "over", "panicked", "aborted"}]
    /\ inner \in {"run", "over", "panicked"}
    /\ channel \in {<<>>, <<"ok">>, <<"err">>}
    /\ cancel \in BOOLEAN /\ serving \in BOOLEAN
    /\ reason \in {"none", "ok", "err"}
    /\ recovered \in BOOLEAN
    /\ JobsTypeOK

Told == channel # <<>> \/ task["signal"] \in {"grace", "cancelled"} \/ sv = "drain"

\* A process that leaves with success was asked to: run_cmd returns Ok only
\* after a SIGTERM or SIGINT, whichever task's report the supervisor took first.
CleanExitOnlyOnSignal ==
    Alive /\ reason = "ok" => task["signal"] # "run"

\* Except on the way out of a failure, the token is cancelled only after the gRPC
\* health status went NotServing and the signal task's grace window was over.
DrainAnnounced ==
    Alive /\ cancel =>
        reason = "err" \/ (~serving /\ task["signal"] \notin {"run", "grace"})

\* Every handle the supervisor is past has stopped, by itself or aborted; and a
\* subscription task that ended by itself has left no consumer behind.
DrainedInOrder ==
    sv = "drain" =>
        /\ \A i \in 1 .. at : task[handles[i]] \in {"over", "panicked", "aborted"}
        /\ task["subscription"] = "over" => inner # "run"

\* Once a task has reported, or a signal has been received, the process ends,
\* even when a server never drains and the signal never comes.
StopsOnceTold == Told ~> ~Alive

\* The first report decides the exit: once a task's error waits in the channel of
\* one, the process ends with it, whatever a signal or the other tasks report.
ErrorIsKept == (sv = "recv" /\ channel = <<"err">>) ~> (~Alive /\ reason = "err")

\* As long as the process stays up, every stranded row LND can answer for is
\* resolved, although a tick walks only Limit rows, in no order, and rows LND
\* cannot answer for are listed again by each.
SweepReaches ==
    <>[]Polling => \A r \in Row \ Stuck : (row[r] = "stranded") ~> (row[r] = "resolved")

\* Every process that stays up runs the recovery sweep: listeners for the open
\* invoices exist again after each restart, as the job's documentation says.
RecoversEachBoot == Polling ~> (recovered \/ ~Polling)

\* A panic of an update consumer ends the process, so that it is restarted, as the
\* comment at the consumer's spawn says.
PanicIsNoticed == (task["consumer"] = "panicked" \/ inner = "panicked") ~> ~Alive
==============================================================================
