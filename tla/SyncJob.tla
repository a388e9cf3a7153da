-------------------------------- MODULE SyncJob --------------------------------
(***************************************************************************)
(* GitHub synchronization jobs: github.sync.start, github.sync.cancel, the *)
(* background worker of a job, shutdown and restart of the engine.         *)
(*                                                                         *)
(* The durable record of a job changes by compare-and-set only             *)
(* (EventStore::transition_job).  Worker and canceller each read it under  *)
(* one lock of the store and write it under another; besides the record    *)
(* they share a registry of active jobs with a watch channel per job.      *)
(***************************************************************************)
EXTENDS Naturals, FiniteSets

CONSTANTS
    Jobs,     \* jobs that may be created
    Callers   \* connections that may call github.sync.cancel

JobState == {"queued", "running", "cancelling", "cancelled", "succeeded",
             "failed", "interrupted"}

\* A client polls github.sync.status until it sees one of these.
Settled == {"cancelled", "succeeded", "failed", "interrupted"}

\* JobState::permits
JobPermits ==
    ({"queued"} \X {"running", "cancelled", "failed"})
    \cup ({"running"} \X {"cancelling", "succeeded", "failed", "interrupted"})
    \cup ({"cancelling"} \X {"cancelled", "succeeded", "failed", "interrupted"})
    \cup ({"interrupted"} \X {"queued", "cancelled", "failed"})

VARIABLES
    job,      \* jobs.state, "none" without a row
    ack,      \* jobs.cancellation_state
    active,   \* the registry: jobs with a watch sender
    signal,   \* the value of each job's watch channel
    worker,   \* where the background worker of each job is
    seen,     \* the job state the worker has read back
    result,   \* what the synchronization returned to its worker
    caller,   \* where each canceller is
    target,   \* the job a canceller was called for
    read,     \* the job state a canceller has read
    engine    \* "serving", "signalled" or "draining"

workerVars == <<worker, seen, result>>
callerVars == <<caller, target, read>>
vars == <<job, ack, active, signal, workerVars, callerVars, engine>>

WorkerPc == {"none", "spawned", "syncing", "returned", "deciding", "writing", "leaving"}

TypeOK ==
    /\ job \in [Jobs -> JobState \cup {"none"}]
    /\ ack \in [Jobs -> {"notRequested", "requested", "acknowledged"}]
    /\ active \subseteq Jobs
    /\ signal \in [Jobs -> BOOLEAN]
    /\ worker \in [Jobs -> WorkerPc]
    /\ seen \in [Jobs -> JobState \cup {"none"}]
    /\ result \in [Jobs -> {"none", "ok", "failed", "cancelled"}]
    /\ caller \in [Callers -> {"idle", "cancelling", "signalling"}]
    /\ target \in [Callers -> Jobs \cup {"none"}]
    /\ read \in [Callers -> JobState \cup {"none"}]
    /\ engine \in {"serving", "signalled", "draining"}

Init ==
    /\ job = [j \in Jobs |-> "none"]
    /\ ack = [j \in Jobs |-> "notRequested"]
    /\ active = {}
    /\ signal = [j \in Jobs |-> FALSE]
    /\ worker = [j \in Jobs |-> "none"]
    /\ seen = [j \in Jobs |-> "none"]
    /\ result = [j \in Jobs |-> "none"]
    /\ caller = [c \in Callers |-> "idle"]
    /\ target = [c \in Callers |-> "none"]
    /\ read = [c \in Callers |-> "none"]
    /\ engine = "serving"

\* Mutated form: the row is updated whatever state it is in.
TransitionJob_NoCompare(j, expected, next, cancellation) ==
    IF <<expected, next>> \in JobPermits
    THEN /\ job' = [job EXCEPT ![j] = next]
         /\ ack' = [ack EXCEPT ![j] = cancellation]
    ELSE UNCHANGED <<job, ack>>

\* Mutated form: the two columns are written in the wrong order.
TransitionJob_Swapped(j, expected, next, cancellation) ==
    IF <<expected, next>> \in JobPermits /\ job[j] = expected
    THEN /\ job' = [job EXCEPT ![j] = cancellation]
         /\ ack' = [ack EXCEPT ![j] = next]
    ELSE UNCHANGED <<job, ack>>

\* EventStore::transition_job: an error or a refusal leaves the row alone.
TransitionJob(j, expected, next, cancellation) ==
    IF <<expected, next>> \in JobPermits /\ job[j] = expected
    THEN /\ job' = [job EXCEPT ![j] = next]
         /\ ack' = [ack EXCEPT ![j] = cancellation]
    ELSE UNCHANGED <<job, ack>>

--------------------------------------------------------------------------------
(* Start and the background worker *)

\* Mutated form: the registry is not asked for another active job.
Free_Always == TRUE

\* github.sync.start refuses while the registry holds a job.
Free == active = {}

Start(j) ==
    /\ job[j] = "none"
    /\ Free
    /\ job' = [job EXCEPT ![j] = "queued"]
    /\ active' = active \cup {j}
    /\ worker' = [worker EXCEPT ![j] = "spawned"]
    /\ UNCHANGED <<ack, signal, seen, result, callerVars, engine>>

\* Mutated form: a job that did not start is left in the registry.
AfterRefusedStart_Done == "none"

\* A worker whose job cannot start only leaves the registry.
AfterRefusedStart == "leaving"

\* The first transition of run_github_sync_job.
Begin(j) ==
    /\ worker[j] = "spawned"
    /\ TransitionJob(j, "queued", "running", "notRequested")
    /\ worker' = [worker EXCEPT
                    ![j] = IF job[j] = "queued" THEN "syncing" ELSE AfterRefusedStart]
    /\ UNCHANGED <<active, signal, seen, result, callerVars, engine>>

\* run_cancellable_github_sync returns.  It may notice a raised signal at
\* each await, or return a result although one was raised meanwhile.
Synchronize(j) ==
    /\ worker[j] = "syncing"
    /\ \E r \in {"ok", "failed"} \cup (IF signal[j] THEN {"cancelled"} ELSE {}) :
          result' = [result EXCEPT ![j] = r]
    /\ worker' = [worker EXCEPT ![j] = "returned"]
    /\ UNCHANGED <<job, ack, active, signal, seen, callerVars, engine>>

\* The worker reads its job back ...
ReadBack(j) ==
    /\ worker[j] = "returned"
    /\ seen' = [seen EXCEPT ![j] = job[j]]
    /\ worker' = [worker EXCEPT ![j] = "deciding"]
    /\ UNCHANGED <<job, ack, active, signal, result, callerVars, engine>>

\* ... then looks at the signal ...
Decide(j) ==
    /\ worker[j] = "deciding"
    /\ result' = [result EXCEPT ![j] = IF signal[j] THEN "cancelled" ELSE @]
    /\ worker' = [worker EXCEPT ![j] = "writing"]
    /\ UNCHANGED <<job, ack, active, signal, seen, callerVars, engine>>

\* Mutated form: the cancellation is not acknowledged.
Outcome_Requested(r) ==
    CASE r = "cancelled" -> <<"cancelled", "requested">>
      [] r = "ok" -> <<"succeeded", "notRequested">>
      [] r = "failed" -> <<"failed", "notRequested">>

Outcome(r) ==
    CASE r = "cancelled" -> <<"cancelled", "acknowledged">>
      [] r = "ok" -> <<"succeeded", "notRequested">>
      [] r = "failed" -> <<"failed", "notRequested">>

\* ... and writes the outcome from the state it read.  A refused transition
\* is ignored.
WriteOutcome(j) ==
    LET outcome == Outcome(result[j])
    IN  /\ worker[j] = "writing"
        /\ TransitionJob(j, seen[j], outcome[1], outcome[2])
        /\ worker' = [worker EXCEPT ![j] = "leaving"]
        /\ UNCHANGED <<active, signal, seen, result, callerVars, engine>>

Leave(j) ==
    /\ worker[j] = "leaving"
    /\ active' = active \ {j}
    /\ worker' = [worker EXCEPT ![j] = "none"]
    /\ seen' = [seen EXCEPT ![j] = "none"]
    /\ result' = [result EXCEPT ![j] = "none"]
    /\ UNCHANGED <<job, ack, signal, callerVars, engine>>

--------------------------------------------------------------------------------
(* github.sync.cancel *)

CancelRead(c, j) ==
    /\ caller[c] = "idle"
    /\ job[j] # "none"
    /\ target' = [target EXCEPT ![c] = j]
    /\ read' = [read EXCEPT ![c] = job[j]]
    /\ caller' = [caller EXCEPT ![c] =
                    IF job[j] \in {"queued", "running"} THEN "cancelling" ELSE "signalling"]
    /\ UNCHANGED <<job, ack, active, signal, workerVars, engine>>

\* A queued job is cancelled on the spot, a running one is asked to stop; a
\* refused transition is not reported.
CancelWrite(c) ==
    /\ caller[c] = "cancelling"
    /\ IF read[c] = "queued"
       THEN TransitionJob(target[c], "queued", "cancelled", "acknowledged")
       ELSE TransitionJob(target[c], "running", "cancelling", "requested")
    /\ caller' = [caller EXCEPT ![c] = "signalling"]
    /\ UNCHANGED <<active, signal, workerVars, target, read, engine>>

CancelSignal(c) ==
    /\ caller[c] = "signalling"
    /\ signal' = [signal EXCEPT ![target[c]] = @ \/ target[c] \in active]
    /\ caller' = [caller EXCEPT ![c] = "idle"]
    /\ target' = [target EXCEPT ![c] = "none"]
    /\ read' = [read EXCEPT ![c] = "none"]
    /\ UNCHANGED <<job, ack, active, workerVars, engine>>

--------------------------------------------------------------------------------
(* Shutdown, crash and restart *)

\* Every active job is signalled, under one lock of the registry ...
ShutdownSignal ==
    /\ engine = "serving"
    /\ engine' = "signalled"
    /\ signal' = [j \in Jobs |-> signal[j] \/ j \in active]
    /\ UNCHANGED <<job, ack, active, workerVars, callerVars>>

\* ... which is emptied under another; connections are served for a while.
ShutdownClear ==
    /\ engine = "signalled"
    /\ engine' = "draining"
    /\ active' = {}
    /\ UNCHANGED <<job, ack, signal, workerVars, callerVars>>

\* Mutated form: only a job that was being cancelled is recovered.
Recoverable_Cancelling == {"cancelling"}

\* recover_interrupted_jobs
Recoverable == {"running", "cancelling"}

\* The process ends, at the end of a shutdown or at any point by a crash, and
\* is started again.  Opening the store interrupts what was running.
Restart ==
    /\ job' = [j \in Jobs |-> IF job[j] \in Recoverable THEN "interrupted" ELSE job[j]]
    /\ active' = {}
    /\ signal' = [j \in Jobs |-> FALSE]
    /\ worker' = [j \in Jobs |-> "none"]
    /\ seen' = [j \in Jobs |-> "none"]
    /\ result' = [j \in Jobs |-> "none"]
    /\ caller' = [c \in Callers |-> "idle"]
    /\ target' = [c \in Callers |-> "none"]
    /\ read' = [c \in Callers |-> "none"]
    /\ engine' = "serving"
    /\ UNCHANGED ack

--------------------------------------------------------------------------------

WorkerStep(j) ==
    Begin(j) \/ Synchronize(j) \/ ReadBack(j) \/ Decide(j) \/ WriteOutcome(j) \/ Leave(j)

CallerStep(c) == CancelWrite(c) \/ CancelSignal(c)

Next ==
    \/ \E j \in Jobs : Start(j) \/ WorkerStep(j)
    \/ \E c \in Callers : CallerStep(c) \/ \E j \in Jobs : CancelRead(c, j)
    \/ ShutdownSignal \/ ShutdownClear \/ Restart

Spec == Init /\ [][Next]_vars

\* A spawned worker keeps running while the process lives, its requests to
\* GitHub end (they have a timeout), and a cancel that was read finishes.
FairSpec ==
    /\ Spec
    /\ \A j \in Jobs : WF_vars(WorkerStep(j))
    /\ \A c \in Callers : WF_vars(CallerStep(c))

--------------------------------------------------------------------------------
(* Properties *)

\* The synchronization is single flight: while the engine serves, no two
\* workers synchronize, also when a job was cancelled before it began.
SingleFlight ==
    engine = "serving" =>
        Cardinality({j \in Jobs : worker[j] \notin {"none", "leaving"}}) <= 1

\* A job that ended keeps its outcome: a late cancel, a worker with an older
\* reading or a restart never rewrites it.
OutcomeIsFinal ==
    [][\A j \in Jobs : job[j] \in Settled => job'[j] = job[j]]_vars

\* A cancellation that the record acknowledges did end the job, and a job
\* recorded as cancelled was acknowledged.
AcknowledgedMeansCancelled ==
    \A j \in Jobs : ack[j] = "acknowledged" <=> job[j] = "cancelled"

\* A job on record as running has a worker that will settle it while the
\* engine serves, over crashes and restarts; only the signal of a
\* github.sync.cancel may strand it (see the README).
RunningHasWorker ==
    engine = "serving" =>
        \A j \in Jobs : job[j] = "running" /\ ~signal[j] =>
            worker[j] \notin {"none", "spawned", "leaving"}

\* The registry frees itself, whatever the record says of the job: the next
\* github.sync.start is not refused for ever.
RegistryDrains == \A j \in Jobs : j \in active ~> j \notin active

================================================================================
