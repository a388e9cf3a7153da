----------------------------- MODULE SyncJob_proofs -----------------------------
(***************************************************************************)
(* Proofs about SyncJob, for any sets of jobs and of cancelling callers.   *)
(***************************************************************************)
EXTENDS SyncJob, FiniteSetTheorems, TLAPS

\* A transition keeps the two columns typed.
LEMMA TransitionType ==
    ASSUME TypeOK, NEW j \in Jobs, NEW expected, NEW next \in JobState,
           NEW c \in {"notRequested", "requested", "acknowledged"},
           TransitionJob(j, expected, next, c)
    PROVE  /\ job' \in [Jobs -> JobState \cup {"none"}]
           /\ ack' \in [Jobs -> {"notRequested", "requested", "acknowledged"}]
BY DEF TransitionJob, TypeOK

LEMMA OutcomeType ==
    ASSUME NEW r \in {"ok", "failed", "cancelled"}
    PROVE  /\ Outcome(r)[1] \in {"cancelled", "succeeded", "failed"}
           /\ Outcome(r)[1] \in JobState
           /\ Outcome(r)[2] \in {"notRequested", "acknowledged"}
           /\ Outcome(r)[2] = "acknowledged" <=> Outcome(r)[1] = "cancelled"
BY DEF Outcome, JobState

\* A worker past the synchronization has its result, and one that has a
\* cancellation to write knows its job.
Handover ==
    /\ \A j \in Jobs : worker[j] \in {"returned", "deciding", "writing"} =>
          result[j] \in {"ok", "failed", "cancelled"}
    /\ \A c \in Callers : caller[c] # "idle" => target[c] \in Jobs

--------------------------------------------------------------------------------
(* Type correctness *)

LEMMA TypeInit == Init => TypeOK /\ Handover
BY DEF Init, TypeOK, Handover, JobState, WorkerPc

LEMMA TypeStep == TypeOK /\ Handover /\ [Next]_vars => TypeOK' /\ Handover'
<1> SUFFICES ASSUME TypeOK, Handover, [Next]_vars
             PROVE  TypeOK' /\ Handover'
  OBVIOUS
<1>1. ASSUME NEW j \in Jobs, Start(j)
      PROVE  TypeOK' /\ Handover'
  BY <1>1 DEF Start, TypeOK, Handover, JobState, WorkerPc, callerVars
<1>2. ASSUME NEW j \in Jobs, Begin(j)
      PROVE  TypeOK' /\ Handover'
  <2>1. /\ job' \in [Jobs -> JobState \cup {"none"}]
        /\ ack' \in [Jobs -> {"notRequested", "requested", "acknowledged"}]
    BY <1>2, TransitionType DEF Begin, JobState
  <2>2. worker' \in [Jobs -> WorkerPc]
    BY <1>2 DEF Begin, AfterRefusedStart, TypeOK, WorkerPc
  <2>3. \A i \in Jobs : worker'[i] \in {"returned", "deciding", "writing"} =>
           worker[i] \in {"returned", "deciding", "writing"}
    BY <1>2 DEF Begin, AfterRefusedStart, TypeOK
  <2>4. UNCHANGED <<active, signal, seen, result, callerVars, engine>>
    BY <1>2 DEF Begin
  <2> QED
    BY <2>1, <2>2, <2>3, <2>4 DEF TypeOK, Handover, callerVars
<1>3. ASSUME NEW j \in Jobs, Synchronize(j) \/ ReadBack(j) \/ Decide(j) \/ Leave(j)
      PROVE  TypeOK' /\ Handover'
  <2>1. worker' \in [Jobs -> WorkerPc]
    BY <1>3 DEF Synchronize, ReadBack, Decide, Leave, TypeOK, WorkerPc
  <2>2. /\ seen' \in [Jobs -> JobState \cup {"none"}]
        /\ result' \in [Jobs -> {"none", "ok", "failed", "cancelled"}]
        /\ active' \subseteq Jobs
    BY <1>3 DEF Synchronize, ReadBack, Decide, Leave, TypeOK
  <2>3. /\ UNCHANGED <<job, ack, signal, callerVars, engine>>
        /\ \A i \in Jobs : worker'[i] \in {"returned", "deciding", "writing"} =>
              result'[i] \in {"ok", "failed", "cancelled"}
    BY <1>3 DEF Synchronize, ReadBack, Decide, Leave, TypeOK, Handover
  <2> QED
    BY <2>1, <2>2, <2>3 DEF TypeOK, Handover, callerVars
<1>4. ASSUME NEW j \in Jobs, WriteOutcome(j)
      PROVE  TypeOK' /\ Handover'
  <2>1. result[j] \in {"ok", "failed", "cancelled"}
    BY <1>4 DEF WriteOutcome, Handover
  <2>2. /\ job' \in [Jobs -> JobState \cup {"none"}]
        /\ ack' \in [Jobs -> {"notRequested", "requested", "acknowledged"}]
    BY <1>4, <2>1, OutcomeType, TransitionType DEF WriteOutcome
  <2>3. worker' \in [Jobs -> WorkerPc]
    BY <1>4 DEF WriteOutcome, TypeOK, WorkerPc
  <2>4. \A i \in Jobs : worker'[i] \in {"returned", "deciding", "writing"} =>
           worker[i] \in {"returned", "deciding", "writing"}
    BY <1>4 DEF WriteOutcome, TypeOK
  <2>5. UNCHANGED <<active, signal, seen, result, callerVars, engine>>
    BY <1>4 DEF WriteOutcome
  <2> QED
    BY <2>2, <2>3, <2>4, <2>5 DEF TypeOK, Handover, callerVars
<1>5. ASSUME NEW c \in Callers, CancelWrite(c)
      PROVE  TypeOK' /\ Handover'
  <2>1. target[c] \in Jobs
    BY <1>5 DEF CancelWrite, Handover
  <2>2. /\ job' \in [Jobs -> JobState \cup {"none"}]
        /\ ack' \in [Jobs -> {"notRequested", "requested", "acknowledged"}]
    BY <1>5, <2>1, TransitionType DEF CancelWrite, JobState
  <2> QED
    BY <1>5, <2>2 DEF CancelWrite, TypeOK, Handover, workerVars
<1>6. ASSUME NEW c \in Callers,
             CancelSignal(c) \/ \E j \in Jobs : CancelRead(c, j)
      PROVE  TypeOK' /\ Handover'
  <2>1. CASE CancelSignal(c)
    BY <2>1 DEF CancelSignal, TypeOK, Handover, workerVars
  <2>2. ASSUME NEW j \in Jobs, CancelRead(c, j)
        PROVE  TypeOK' /\ Handover'
    BY <2>2 DEF CancelRead, TypeOK, Handover, workerVars
  <2> QED
    BY <1>6, <2>1, <2>2
<1>7. CASE ShutdownSignal \/ ShutdownClear
  <2>1. signal' \in [Jobs -> BOOLEAN]
    <3>1. CASE ShutdownSignal
      <4>1. \A i \in Jobs : (signal[i] \/ i \in active) \in BOOLEAN
        BY Zenon
      <4>2. [i \in Jobs |-> signal[i] \/ i \in active] \in [Jobs -> BOOLEAN]
        BY <4>1, Zenon
      <4> QED
        BY <3>1, <4>2, Zenon DEF ShutdownSignal
    <3>2. CASE ShutdownClear
      BY <3>2, Zenon DEF ShutdownClear, TypeOK
    <3> QED
      BY <1>7, <3>1, <3>2, Zenon
  <2>2. /\ active' \subseteq Jobs
        /\ engine' \in {"serving", "signalled", "draining"}
        /\ UNCHANGED <<job, ack, workerVars, callerVars>>
    BY <1>7 DEF ShutdownSignal, ShutdownClear, TypeOK
  <2> QED
    BY <2>1, <2>2 DEF TypeOK, Handover, workerVars, callerVars
<1>8. CASE Restart
  BY <1>8 DEF Restart, TypeOK, Handover, JobState, WorkerPc
<1>9. CASE UNCHANGED vars
  BY <1>9 DEF vars, TypeOK, Handover, workerVars, callerVars
<1> QED
  BY <1>1, <1>2, <1>3, <1>4, <1>5, <1>6, <1>7, <1>8, <1>9
  DEF Next, WorkerStep, CallerStep

\* Every variable keeps its type; a worker that writes an outcome has one.
THEOREM TypeCorrect == Spec => [](TypeOK /\ Handover)
BY TypeInit, TypeStep, PTL DEF Spec

--------------------------------------------------------------------------------
(* The durable record *)

\* Only a restart interrupts a synchronization, and no worker survives it.
InterruptedIsIdle ==
    \A j \in Jobs : job[j] \in {"none", "interrupted"} => worker[j] = "none"

\* What any step may do to the record of one job.
RecordStep(j) ==
    \/ UNCHANGED <<job[j], ack[j]>>
    \/ job[j] = "none" /\ job'[j] = "queued" /\ ack'[j] = ack[j]
    \/ job[j] = "queued" /\ job'[j] = "running" /\ ack'[j] = "notRequested"
    \/ job[j] = "queued" /\ job'[j] = "cancelled" /\ ack'[j] = "acknowledged"
    \/ job[j] = "running" /\ job'[j] = "cancelling" /\ ack'[j] = "requested"
    \/ /\ job[j] \in {"queued", "running", "cancelling"}
       /\ job'[j] \in {"cancelled", "succeeded", "failed"}
       /\ ack'[j] = "acknowledged" <=> job'[j] = "cancelled"
    \/ /\ Restart
       /\ job[j] \in {"running", "cancelling"}
       /\ job'[j] = "interrupted" /\ ack'[j] = ack[j]

LEMMA RecordChange ==
    ASSUME TypeOK, Handover, InterruptedIsIdle, [Next]_vars, NEW j \in Jobs
    PROVE  RecordStep(j)
<1>1. ASSUME NEW i \in Jobs, Start(i)
      PROVE  RecordStep(j)
  BY <1>1 DEF Start, RecordStep, TypeOK
<1>2. ASSUME NEW i \in Jobs, Begin(i)
      PROVE  RecordStep(j)
  BY <1>2 DEF Begin, TransitionJob, RecordStep, TypeOK
<1>3. ASSUME NEW i \in Jobs, WriteOutcome(i)
      PROVE  RecordStep(j)
  <2> DEFINE o == Outcome(result[i])
  <2>1. /\ o[1] \in {"cancelled", "succeeded", "failed"}
        /\ o[2] = "acknowledged" <=> o[1] = "cancelled"
    BY <1>3, OutcomeType DEF WriteOutcome, Handover
  <2>2. job[i] \notin {"none", "interrupted"}
    BY <1>3 DEF WriteOutcome, InterruptedIsIdle
  <2>3. \/ UNCHANGED <<job, ack>>
        \/ /\ <<job[i], o[1]>> \in JobPermits
           /\ job' = [job EXCEPT ![i] = o[1]]
           /\ ack' = [ack EXCEPT ![i] = o[2]]
    BY <1>3 DEF WriteOutcome, TransitionJob
  <2>4. <<job[i], o[1]>> \in JobPermits => job[i] \in {"queued", "running", "cancelling"}
    BY <2>2 DEF JobPermits
  <2> QED
    BY <2>1, <2>3, <2>4 DEF RecordStep, TypeOK
<1>4. ASSUME NEW c \in Callers, CancelWrite(c)
      PROVE  RecordStep(j)
  <2>1. target[c] \in Jobs
    BY <1>4 DEF CancelWrite, Handover
  <2> QED
    BY <1>4, <2>1 DEF CancelWrite, TransitionJob, RecordStep, TypeOK
<1>5. CASE Restart
  BY <1>5 DEF Restart, Recoverable, RecordStep, TypeOK
<1>6. ASSUME \/ \E i \in Jobs : Synchronize(i) \/ ReadBack(i) \/ Decide(i) \/ Leave(i)
             \/ \E c \in Callers : CancelSignal(c) \/ \E i \in Jobs : CancelRead(c, i)
             \/ ShutdownSignal \/ ShutdownClear \/ UNCHANGED vars
      PROVE  RecordStep(j)
  BY <1>6
  DEF Synchronize, ReadBack, Decide, Leave, CancelSignal, CancelRead, ShutdownSignal,
      ShutdownClear, vars, RecordStep
<1> QED
  BY <1>1, <1>2, <1>3, <1>4, <1>5, <1>6 DEF Next, WorkerStep, CallerStep

LEMMA IdleStep ==
    TypeOK /\ Handover /\ InterruptedIsIdle /\ [Next]_vars => InterruptedIsIdle'
<1> SUFFICES ASSUME TypeOK, Handover, InterruptedIsIdle, [Next]_vars,
                    NEW j \in Jobs, job'[j] \in {"none", "interrupted"}
             PROVE  worker'[j] = "none"
  BY DEF InterruptedIsIdle
<1>1. CASE Restart
  BY <1>1 DEF Restart
<1>2. CASE ~Restart
  <2>1. job[j] \in {"none", "interrupted"}
    BY <1>2, RecordChange DEF RecordStep
  <2>2. worker[j] = "none"
    BY <2>1 DEF InterruptedIsIdle
  <2>3. ASSUME worker'[j] # "none"
        PROVE  job[j] = "none" /\ job'[j] = "queued"
    BY <1>2, <2>2, <2>3
    DEF Next, WorkerStep, CallerStep, Start, Begin, Synchronize, ReadBack, Decide,
        WriteOutcome, Leave, CancelRead, CancelWrite, CancelSignal, ShutdownSignal,
        ShutdownClear, vars, workerVars, TypeOK
  <2> QED
    BY <2>3
<1> QED
  BY <1>1, <1>2

LEMMA RecordInvariant == Spec => [](TypeOK /\ Handover /\ InterruptedIsIdle)
<1>1. Init => InterruptedIsIdle
  BY DEF Init, InterruptedIsIdle
<1> QED
  BY <1>1, IdleStep, TypeCorrect, PTL DEF Spec

\* No race of a cancel with the worker, of two cancels or with a restart
\* rewrites the outcome of a job that ended.
THEOREM OutcomeStays == Spec => OutcomeIsFinal
<1>1. ASSUME TypeOK, Handover, InterruptedIsIdle, [Next]_vars,
             NEW j \in Jobs, job[j] \in Settled
      PROVE  job'[j] = job[j]
  BY <1>1, RecordChange DEF RecordStep, Settled
<1>2. TypeOK /\ Handover /\ InterruptedIsIdle /\ [Next]_vars =>
         [\A j \in Jobs : job[j] \in Settled => job'[j] = job[j]]_vars
  BY <1>1
<1> QED
  BY <1>2, RecordInvariant, PTL DEF Spec, OutcomeIsFinal

\* The record acknowledges a cancellation exactly when the job is cancelled.
THEOREM CancelIsAcknowledged == Spec => []AcknowledgedMeansCancelled
<1>1. Init => AcknowledgedMeansCancelled
  BY DEF Init, AcknowledgedMeansCancelled
<1>2. /\ TypeOK /\ Handover /\ InterruptedIsIdle
      /\ AcknowledgedMeansCancelled /\ [Next]_vars
      => AcknowledgedMeansCancelled'
  <2> SUFFICES ASSUME TypeOK, Handover, InterruptedIsIdle,
                      AcknowledgedMeansCancelled, [Next]_vars, NEW j \in Jobs
               PROVE  ack'[j] = "acknowledged" <=> job'[j] = "cancelled"
    BY DEF AcknowledgedMeansCancelled
  <2> QED
    BY RecordChange DEF RecordStep, AcknowledgedMeansCancelled
<1> QED
  BY <1>1, <1>2, RecordInvariant, PTL DEF Spec

--------------------------------------------------------------------------------
(* Single flight *)

\* Until the shutdown empties it, the registry holds one job at most and
\* every worker's job.
Registered ==
    engine # "draining" =>
        /\ \A i, j \in active : i = j
        /\ \A j \in Jobs : worker[j] # "none" => j \in active

LEMMA RegisteredStep == TypeOK /\ Registered /\ [Next]_vars => Registered'
<1> SUFFICES ASSUME TypeOK, Registered, [Next]_vars
             PROVE  Registered'
  OBVIOUS
<1>1. ASSUME NEW j \in Jobs, Start(j)
      PROVE  Registered'
  BY <1>1 DEF Start, Free, Registered, TypeOK
<1>2. ASSUME NEW j \in Jobs,
             Begin(j) \/ Synchronize(j) \/ ReadBack(j) \/ Decide(j) \/ WriteOutcome(j)
      PROVE  Registered'
  <2>1. /\ UNCHANGED <<active, engine>>
        /\ \A i \in Jobs : worker'[i] # "none" => worker[i] # "none"
    BY <1>2 DEF Begin, Synchronize, ReadBack, Decide, WriteOutcome, TypeOK
  <2> QED
    BY <2>1 DEF Registered
<1>3. ASSUME NEW j \in Jobs, Leave(j)
      PROVE  Registered'
  BY <1>3 DEF Leave, Registered, TypeOK
<1>4. CASE ShutdownSignal \/ ShutdownClear
  BY <1>4 DEF ShutdownSignal, ShutdownClear, Registered, workerVars
<1>5. CASE Restart
  BY <1>5 DEF Restart, Registered
<1>6. ASSUME \/ \E c \in Callers : CallerStep(c) \/ \E j \in Jobs : CancelRead(c, j)
             \/ UNCHANGED vars
      PROVE  UNCHANGED <<active, engine, worker>>
  BY <1>6 DEF CallerStep, CancelWrite, CancelSignal, CancelRead, vars, workerVars
<1>7. ASSUME UNCHANGED <<active, engine, worker>>
      PROVE  Registered'
  BY <1>7 DEF Registered
<1> QED
  BY <1>1, <1>2, <1>3, <1>4, <1>5, <1>6, <1>7 DEF Next, WorkerStep

\* While the engine serves, no two synchronizations run, however starts,
\* cancels before the start and early exits of workers interleave.
THEOREM SyncIsSingleFlight == Spec => []SingleFlight
<1>1. Init => Registered
  BY DEF Init, Registered
<1>2. Registered => SingleFlight
  <2> SUFFICES ASSUME Registered, engine = "serving"
               PROVE  Cardinality({j \in Jobs : worker[j] \notin {"none", "leaving"}}) <= 1
    BY DEF SingleFlight
  <2> DEFINE busy == {j \in Jobs : worker[j] \notin {"none", "leaving"}}
  <2>1. \A i, j \in busy : i = j
    BY DEF Registered
  <2>2. CASE busy = {}
    BY <2>2, FS_EmptySet
  <2>3. CASE busy # {}
    <3>1. PICK x \in busy : TRUE
      BY <2>3
    <3>2. busy = {x}
      BY <2>1, <3>1
    <3>3. Cardinality(busy) = 1
      BY <3>2, FS_Singleton
    <3> QED
      BY <3>3
  <2> QED
    BY <2>2, <2>3
<1> QED
  BY <1>1, <1>2, RegisteredStep, TypeCorrect, PTL DEF Spec

--------------------------------------------------------------------------------
(* Running jobs have a worker *)

\* The worker of a running job is past its start and has read no other state of
\* the job, and it gives a synchronization up only on a signal.  So when it
\* leaves without a signal, it has written an outcome that the job permitted.
Attended ==
    \A j \in Jobs :
        /\ job[j] = "running" /\ ~signal[j] =>
              worker[j] \in {"syncing", "returned", "deciding", "writing"}
        /\ job[j] = "running" /\ worker[j] \in {"deciding", "writing"} => seen[j] = "running"
        /\ worker[j] = "spawned" => job[j] # "running"
        /\ result[j] = "cancelled" => signal[j]

LEMMA AttendedStep == TypeOK /\ Handover /\ Attended /\ [Next]_vars => Attended'
<1> SUFFICES ASSUME TypeOK, Handover, Attended, [Next]_vars
             PROVE  Attended'
  OBVIOUS
<1> USE DEF TypeOK, Attended
<1>1. ASSUME NEW j \in Jobs, Start(j)
      PROVE  Attended'
  BY <1>1 DEF Start
<1>2. ASSUME NEW j \in Jobs, Begin(j)
      PROVE  Attended'
  BY <1>2 DEF Begin, TransitionJob, JobPermits, AfterRefusedStart
<1>3. ASSUME NEW j \in Jobs, Synchronize(j)
      PROVE  Attended'
  BY <1>3 DEF Synchronize
<1>4. ASSUME NEW j \in Jobs, ReadBack(j)
      PROVE  Attended'
  BY <1>4 DEF ReadBack
<1>5. ASSUME NEW j \in Jobs, Decide(j)
      PROVE  Attended'
  BY <1>5 DEF Decide
<1>6. ASSUME NEW j \in Jobs, WriteOutcome(j)
      PROVE  Attended'
  <2>1. result[j] \in {"ok", "failed", "cancelled"}
    BY <1>6 DEF WriteOutcome, Handover
  <2>2. \A i \in Jobs : job'[i] = "running" => job[i] = "running"
    BY <1>6, <2>1, OutcomeType DEF WriteOutcome, TransitionJob
  <2>3. job[j] = "running" /\ ~signal[j] => job'[j] # "running"
    BY <1>6, <2>1 DEF WriteOutcome, TransitionJob, Outcome, JobPermits
  <2> QED
    BY <1>6, <2>2, <2>3 DEF WriteOutcome
<1>7. ASSUME NEW j \in Jobs, Leave(j)
      PROVE  Attended'
  BY <1>7 DEF Leave
<1>8. ASSUME NEW c \in Callers, CancelWrite(c)
      PROVE  Attended'
  <2>1. /\ \A i \in Jobs : job'[i] = "running" => job[i] = "running"
        /\ UNCHANGED <<worker, seen, result, signal>>
    BY <1>8 DEF CancelWrite, TransitionJob, workerVars
  <2> QED
    BY <2>1
<1>9. ASSUME NEW c \in Callers, CancelSignal(c)
      PROVE  Attended'
  <2>1. /\ \A i \in Jobs : signal[i] => signal'[i]
        /\ UNCHANGED <<job, worker, seen, result>>
    BY <1>9 DEF CancelSignal, workerVars
  <2> QED
    BY <2>1
<1>10. ASSUME NEW c \in Callers, NEW j \in Jobs, CancelRead(c, j)
      PROVE  Attended'
  BY <1>10 DEF CancelRead, workerVars
<1>11. CASE ShutdownSignal
  BY <1>11 DEF ShutdownSignal, workerVars
<1>12. CASE ShutdownClear
  BY <1>12 DEF ShutdownClear, workerVars
<1>13. CASE Restart
  BY <1>13 DEF Restart, Recoverable
<1>14. CASE UNCHANGED vars
  BY <1>14 DEF vars, workerVars
<1> QED
  BY <1>1, <1>2, <1>3, <1>4, <1>5, <1>6, <1>7, <1>8, <1>9, <1>10, <1>11,
     <1>12, <1>13, <1>14 DEF Next, WorkerStep, CallerStep

\* While the engine serves, only the signal of a cancellation can strand a job
\* that is on record as running (rpc.rs run_github_sync_job).
THEOREM RunningJobHasWorker == Spec => []RunningHasWorker
<1>1. Init => Attended
  BY DEF Init, Attended
<1>2. Attended => RunningHasWorker
  BY DEF Attended, RunningHasWorker
<1> QED
  BY <1>1, <1>2, AttendedStep, TypeCorrect, PTL DEF Spec
================================================================================
