----------------------------- MODULE Delivery_proofs -----------------------------
(***************************************************************************)
(* Proofs about Delivery, for every set of tasks, actions, workers and     *)
(* approvals that satisfies DeliveryAssumption: its invariants, and that   *)
(* it implements RemoteWrite.                                              *)
(***************************************************************************)
EXTENDS Delivery, TLAPS

\* An approval names a task and an action that the contract permits, and is
\* none of the absent values.
LEMMA ApprovalFields ==
    ASSUME NEW ap \in Approvals
    PROVE  /\ ap.task \in Tasks
           /\ ap.action \in Actions
           /\ <<ap.task, ap.action>> \in Permitted
           /\ TargetOf[ap.action] = ItemOf[ap.task]
           /\ IsMerge(ap.action) => IsPull[ItemOf[ap.task]]
           /\ ap # None
BY DeliveryAssumption DEF Approvals, IsMerge

\* The lifecycle walk after a success stays among the task states.
LEMMA AfterSuccessType ==
    ASSUME NEW a \in Actions, NEW s \in TaskState
    PROVE  AfterSuccess(a, s) \in TaskState
BY DEF AfterSuccess, TaskState, Gates, Interruptions, Terminal

\* Invalidation only turns live approvals dead.
LEMMA InvalidatedType ==
    ASSUME TypeOK, NEW t \in Tasks
    PROVE  /\ Invalidated(t) \in [Approvals -> {"unissued", "live", "dead"}]
           /\ \A ap \in Approvals : Invalidated(t)[ap] = "live" =>
                 status[ap] = "live" /\ ap.task # t
BY DEF Invalidated, TypeOK

\* A worker inside delivery.execute works for an approval, hence for a task
\* and an action.
LEMMA BusyWorker ==
    ASSUME TypeOK, NEW w \in Workers, pc[w] # "idle"
    PROVE  /\ using[w] \in Approvals
           /\ Task(w) \in Tasks
           /\ Action(w) \in Actions
           /\ Action(w) = using[w].action
           /\ Task(w) = using[w].task
BY ApprovalFields DEF TypeOK, Task, Action

--------------------------------------------------------------------------------
(* Type correctness *)

LEMMA InitType == Init => TypeOK
BY DeliveryAssumption
DEF Init, TypeOK, TaskState, Gates, Interruptions, Terminal, RowState, ItemState

\* The steps of a worker: delivery.execute from the claim to the outcome.
LEMMA WorkerType ==
    ASSUME TypeOK, NEW w \in Workers, WorkerStep(w)
    PROVE  TypeOK'
<1>1. ASSUME NEW ap \in Approvals, Claim(w, ap)
      PROVE  TypeOK'
  <2>1. /\ ap.task \in Tasks
        /\ ap.action \in Actions
    BY ApprovalFields
  <2>2. uses' \in [Approvals -> 0..2]
    BY <1>1 DEF Claim, TypeOK, Bump
  <2>3. row' \in [Actions -> RowState]
    BY <1>1, <2>1 DEF Claim, TypeOK, RowState
  <2>4. /\ state' \in [Tasks -> TaskState]
        /\ owner' \in [Actions -> Tasks \cup {None}]
    BY <1>1, <2>1 DEF Claim, TypeOK, TaskState
  <2>5. /\ pc' \in [Workers -> {"idle", "claimed", "sent", "answered"}]
        /\ using' \in [Workers -> Approvals \cup {None}]
        /\ \A v \in Workers : pc'[v] # "idle" => using'[v] \in Approvals
    BY <1>1 DEF Claim, TypeOK
  <2> QED
    BY <1>1, <2>2, <2>3, <2>4, <2>5 DEF Claim, TypeOK, codexVars, remoteVars
<1>2. CASE FailLocally(w)
  BY <1>2 DEF FailLocally, TypeOK, taskVars, rowVars, codexVars, remoteVars
<1>3. CASE Send(w)
  BY <1>3 DEF Send, TypeOK, taskVars, rowVars, codexVars, remoteVars
<1>4. CASE Serve(w)
  <2>1. Action(w) \in Actions
    BY <1>4, BusyWorker DEF Serve
  <2>2. LostReply(Action(w)) \in {"refused", "lost"}
    BY DEF LostReply
  <2>3. reply' \in [Workers -> {"none", "ok", "refused", "lost"}]
    BY <1>4, <2>2 DEF Serve, TypeOK
  <2>4. effects' \in [Actions -> 0..2]
    BY <1>4, <2>1 DEF Serve, Land, Bump, TypeOK
  <2>5. item' \in [Items -> ItemState]
    BY <1>4, <2>1 DEF Serve, Land, TypeOK, ItemState
  <2>6. shown' \subseteq Items
    BY <1>4 DEF Serve, Land, Show, TypeOK
  <2> QED
    BY <1>4, <2>3, <2>4, <2>5, <2>6 DEF Serve, TypeOK, taskVars, rowVars, codexVars
<1>5. CASE Refuse(w)
  BY <1>5 DEF Refuse, TypeOK, taskVars, rowVars, codexVars, remoteVars
<1>6. CASE LoseRequest(w)
  <2>1. Action(w) \in Actions
    BY <1>6, BusyWorker DEF LoseRequest
  <2>2. LostReply(Action(w)) \in {"refused", "lost"}
    BY DEF LostReply
  <2> QED
    BY <1>6, <2>1, <2>2 DEF LoseRequest, TypeOK, taskVars, rowVars, codexVars
<1>7. CASE RecordSuccess(w)
  <2>1. Action(w) \in Actions /\ Task(w) \in Tasks
    BY <1>7, BusyWorker DEF RecordSuccess
  <2>2. state' \in [Tasks -> TaskState]
    BY <1>7, <2>1, AfterSuccessType DEF RecordSuccess, TypeOK
  <2>3. row' \in [Actions -> RowState]
    BY <1>7, <2>1 DEF RecordSuccess, TypeOK, RowState
  <2> QED
    BY <1>7, <2>2, <2>3
    DEF RecordSuccess, Finish, TypeOK, codexVars, remoteVars
<1>8. CASE RecordAmbiguous(w)
  <2>1. Action(w) \in Actions
    BY <1>8, BusyWorker DEF RecordAmbiguous
  <2>2. row' \in [Actions -> RowState]
    BY <1>8, <2>1 DEF RecordAmbiguous, TypeOK, RowState
  <2> QED
    BY <1>8, <2>2
    DEF RecordAmbiguous, Finish, TypeOK, taskVars, codexVars, remoteVars
<1>9. CASE RecordFailure(w)
  <2>1. Action(w) \in Actions /\ Task(w) \in Tasks
    BY <1>9, BusyWorker DEF RecordFailure
  <2>2. row' \in [Actions -> RowState]
    BY <1>9, <2>1 DEF RecordFailure, TypeOK, RowState
  <2>3. state' \in [Tasks -> TaskState]
    BY <1>9, <2>1 DEF RecordFailure, TypeOK, TaskState, Gates
  <2>4. Invalidated(Task(w)) \in [Approvals -> {"unissued", "live", "dead"}]
    BY <2>1, InvalidatedType
  <2>5. status' \in [Approvals -> {"unissued", "live", "dead"}]
    BY <1>9, <2>4 DEF RecordFailure, TypeOK
  <2> QED
    BY <1>9, <2>2, <2>3, <2>5 DEF RecordFailure, Finish, TypeOK, codexVars, remoteVars
<1> QED
  BY <1>1, <1>2, <1>3, <1>4, <1>5, <1>6, <1>7, <1>8, <1>9 DEF WorkerStep

\* Reconciliation, monitors and Codex interruptions of one task.
LEMMA TaskType ==
    ASSUME TypeOK, NEW t \in Tasks, TaskStep(t)
    PROVE  TypeOK'
<1>1. CASE FetchSnapshot(t)
  BY <1>1, DeliveryAssumption
  DEF FetchSnapshot, TypeOK, taskVars, rowVars, workerVars, codexVars, remoteVars
<1>2. CASE ReconcileCompleted(t)
  <2>1. row' \in [Actions -> RowState]
    BY <1>2 DEF ReconcileCompleted, AmbiguousKeys, TypeOK, RowState
  <2>2. state' \in [Tasks -> TaskState]
    BY <1>2 DEF ReconcileCompleted, TypeOK, TaskState, Terminal
  <2> QED
    BY <1>2, <2>1, <2>2
    DEF ReconcileCompleted, TypeOK, workerVars, codexVars, remoteVars
<1>3. CASE ReconcileFailed(t)
  <2>1. row' \in [Actions -> RowState]
    BY <1>3 DEF ReconcileFailed, AmbiguousKeys, TypeOK, RowState
  <2>2. state' \in [Tasks -> TaskState]
    BY <1>3 DEF ReconcileFailed, TypeOK, TaskState, Gates
  <2>3. status' \in [Approvals -> {"unissued", "live", "dead"}]
    BY <1>3, InvalidatedType DEF ReconcileFailed
  <2> QED
    BY <1>3, <2>1, <2>2, <2>3
    DEF ReconcileFailed, TypeOK, workerVars, codexVars, remoteVars
<1>4. CASE ReconcileRejected(t)
  BY <1>4
  DEF ReconcileRejected, TypeOK, taskVars, rowVars, workerVars, codexVars, remoteVars
<1>5. CASE StartMonitor(t)
  BY <1>5 DEF StartMonitor, TypeOK, rowVars, workerVars, codexVars, remoteVars
<1>6. CASE MonitorSucceeds(t)
  <2>1. state' \in [Tasks -> TaskState]
    BY <1>6 DEF MonitorSucceeds, TypeOK, TaskState, Gates
  <2> QED
    BY <1>6, <2>1 DEF MonitorSucceeds, TypeOK, rowVars, workerVars, codexVars, remoteVars
<1>7. CASE MonitorInvalidates(t)
  <2>1. status' \in [Approvals -> {"unissued", "live", "dead"}]
    BY <1>7, InvalidatedType DEF MonitorInvalidates
  <2> QED
    BY <1>7, <2>1
    DEF MonitorInvalidates, TypeOK, taskVars, rowVars, workerVars, codexVars, remoteVars
<1>8. CASE CodexLoad(t)
  BY <1>8 DEF CodexLoad, TypeOK, taskVars, rowVars, workerVars, remoteVars
<1>9. CASE CodexSave(t)
  <2>1. /\ state' \in [Tasks -> TaskState]
        /\ resume' \in [Tasks -> TaskState \cup {"none"}]
    BY <1>9 DEF CodexSave, TypeOK, TaskState, Interruptions
  <2> QED
    BY <1>9, <2>1 DEF CodexSave, TypeOK, rowVars, workerVars, remoteVars
<1>10. CASE CodexResume(t)
  <2>1. /\ state' \in [Tasks -> TaskState]
        /\ resume' \in [Tasks -> TaskState \cup {"none"}]
    BY <1>10 DEF CodexResume, Resumable, TypeOK
  <2> QED
    BY <1>10, <2>1 DEF CodexResume, TypeOK, rowVars, workerVars, codexVars, remoteVars
<1> QED
  BY <1>1, <1>2, <1>3, <1>4, <1>5, <1>6, <1>7, <1>8, <1>9, <1>10 DEF TaskStep

LEMMA NextType == TypeOK /\ [Next]_vars => TypeOK'
<1> SUFFICES ASSUME TypeOK, [Next]_vars
             PROVE  TypeOK'
  OBVIOUS
<1>1. ASSUME NEW ap \in Approvals, Approve(ap) \/ Expire(ap)
      PROVE  TypeOK'
  BY <1>1
  DEF Approve, Expire, TypeOK, taskVars, rowVars, workerVars, codexVars, remoteVars
<1>2. ASSUME NEW a \in Actions, LateServe(a)
      PROVE  TypeOK'
  <2>1. effects' \in [Actions -> 0..2]
    BY <1>2 DEF LateServe, Land, Bump, TypeOK
  <2>2. item' \in [Items -> ItemState]
    BY <1>2 DEF LateServe, Land, TypeOK, ItemState
  <2>3. shown' \subseteq Items
    BY <1>2 DEF LateServe, Land, Show, TypeOK
  <2> QED
    BY <1>2, <2>1, <2>2, <2>3
    DEF LateServe, TypeOK, taskVars, rowVars, workerVars, codexVars
<1>3. ASSUME NEW a \in Actions, LateDrop(a)
      PROVE  TypeOK'
  BY <1>3 DEF LateDrop, TypeOK, taskVars, rowVars, workerVars, codexVars
<1>4. ASSUME NEW i \in Items, HumanActs(i)
      PROVE  TypeOK'
  BY <1>4 DEF HumanActs, Show, TypeOK, ItemState, taskVars, rowVars, workerVars, codexVars
<1>5. CASE Restart
  <2>1. \A w \in Workers : pc[w] = "sent" => Action(w) \in Actions
    BY BusyWorker
  <2> QED
    BY <1>5, <2>1 DEF Restart, TypeOK, taskVars, rowVars
<1>6. CASE UNCHANGED vars
  BY <1>6 DEF vars, TypeOK, taskVars, rowVars, workerVars, codexVars, remoteVars
<1> QED
  BY <1>1, <1>2, <1>3, <1>4, <1>5, <1>6, WorkerType, TaskType DEF Next

\* Every variable keeps its type, for all sets of tasks, actions and workers;
\* in particular no worker is ever inside delivery.execute without the
\* approval it was authorized by, and no task is resumed to an absent state.
THEOREM TypeCorrect == Spec => []TypeOK
BY InitType, NextType, PTL DEF Spec
--------------------------------------------------------------------------------
(* Mutual exclusion by the claim *)

\* The steps that leave the deliveries table and the workers alone.
LEMMA ExclusionQuiet ==
    ASSUME ExecutionHoldsClaim, UNCHANGED <<row, pc, using>>
    PROVE  ExecutionHoldsClaim'
BY DEF ExecutionHoldsClaim, Busy, Action

\* A worker that writes its outcome touches only the key it alone holds.
LEMMA ExclusionFinish ==
    ASSUME TypeOK, ExecutionHoldsClaim, NEW w \in Workers, Busy(w), Finish(w),
           NEW r, row' = [row EXCEPT ![Action(w)] = r]
    PROVE  ExecutionHoldsClaim'
<1>1. \A v \in Workers : Busy(v)' => v # w /\ Busy(v) /\ Action(v)' = Action(v)
  BY DEF Finish, Busy, Action, TypeOK
<1>2. \A v \in Workers \ {w} : Busy(v) => row'[Action(v)] = row[Action(v)]
  BY BusyWorker DEF ExecutionHoldsClaim, TypeOK, Busy
<1> QED
  BY <1>1, <1>2 DEF ExecutionHoldsClaim

LEMMA ExclusionStep ==
    TypeOK /\ ExecutionHoldsClaim /\ [Next]_vars => ExecutionHoldsClaim'
<1> SUFFICES ASSUME TypeOK, ExecutionHoldsClaim, [Next]_vars
             PROVE  ExecutionHoldsClaim'
  OBVIOUS
<1>1. ASSUME NEW w \in Workers, NEW ap \in Approvals, Claim(w, ap)
      PROVE  ExecutionHoldsClaim'
  \* A key that can be claimed is held by no worker.
  <2>1. \A v \in Workers : Busy(v) => Action(v) # ap.action
    BY <1>1 DEF Claim, Reclaimable, ExecutionHoldsClaim
  <2>2. /\ Action(w)' = ap.action
        /\ row'[ap.action] = "claimed"
    BY <1>1, ApprovalFields DEF Claim, Action, TypeOK
  <2>3. \A v \in Workers \ {w} :
           /\ Action(v)' = Action(v)
           /\ Busy(v)' => Busy(v)
    BY <1>1 DEF Claim, Action, Busy, TypeOK
  <2>4. \A v \in Workers : Busy(v) => row'[Action(v)] = row[Action(v)]
    BY <1>1, <2>1, BusyWorker DEF Claim, TypeOK, Busy
  <2> QED
    BY <2>1, <2>2, <2>3, <2>4 DEF ExecutionHoldsClaim
<1>2. ASSUME NEW w \in Workers,
             FailLocally(w) \/ Send(w) \/ Serve(w) \/ Refuse(w) \/ LoseRequest(w)
      PROVE  ExecutionHoldsClaim'
  <2>1. /\ UNCHANGED <<row, using>>
        /\ Busy(w)
        /\ \A v \in Workers : Busy(v)' => Busy(v)
    BY <1>2
    DEF FailLocally, Send, Serve, Refuse, LoseRequest, Busy, TypeOK, rowVars
  <2> QED
    BY <2>1 DEF ExecutionHoldsClaim, Action
<1>3. ASSUME NEW w \in Workers,
             RecordSuccess(w) \/ RecordAmbiguous(w) \/ RecordFailure(w)
      PROVE  ExecutionHoldsClaim'
  <2>1. Busy(w) /\ Finish(w)
    BY <1>3 DEF RecordSuccess, RecordAmbiguous, RecordFailure, Busy
  <2>2. \E r : row' = [row EXCEPT ![Action(w)] = r]
    BY <1>3 DEF RecordSuccess, RecordAmbiguous, RecordFailure
  <2> QED
    BY <2>1, <2>2, ExclusionFinish
<1>4. ASSUME NEW t \in Tasks, ReconcileCompleted(t) \/ ReconcileFailed(t)
      PROVE  ExecutionHoldsClaim'
  \* Reconciliation rewrites ambiguous rows, never a claimed one.
  <2>1. /\ UNCHANGED <<pc, using>>
        /\ \A a \in Actions : row[a] = "claimed" => row'[a] = "claimed"
    BY <1>4 DEF ReconcileCompleted, ReconcileFailed, AmbiguousKeys, workerVars, TypeOK
  <2> QED
    BY <2>1, BusyWorker DEF ExecutionHoldsClaim, Busy, Action
<1>5. CASE Restart
  BY <1>5 DEF Restart, ExecutionHoldsClaim, Busy
<1>6. CASE UNCHANGED <<row, pc, using>>
  BY <1>6, ExclusionQuiet
<1>7. ASSUME NEW t \in Tasks, TaskStep(t),
             ~ReconcileCompleted(t), ~ReconcileFailed(t)
      PROVE  UNCHANGED <<row, pc, using>>
  BY <1>7
  DEF TaskStep, FetchSnapshot, ReconcileRejected, StartMonitor, MonitorSucceeds,
      MonitorInvalidates, CodexLoad, CodexSave, CodexResume, rowVars, workerVars
<1>8. ASSUME \/ \E ap \in Approvals : Approve(ap) \/ Expire(ap)
             \/ \E a \in Actions : LateServe(a) \/ LateDrop(a)
             \/ \E i \in Items : HumanActs(i)
             \/ UNCHANGED vars
      PROVE  UNCHANGED <<row, pc, using>>
  BY <1>8 DEF Approve, Expire, LateServe, LateDrop, HumanActs, vars, rowVars, workerVars
<1> QED
  BY <1>1, <1>2, <1>3, <1>4, <1>5, <1>6, <1>7, <1>8 DEF Next, WorkerStep

\* However many connections run delivery.execute, retry and restart, the claim
\* row of a key is held by at most one of them, from the authorization to the
\* record of the outcome.
THEOREM ExclusiveExecution == Spec => []ExecutionHoldsClaim
<1>1. Init => ExecutionHoldsClaim
  BY DEF Init, ExecutionHoldsClaim, Busy
<1> QED
  BY <1>1, ExclusionStep, TypeCorrect, PTL DEF Spec

--------------------------------------------------------------------------------
(* A success is final *)

\* A recorded success is never rewritten: the claim skips such a row, a worker
\* writes only the claimed row it holds, reconciliation only ambiguous rows.
THEOREM SuccessIsFinal == Spec => SucceededIsFinal
<1>1. ASSUME TypeOK, ExecutionHoldsClaim, [Next]_vars,
             NEW a \in Actions, row[a] = "succeeded"
      PROVE  row'[a] = "succeeded"
  <2>1. ASSUME NEW w \in Workers, NEW ap \in Approvals, Claim(w, ap)
        PROVE  row'[a] = "succeeded"
    BY <1>1, <2>1 DEF Claim, Reclaimable, TypeOK
  <2>2. ASSUME NEW w \in Workers,
               RecordSuccess(w) \/ RecordAmbiguous(w) \/ RecordFailure(w)
        PROVE  row'[a] = "succeeded"
    <3>1. /\ row[Action(w)] = "claimed"
          /\ \E r : row' = [row EXCEPT ![Action(w)] = r]
      BY <1>1, <2>2
      DEF RecordSuccess, RecordAmbiguous, RecordFailure, ExecutionHoldsClaim, Busy
    <3> QED
      BY <1>1, <3>1 DEF TypeOK
  <2>3. ASSUME NEW t \in Tasks, ReconcileCompleted(t) \/ ReconcileFailed(t)
        PROVE  row'[a] = "succeeded"
    BY <1>1, <2>3 DEF ReconcileCompleted, ReconcileFailed, AmbiguousKeys, TypeOK
  <2>4. ASSUME \/ \E w \in Workers : \/ FailLocally(w) \/ Send(w) \/ Serve(w)
                                     \/ Refuse(w) \/ LoseRequest(w)
               \/ \E t \in Tasks : /\ TaskStep(t)
                                  /\ ~ReconcileCompleted(t)
                                  /\ ~ReconcileFailed(t)
               \/ \E ap \in Approvals : Approve(ap) \/ Expire(ap)
               \/ \E b \in Actions : LateServe(b) \/ LateDrop(b)
               \/ \E i \in Items : HumanActs(i)
               \/ Restart
               \/ UNCHANGED vars
        PROVE  UNCHANGED row
    BY <2>4
    DEF FailLocally, Send, Serve, Refuse, LoseRequest, TaskStep, FetchSnapshot,
        ReconcileRejected, StartMonitor, MonitorSucceeds, MonitorInvalidates,
        CodexLoad, CodexSave, CodexResume, Approve, Expire, LateServe, LateDrop,
        HumanActs, Restart, vars, rowVars
  <2> QED
    BY <1>1, <2>1, <2>2, <2>3, <2>4 DEF Next, WorkerStep
<1>2. TypeOK /\ ExecutionHoldsClaim /\ [Next]_vars =>
         [\A a \in Actions : row[a] = "succeeded" => row'[a] = "succeeded"]_vars
  BY <1>1
<1> QED
  BY <1>2, TypeCorrect, ExclusiveExecution, PTL DEF Spec, SucceededIsFinal

--------------------------------------------------------------------------------
(* What holds as long as no Codex session outlives the implementation *)

NoCodex ==
    /\ session = {}
    /\ \A t \in Tasks : copy[t] = "none" /\ state[t] # "paused"

LEMMA NoCodexInit == CodexTasks = {} => (Init => NoCodex)
BY DEF Init, NoCodex

LEMMA NoCodexStep == TypeOK /\ NoCodex /\ [Next]_vars => NoCodex'
<1> SUFFICES ASSUME TypeOK, NoCodex, [Next]_vars
             PROVE  NoCodex'
  OBVIOUS
<1>1. UNCHANGED codexVars \/ Restart
  BY DEF Next, WorkerStep, TaskStep, Approve, Expire, Claim, FailLocally, Send, Serve,
         Refuse, LoseRequest, RecordSuccess, RecordAmbiguous, RecordFailure,
         FetchSnapshot, ReconcileCompleted, ReconcileFailed, ReconcileRejected,
         StartMonitor, MonitorSucceeds, MonitorInvalidates, CodexLoad, CodexSave,
         CodexResume, LateServe, LateDrop, HumanActs, vars, NoCodex
<1>2. session' = {} /\ \A t \in Tasks : copy'[t] = "none"
  BY <1>1 DEF Restart, codexVars, NoCodex
<1>3. ASSUME NEW t \in Tasks
      PROVE  state'[t] # "paused"
  <2>1. ASSUME NEW w \in Workers, WorkerStep(w)
        PROVE  state'[t] # "paused"
    BY <2>1
    DEF WorkerStep, Claim, FailLocally, Send, Serve, Refuse, LoseRequest,
        RecordSuccess, RecordAmbiguous, RecordFailure, AfterSuccess, NoCodex,
        TypeOK, taskVars
  <2>2. ASSUME NEW u \in Tasks, TaskStep(u)
        PROVE  state'[t] # "paused"
    BY <2>2
    DEF TaskStep, FetchSnapshot, ReconcileCompleted, ReconcileFailed,
        ReconcileRejected, StartMonitor, MonitorSucceeds, MonitorInvalidates,
        CodexLoad, CodexSave, CodexResume, Resumable, NoCodex, TypeOK, taskVars
  <2>3. ASSUME \/ \E ap \in Approvals : Approve(ap) \/ Expire(ap)
               \/ \E a \in Actions : LateServe(a) \/ LateDrop(a)
               \/ \E i \in Items : HumanActs(i)
               \/ Restart
               \/ UNCHANGED vars
        PROVE  UNCHANGED state
    BY <2>3 DEF Approve, Expire, LateServe, LateDrop, HumanActs, Restart, vars, taskVars
  <2> QED
    BY <2>1, <2>2, <2>3 DEF Next, NoCodex
<1> QED
  BY <1>2, <1>3 DEF NoCodex

\* A stored task that is completed, failed or cancelled leaves that state only
\* when the save of an interruption (service.rs:652-660) writes back a copy that
\* was loaded before: any number of sessions, executions, monitors and
\* reconciliations may be under way.
THEOREM TerminalIsOverwrittenByCopies == Spec => OnlyStaleCopyOverwrites
<1>1. ASSUME TypeOK, [Next]_vars,
             NEW t \in Tasks, state[t] \in Terminal, state'[t] # state[t]
      PROVE  /\ copy[t] \notin Terminal \cup {"none"}
             /\ copy'[t] = "none"
             /\ state'[t] \in {"paused", "cancelled", "failed"}
             /\ resume'[t] = copy[t]
  <2>1. ASSUME NEW w \in Workers, WorkerStep(w)
        PROVE  state'[t] = state[t]
    <3>1. \A a \in Actions : AfterSuccess(a, state[t]) = state[t]
      BY <1>1 DEF AfterSuccess, Terminal
    <3>2. CASE RecordSuccess(w)
      <4>1. /\ Action(w) \in Actions
            /\ state' = [state EXCEPT ![Task(w)] = AfterSuccess(Action(w), @)]
        BY <1>1, <3>2, BusyWorker DEF RecordSuccess
      <4> QED
        BY <1>1, <3>1, <4>1 DEF TypeOK
    <3>3. CASE RecordFailure(w)
      BY <1>1, <3>3 DEF RecordFailure, TypeOK, Terminal
    <3>4. ASSUME NEW ap \in Approvals, Claim(w, ap)
          PROVE  state'[t] = state[t]
      BY <1>1, <3>4 DEF Claim, Previewable, Gate, TypeOK, Terminal
    <3> QED
      BY <2>1, <3>2, <3>3, <3>4
      DEF WorkerStep, FailLocally, Send, Serve, Refuse, LoseRequest, RecordAmbiguous,
          taskVars
  <2>2. ASSUME NEW u \in Tasks, TaskStep(u), ~CodexSave(u)
        PROVE  state'[t] = state[t]
    BY <1>1, <2>2
    DEF TaskStep, FetchSnapshot, ReconcileCompleted, ReconcileFailed,
        ReconcileRejected, Completable, StartMonitor, MonitorSucceeds,
        MonitorInvalidates, CodexLoad, CodexResume, Resumable, TypeOK, Terminal, taskVars
  <2>3. ASSUME NEW u \in Tasks, CodexSave(u)
        PROVE  /\ copy[t] \notin Terminal \cup {"none"}
               /\ copy'[t] = "none"
               /\ state'[t] \in {"paused", "cancelled", "failed"}
               /\ resume'[t] = copy[t]
    <3>1. u = t
      BY <1>1, <2>3 DEF CodexSave, TypeOK
    <3>2. CanInterrupt(copy[t]) /\ copy[t] # "none"
      BY <1>1, <2>3, <3>1 DEF CodexSave
    <3> QED
      BY <1>1, <2>3, <3>1, <3>2 DEF CodexSave, CanInterrupt, TypeOK
  <2>4. ASSUME \/ \E ap \in Approvals : Approve(ap) \/ Expire(ap)
               \/ \E a \in Actions : LateServe(a) \/ LateDrop(a)
               \/ \E i \in Items : HumanActs(i)
               \/ Restart
               \/ UNCHANGED vars
        PROVE  UNCHANGED state
    BY <2>4 DEF Approve, Expire, LateServe, LateDrop, HumanActs, Restart, vars, taskVars
  <2> QED
    BY <1>1, <2>1, <2>2, <2>3, <2>4 DEF Next
<1>2. TypeOK /\ [Next]_vars =>
         [\A t \in Tasks : state[t] \in Terminal /\ state'[t] # state[t] =>
             /\ copy[t] \notin Terminal \cup {"none"}
             /\ copy'[t] = "none"
             /\ state'[t] \in {"paused", "cancelled", "failed"}
             /\ resume'[t] = copy[t]]_vars
  BY <1>1
<1> QED
  BY <1>2, TypeCorrect, PTL DEF Spec, OnlyStaleCopyOverwrites

\* A consumed merge approval is dead, or its task is still merging or is done.
ApprovalInv ==
    \A ap \in Approvals : IsMerge(ap.action) =>
        /\ status[ap] = "unissued" => uses[ap] = 0
        /\ uses[ap] <= 1
        /\ uses[ap] = 1 /\ status[ap] = "live" =>
              state[ap.task] \in {"merging", "completed"}

LEMMA ApprovalStep == TypeOK /\ NoCodex /\ ApprovalInv /\ [Next]_vars => ApprovalInv'
<1> SUFFICES ASSUME TypeOK, NoCodex, ApprovalInv, [Next]_vars
             PROVE  ApprovalInv'
  OBVIOUS
\* Most steps leave the approvals alone, or only kill some, and move no task
\* out of merging or completed.
<1>1. ASSUME uses' = uses,
             \A ap \in Approvals :
                 /\ status'[ap] = "unissued" => status[ap] = "unissued"
                 /\ status'[ap] = "live" => status[ap] = "live" \/ uses[ap] = 0,
             \A ap \in Approvals :
                 \/ status'[ap] # "live"
                 \/ state[ap.task] \in {"merging", "completed"} =>
                       state'[ap.task] \in {"merging", "completed"}
      PROVE  ApprovalInv'
  BY <1>1 DEF ApprovalInv
<1>2. ASSUME NEW w \in Workers, NEW ap \in Approvals, Claim(w, ap)
      PROVE  ApprovalInv'
  \* The approval of a merge that is claimed was not used before.
  <2>1. IsMerge(ap.action) => uses[ap] = 0
    BY <1>2 DEF Claim, Previewable, Gate, ApprovalInv, TypeOK
  <2>2. /\ status' = status
        /\ status[ap] = "live"
        /\ uses' = [uses EXCEPT ![ap] = Bump(@)]
        /\ \A t \in Tasks : state[t] \in {"merging", "completed"} => state'[t] = state[t]
        /\ IsMerge(ap.action) => state'[ap.task] = "merging"
    BY <1>2, ApprovalFields DEF Claim, Previewable, Gate, TypeOK
  <2>3. IsMerge(ap.action) => uses'[ap] = 1
    BY <2>1, <2>2 DEF Bump, TypeOK
  <2>4. \A bp \in Approvals \ {ap} : uses'[bp] = uses[bp]
    BY <2>2 DEF TypeOK
  <2> SUFFICES ASSUME NEW bp \in Approvals, IsMerge(bp.action)
               PROVE  /\ status'[bp] = "unissued" => uses'[bp] = 0
                      /\ uses'[bp] <= 1
                      /\ uses'[bp] = 1 /\ status'[bp] = "live" =>
                            state'[bp.task] \in {"merging", "completed"}
    BY DEF ApprovalInv
  <2>5. CASE bp = ap
    BY <2>2, <2>3, <2>5
  <2>6. CASE bp # ap
    BY <2>2, <2>4, <2>6, ApprovalFields DEF ApprovalInv
  <2> QED
    BY <2>5, <2>6
<1>3. ASSUME NEW w \in Workers, RecordSuccess(w)
      PROVE  ApprovalInv'
  <2>1. /\ Task(w) \in Tasks
        /\ state' = [state EXCEPT ![Task(w)] = AfterSuccess(Action(w), @)]
        /\ UNCHANGED <<status, uses>>
    BY <1>3, BusyWorker DEF RecordSuccess
  <2>2. \A a, s : s \in {"merging", "completed"} =>
           AfterSuccess(a, s) \in {"merging", "completed"}
    BY DEF AfterSuccess
  <2>3. \A t \in Tasks : state[t] \in {"merging", "completed"} =>
           state'[t] \in {"merging", "completed"}
    BY <2>1, <2>2 DEF TypeOK
  <2> QED
    BY <1>1, <2>1, <2>3, ApprovalFields
\* A task leaves merging for another attempt only as its approvals die.
<1>4. ASSUME NEW t \in Tasks, UNCHANGED uses,
             \/ UNCHANGED <<state, status>>
             \/ /\ state' = [state EXCEPT ![t] = "awaitingMergeApproval"]
                /\ status' = Invalidated(t)
      PROVE  ApprovalInv'
  <2>1. CASE UNCHANGED <<state, status>>
    BY <1>4, <2>1 DEF ApprovalInv
  <2>2. CASE /\ state' = [state EXCEPT ![t] = "awaitingMergeApproval"]
             /\ status' = Invalidated(t)
    <3>1. \A ap \in Approvals :
             /\ status'[ap] = "unissued" => status[ap] = "unissued"
             /\ status'[ap] = "live" => status[ap] = "live" /\ ap.task # t
      BY <2>2 DEF Invalidated, TypeOK
    <3>2. \A u \in Tasks \ {t} : state'[u] = state[u]
      BY <2>2 DEF TypeOK
    <3> QED
      BY <1>1, <1>4, <3>1, <3>2, ApprovalFields
  <2> QED
    BY <1>4, <2>1, <2>2
<1>5. ASSUME NEW w \in Workers, RecordFailure(w)
      PROVE  ApprovalInv'
  BY <1>4, <1>5, BusyWorker DEF RecordFailure
<1>6. ASSUME NEW t \in Tasks, ReconcileFailed(t)
      PROVE  ApprovalInv'
  BY <1>4, <1>6 DEF ReconcileFailed
<1>7. ASSUME NEW t \in Tasks, ReconcileCompleted(t) \/ MonitorSucceeds(t)
      PROVE  ApprovalInv'
  <2>1. UNCHANGED <<status, uses>>
    BY <1>7 DEF ReconcileCompleted, MonitorSucceeds
  <2>2. CASE ReconcileCompleted(t)
    <3>1. state' = [state EXCEPT ![t] = "completed"]
      BY <2>2 DEF ReconcileCompleted
    <3>2. \A u \in Tasks : state[u] \in {"merging", "completed"} =>
             state'[u] \in {"merging", "completed"}
      BY <3>1 DEF TypeOK
    <3> QED
      BY <1>1, <2>1, <3>2, ApprovalFields
  <2>3. CASE MonitorSucceeds(t)
    <3>1. /\ state[t] = "monitoring"
          /\ state' = [state EXCEPT ![t] = "awaitingMergeApproval"]
      BY <2>3 DEF MonitorSucceeds
    <3>2. \A u \in Tasks : state[u] \in {"merging", "completed"} =>
             state'[u] = state[u]
      BY <3>1 DEF TypeOK
    <3> QED
      BY <1>1, <2>1, <3>2, ApprovalFields
  <2> QED
    BY <1>7, <2>2, <2>3
<1>8. ASSUME NEW t \in Tasks, MonitorInvalidates(t)
      PROVE  ApprovalInv'
  BY <1>1, <1>8 DEF MonitorInvalidates, Invalidated, taskVars, TypeOK
<1>9. ASSUME NEW ap \in Approvals, Approve(ap) \/ Expire(ap)
      PROVE  ApprovalInv'
  <2>1. UNCHANGED <<state, uses>>
    BY <1>9 DEF Approve, Expire, taskVars
  <2>2. \A bp \in Approvals \ {ap} : status'[bp] = status[bp]
    BY <1>9 DEF Approve, Expire, TypeOK
  <2>3. \/ status[ap] = "unissued" /\ status'[ap] = "live"
        \/ status'[ap] = "dead"
    BY <1>9 DEF Approve, Expire, TypeOK
  <2> QED
    BY <2>1, <2>2, <2>3 DEF ApprovalInv
<1>10. ASSUME NEW t \in Tasks,
              FetchSnapshot(t) \/ ReconcileRejected(t) \/ StartMonitor(t)
       PROVE  UNCHANGED <<state, status, uses>>
  BY <1>10 DEF FetchSnapshot, ReconcileRejected, StartMonitor, taskVars
<1>11. ASSUME NEW t \in Tasks, CodexLoad(t) \/ CodexSave(t) \/ CodexResume(t)
       PROVE  FALSE
  BY <1>11 DEF CodexLoad, CodexSave, CodexResume, Resumable, NoCodex
<1>12. ASSUME \/ \E w \in Workers : \/ FailLocally(w) \/ Send(w) \/ Serve(w)
                                    \/ Refuse(w) \/ LoseRequest(w)
                                    \/ RecordAmbiguous(w)
              \/ \E a \in Actions : LateServe(a) \/ LateDrop(a)
              \/ \E i \in Items : HumanActs(i)
              \/ Restart
              \/ UNCHANGED vars
       PROVE  UNCHANGED <<state, status, uses>>
  BY <1>12
  DEF FailLocally, Send, Serve, Refuse, LoseRequest, RecordAmbiguous, LateServe,
      LateDrop, HumanActs, Restart, vars, taskVars
<1>13. ASSUME UNCHANGED <<state, status, uses>>
       PROVE  ApprovalInv'
  BY <1>13 DEF ApprovalInv
<1> QED
  BY <1>2, <1>3, <1>5, <1>6, <1>7, <1>8, <1>9, <1>10, <1>11, <1>12, <1>13
  DEF Next, WorkerStep, TaskStep

\* An approval of a merge is consumed by one execution, whatever fails, is
\* reconciled or restarts, as long as no Codex interruption writes an older
\* copy of the task back.
THEOREM SingleUse ==
    ASSUME CodexTasks = {}
    PROVE  Spec => []MergeApprovalSingleUse
<1>1. Init => ApprovalInv
  BY DEF Init, ApprovalInv
<1>2. ApprovalInv => MergeApprovalSingleUse
  BY DEF ApprovalInv, MergeApprovalSingleUse
<1> QED
  BY <1>1, <1>2, ApprovalStep, TypeCorrect, NoCodexInit, NoCodexStep, PTL DEF Spec

--------------------------------------------------------------------------------
(* What is done stays done *)

\* A merged pull request stays merged; everything else may be opened again.
ItemMoves(i) == item[i] = "merged" => item'[i] = "merged"

\* An item that shows the outcome of its tasks is among those that have shown it.
Covered == \A i \in Items : item[i] = Outcome(i) => i \in shown

LEMMA LandMoves ==
    ASSUME TypeOK, NEW a \in Actions, Accepts(a), Land(a)
    PROVE  /\ effects'[a] > 0
           /\ \A b \in Actions : effects[b] > 0 => effects'[b] > 0
           /\ \A b \in Actions \ {a} : effects'[b] = effects[b]
           /\ \A i \in Items : ItemMoves(i)
           /\ KindOf[a] = "merge" => item'[TargetOf[a]] = "merged"
           /\ shown \subseteq shown'
           /\ Covered'
<1>1. TargetOf[a] \in Items
  BY DeliveryAssumption
<1>2. /\ effects'[a] > 0
      /\ \A b \in Actions : effects[b] > 0 => effects'[b] > 0
      /\ \A b \in Actions \ {a} : effects'[b] = effects[b]
  BY DEF Land, Bump, TypeOK
<1>3. \A i \in Items : i # TargetOf[a] => item'[i] = item[i]
  BY DEF Land, TypeOK
<1>4. item'[TargetOf[a]] = CASE KindOf[a] = "merge" -> "merged"
                             [] KindOf[a] = "close" /\ item[TargetOf[a]] \in {"open", "notPlanned"}
                                  -> "closed"
                             [] OTHER -> item[TargetOf[a]]
  BY <1>1 DEF Land, TypeOK
<1>5. item[TargetOf[a]] \in ItemState
  BY <1>1 DEF TypeOK
<1>6. shown \subseteq shown' /\ Covered'
  BY DEF Land, Show, Covered, Outcome
<1> QED
  BY <1>1, <1>2, <1>3, <1>4, <1>5, <1>6 DEF ItemMoves, Accepts, ItemState

LEMMA DoneStays ==
    ASSUME TypeOK, [Next]_vars
    PROVE  /\ \A a \in Actions : effects[a] > 0 => effects'[a] > 0
           /\ \A ap \in Approvals : uses[ap] > 0 => uses'[ap] > 0
           /\ monitored \subseteq monitored'
           /\ \A i \in Items : ItemMoves(i)
           /\ shown \subseteq shown'
           /\ Covered => Covered'
<1>1. ASSUME NEW w \in Workers, NEW ap \in Approvals, Claim(w, ap)
      PROVE  /\ UNCHANGED <<effects, monitored, item, shown>>
             /\ \A bp \in Approvals : uses[bp] > 0 => uses'[bp] > 0
  BY <1>1 DEF Claim, Bump, TypeOK, remoteVars
<1>2. ASSUME NEW w \in Workers, Serve(w)
      PROVE  /\ UNCHANGED <<uses, monitored>>
             /\ \A a \in Actions : effects[a] > 0 => effects'[a] > 0
             /\ \A i \in Items : ItemMoves(i)
             /\ shown \subseteq shown' /\ Covered'
  BY <1>2, BusyWorker, LandMoves DEF Serve, taskVars
<1>3. ASSUME NEW a \in Actions, LateServe(a)
      PROVE  /\ UNCHANGED <<uses, monitored>>
             /\ \A b \in Actions : effects[b] > 0 => effects'[b] > 0
             /\ \A i \in Items : ItemMoves(i)
             /\ shown \subseteq shown' /\ (Covered => Covered')
  <2>1. CASE Accepts(a)
    BY <1>3, <2>1, LandMoves DEF LateServe, taskVars
  <2>2. CASE ~Accepts(a)
    BY <1>3, <2>2 DEF LateServe, taskVars, ItemMoves, Covered, Outcome
  <2> QED
    BY <2>1, <2>2
<1>4. ASSUME NEW i \in Items, HumanActs(i)
      PROVE  /\ UNCHANGED <<effects, uses, monitored>>
             /\ \A j \in Items : ItemMoves(j)
             /\ shown \subseteq shown' /\ Covered'
  BY <1>4 DEF HumanActs, Show, Covered, Outcome, ItemMoves, TypeOK, taskVars
<1>5. ASSUME NEW t \in Tasks, StartMonitor(t)
      PROVE  UNCHANGED <<effects, uses, item, shown>> /\ monitored \subseteq monitored'
  BY <1>5 DEF StartMonitor, remoteVars
<1>6. ASSUME NEW w \in Workers,
             \/ FailLocally(w) \/ Send(w) \/ Refuse(w) \/ LoseRequest(w)
             \/ RecordSuccess(w) \/ RecordAmbiguous(w) \/ RecordFailure(w)
      PROVE  UNCHANGED <<effects, uses, monitored, item, shown>>
  BY <1>6
  DEF FailLocally, Send, Refuse, LoseRequest, RecordSuccess, RecordAmbiguous,
      RecordFailure, taskVars, remoteVars
<1>7. ASSUME NEW t \in Tasks,
             \/ FetchSnapshot(t) \/ ReconcileCompleted(t) \/ ReconcileFailed(t)
             \/ ReconcileRejected(t) \/ MonitorSucceeds(t) \/ MonitorInvalidates(t)
             \/ CodexLoad(t) \/ CodexSave(t) \/ CodexResume(t)
      PROVE  UNCHANGED <<effects, uses, monitored, item, shown>>
  BY <1>7
  DEF FetchSnapshot, ReconcileCompleted, ReconcileFailed, ReconcileRejected,
      MonitorSucceeds, MonitorInvalidates, CodexLoad, CodexSave, CodexResume,
      taskVars, remoteVars
<1>8. ASSUME \/ \E ap \in Approvals : Approve(ap) \/ Expire(ap)
             \/ \E a \in Actions : LateDrop(a)
             \/ Restart
             \/ UNCHANGED vars
      PROVE  UNCHANGED <<effects, uses, monitored, item, shown>>
  BY <1>8 DEF Approve, Expire, LateDrop, Restart, vars, taskVars, remoteVars
<1>9. ASSUME UNCHANGED <<effects, uses, monitored, item, shown>>
      PROVE  /\ \A a \in Actions : effects[a] > 0 => effects'[a] > 0
             /\ \A ap \in Approvals : uses[ap] > 0 => uses'[ap] > 0
             /\ monitored \subseteq monitored'
             /\ \A i \in Items : ItemMoves(i)
             /\ shown \subseteq shown' /\ (Covered => Covered')
  BY <1>9 DEF ItemMoves, Covered, Outcome
<1>10. ASSUME UNCHANGED <<item, shown>>
       PROVE  /\ \A i \in Items : ItemMoves(i)
              /\ shown \subseteq shown' /\ (Covered => Covered')
  BY <1>10 DEF ItemMoves, Covered, Outcome
<1>11. \/ \E w \in Workers, ap \in Approvals : Claim(w, ap)
       \/ \E w \in Workers : Serve(w)
       \/ \E a \in Actions : LateServe(a)
       \/ \E i \in Items : HumanActs(i)
       \/ \E t \in Tasks : StartMonitor(t)
       \/ UNCHANGED <<effects, uses, monitored, item, shown>>
  BY <1>6, <1>7, <1>8 DEF Next, WorkerStep, TaskStep
<1>12. CASE \E w \in Workers, ap \in Approvals : Claim(w, ap)
  BY <1>1, <1>10, <1>12
<1>13. CASE \E w \in Workers : Serve(w)
  BY <1>2, <1>13
<1>14. CASE \E a \in Actions : LateServe(a)
  BY <1>3, <1>14
<1>15. CASE \E i \in Items : HumanActs(i)
  BY <1>4, <1>15
<1>16. CASE \E t \in Tasks : StartMonitor(t)
  BY <1>5, <1>10, <1>16
<1> QED
  BY <1>9, <1>11, <1>12, <1>13, <1>14, <1>15, <1>16

--------------------------------------------------------------------------------
(* Merges follow their gates *)

\* The states of a task that has been through monitoring.
Monitored == {"awaitingMergeApproval", "merging"}

\* An approval of this very action was consumed for a task that was monitored.
Gated(a) ==
    \E ap \in Approvals : ap.action = a /\ uses[ap] > 0 /\ ap.task \in monitored

\* A task is at its merge gate or past it only with a monitor, also in the copy
\* that a Codex interruption holds or has stored; and every trace of a merge, in
\* a worker, on the wire or on GitHub, goes back to the consumed approval.
GateInv ==
    /\ \A t \in Tasks : /\ state[t] \in Monitored => t \in monitored
                        /\ resume[t] \in Monitored => t \in monitored
                        /\ copy[t] \in Monitored => t \in monitored
    /\ \A w \in Workers : Busy(w) /\ IsMerge(Action(w)) => Gated(Action(w))
    /\ \A a \in orphans : IsMerge(a) => Gated(a)
    /\ \A a \in Actions : IsMerge(a) /\ effects[a] > 0 => Gated(a)

LEMMA GatedStays ==
    ASSUME TypeOK, [Next]_vars, NEW a, Gated(a)
    PROVE  Gated(a)'
BY DoneStays DEF Gated

\* The lifecycle of the tasks.
LEMMA GateTasks ==
    ASSUME TypeOK, GateInv, [Next]_vars, NEW u \in Tasks
    PROVE  /\ state'[u] \in Monitored => u \in monitored'
           /\ resume'[u] \in Monitored => u \in monitored'
           /\ copy'[u] \in Monitored => u \in monitored'
<1>0. monitored \subseteq monitored'
  BY DoneStays
<1> USE <1>0 DEF TypeOK, GateInv
<1>1. ASSUME NEW w \in Workers, NEW ap \in Approvals, Claim(w, ap)
      PROVE  /\ UNCHANGED <<resume, copy>>
             /\ state'[u] \in Monitored => u \in monitored
  BY <1>1, ApprovalFields DEF Claim, Previewable, Gate, Monitored, codexVars
<1>2. ASSUME NEW w \in Workers, RecordSuccess(w)
      PROVE  /\ UNCHANGED <<resume, copy>>
             /\ state'[u] \in Monitored => u \in monitored
  <2>1. /\ Task(w) \in Tasks
        /\ state' = [state EXCEPT ![Task(w)] = AfterSuccess(Action(w), @)]
        /\ UNCHANGED <<resume, copy>>
    BY <1>2, BusyWorker DEF RecordSuccess, codexVars
  <2>2. \A a, s : AfterSuccess(a, s) \in Monitored => s \in Monitored
    BY DEF AfterSuccess, Monitored
  <2> QED
    BY <2>1, <2>2
<1>3. ASSUME NEW w \in Workers, RecordFailure(w)
      PROVE  /\ UNCHANGED <<resume, copy>>
             /\ state'[u] \in Monitored => u \in monitored
  BY <1>3, BusyWorker DEF RecordFailure, Monitored, codexVars
<1>4. ASSUME NEW t \in Tasks, ReconcileCompleted(t)
      PROVE  /\ UNCHANGED <<resume, copy>>
             /\ state'[u] \in Monitored => u \in monitored
  BY <1>4 DEF ReconcileCompleted, Monitored, codexVars
<1>5. ASSUME NEW t \in Tasks, ReconcileFailed(t)
      PROVE  /\ UNCHANGED <<resume, copy>>
             /\ state'[u] \in Monitored => u \in monitored
  BY <1>5 DEF ReconcileFailed, Monitored, codexVars
<1>6. ASSUME NEW t \in Tasks, MonitorSucceeds(t)
      PROVE  /\ UNCHANGED <<resume, copy>>
             /\ state'[u] \in Monitored => u \in monitored
  BY <1>6 DEF MonitorSucceeds, Monitored, codexVars
<1>7. ASSUME NEW t \in Tasks, CodexLoad(t)
      PROVE  /\ UNCHANGED <<state, resume>>
             /\ copy'[u] \in Monitored => u \in monitored
  BY <1>7 DEF CodexLoad, Monitored, taskVars
<1>8. ASSUME NEW t \in Tasks, CodexSave(t)
      PROVE  /\ state'[u] \in Monitored => u \in monitored
             /\ resume'[u] \in Monitored => u \in monitored
             /\ copy'[u] \in Monitored => u \in monitored
  BY <1>8 DEF CodexSave, Monitored
<1>9. ASSUME NEW t \in Tasks, CodexResume(t)
      PROVE  /\ state'[u] \in Monitored => u \in monitored
             /\ resume'[u] \in Monitored => u \in monitored
             /\ UNCHANGED copy
  BY <1>9 DEF CodexResume, Monitored, codexVars
<1>10. ASSUME Restart
       PROVE  UNCHANGED <<state, resume>> /\ copy'[u] \notin Monitored
  BY <1>10 DEF Restart, Monitored, taskVars
<1>11. ASSUME \/ \E w \in Workers : \/ FailLocally(w) \/ Send(w) \/ Serve(w) \/ Refuse(w)
                                    \/ LoseRequest(w) \/ RecordAmbiguous(w)
              \/ \E t \in Tasks : \/ FetchSnapshot(t) \/ ReconcileRejected(t)
                                  \/ StartMonitor(t) \/ MonitorInvalidates(t)
              \/ \E ap \in Approvals : Approve(ap) \/ Expire(ap)
              \/ \E a \in Actions : LateServe(a) \/ LateDrop(a)
              \/ \E i \in Items : HumanActs(i)
              \/ UNCHANGED vars
       PROVE  UNCHANGED <<state, resume, copy>>
  BY <1>11
  DEF FailLocally, Send, Serve, Refuse, LoseRequest, RecordAmbiguous, FetchSnapshot,
      ReconcileRejected, StartMonitor, MonitorInvalidates, Approve, Expire, LateServe,
      LateDrop, HumanActs, vars, taskVars, codexVars
<1> QED
  BY <1>1, <1>2, <1>3, <1>4, <1>5, <1>6, <1>7, <1>8, <1>9, <1>10, <1>11
  DEF Next, WorkerStep, TaskStep

\* The traces of a merge.
LEMMA GateTraces ==
    ASSUME TypeOK, GateInv, [Next]_vars
    PROVE  /\ \A w \in Workers : Busy(w)' /\ IsMerge(Action(w))' => Gated(Action(w))'
           /\ \A a \in orphans' : IsMerge(a) => Gated(a)'
           /\ \A a \in Actions : IsMerge(a) /\ effects'[a] > 0 => Gated(a)'
<1>0. /\ \A a : Gated(a) => Gated(a)'
      /\ monitored \subseteq monitored'
  BY GatedStays, DoneStays
\* Most steps send no new merge.
<1>1. ASSUME \A w \in Workers : Busy(w)' => Busy(w) /\ Action(w)' = Action(w),
             \A a \in orphans' : a \in orphans \/ \E w \in Workers : Busy(w) /\ a = Action(w),
             \A a \in Actions : \/ effects'[a] = effects[a]
                                \/ a \in orphans
                                \/ \E w \in Workers : Busy(w) /\ a = Action(w)
      PROVE  /\ \A w \in Workers : Busy(w)' /\ IsMerge(Action(w))' => Gated(Action(w))'
             /\ \A a \in orphans' : IsMerge(a) => Gated(a)'
             /\ \A a \in Actions : IsMerge(a) /\ effects'[a] > 0 => Gated(a)'
  <2>1. \A a : Gated(a) => Gated(a)'
    BY <1>0
  <2>2. ASSUME NEW w \in Workers, Busy(w)', IsMerge(Action(w))'
        PROVE  Gated(Action(w))'
    <3>1. Busy(w) /\ Action(w)' = Action(w) /\ Gated(Action(w))
      BY <1>1, <2>2 DEF GateInv
    <3>2. \E ap \in Approvals :
             ap.action = Action(w) /\ uses'[ap] > 0 /\ ap.task \in monitored'
      BY <3>1, DoneStays DEF Gated
    <3> QED
      BY <3>1, <3>2 DEF Gated
  <2>3. ASSUME NEW a \in orphans', IsMerge(a)
        PROVE  Gated(a)'
    BY <1>1, <2>1, <2>3 DEF GateInv
  <2>4. ASSUME NEW a \in Actions, IsMerge(a), effects'[a] > 0
        PROVE  Gated(a)'
    BY <1>1, <2>1, <2>4 DEF GateInv
  <2> QED
    BY <2>2, <2>3, <2>4
\* A merge is claimed only at its gate, with an approval that is consumed.
<1>2. ASSUME NEW w \in Workers, NEW ap \in Approvals, Claim(w, ap)
      PROVE  /\ \A v \in Workers : Busy(v)' /\ IsMerge(Action(v))' => Gated(Action(v))'
             /\ \A a \in orphans' : IsMerge(a) => Gated(a)'
             /\ \A a \in Actions : IsMerge(a) /\ effects'[a] > 0 => Gated(a)'
  <2>1. /\ UNCHANGED <<orphans, effects>>
        /\ Action(w)' = ap.action
        /\ \A v \in Workers \ {w} : Busy(v)' => Busy(v) /\ Action(v)' = Action(v)
    BY <1>2 DEF Claim, Busy, Action, TypeOK, remoteVars
  <2>2. uses'[ap] > 0
    BY <1>2 DEF Claim, Bump, TypeOK
  <2>3. IsMerge(ap.action) => ap.task \in monitored
    BY <1>2, ApprovalFields DEF Claim, Previewable, Gate, GateInv, Monitored
  <2>4. IsMerge(ap.action) => Gated(ap.action)'
    BY <1>0, <2>2, <2>3 DEF Gated
  <2>5. ASSUME NEW v \in Workers, Busy(v)', IsMerge(Action(v))'
        PROVE  Gated(Action(v))'
    <3>1. CASE v = w
      BY <2>1, <2>4, <2>5, <3>1 DEF Gated
    <3>2. CASE v # w
      <4>1. Busy(v) /\ Action(v)' = Action(v) /\ Gated(Action(v))
        BY <2>1, <2>5, <3>2 DEF GateInv
      <4>2. \E bp \in Approvals :
               bp.action = Action(v) /\ uses'[bp] > 0 /\ bp.task \in monitored'
        BY <4>1, DoneStays DEF Gated
      <4> QED
        BY <4>1, <4>2 DEF Gated
    <3> QED
      BY <3>1, <3>2
  <2> QED
    BY <1>0, <2>1, <2>5 DEF GateInv
<1>3. ASSUME NEW w \in Workers, Serve(w)
      PROVE  /\ \A v \in Workers : Busy(v)' => Busy(v) /\ Action(v)' = Action(v)
             /\ UNCHANGED orphans
             /\ \A a \in Actions : effects'[a] = effects[a] \/ (Busy(w) /\ a = Action(w))
  BY <1>3, BusyWorker, LandMoves DEF Serve, Busy, Action, TypeOK
<1>4. ASSUME NEW a \in Actions, LateServe(a)
      PROVE  /\ \A v \in Workers : Busy(v)' => Busy(v) /\ Action(v)' = Action(v)
             /\ orphans' \subseteq orphans
             /\ a \in orphans
             /\ \A b \in Actions : effects'[b] = effects[b] \/ b = a
  BY <1>4, LandMoves DEF LateServe, Busy, Action, workerVars
<1>5. ASSUME \/ \E w \in Workers : \/ FailLocally(w) \/ Send(w) \/ Refuse(w) \/ LoseRequest(w)
             \/ \E a \in Actions : LateDrop(a)
             \/ \E i \in Items : HumanActs(i)
      PROVE  /\ \A v \in Workers : Busy(v)' => Busy(v) /\ Action(v)' = Action(v)
             /\ \A a \in orphans' : a \in orphans \/ \E w \in Workers : Busy(w) /\ a = Action(w)
             /\ UNCHANGED effects
  BY <1>5
  DEF FailLocally, Send, Refuse, LoseRequest, LateDrop, HumanActs, Busy, Action, TypeOK,
      workerVars, remoteVars
<1>6. ASSUME NEW w \in Workers, RecordSuccess(w) \/ RecordAmbiguous(w) \/ RecordFailure(w)
      PROVE  /\ \A v \in Workers : Busy(v)' => Busy(v) /\ Action(v)' = Action(v)
             /\ UNCHANGED <<orphans, effects>>
  BY <1>6
  DEF RecordSuccess, RecordAmbiguous, RecordFailure, Finish, Busy, Action, TypeOK, remoteVars
<1>7. ASSUME Restart
      PROVE  /\ \A v \in Workers : ~Busy(v)'
             /\ \A a \in orphans' : a \in orphans \/ \E w \in Workers : Busy(w) /\ a = Action(w)
             /\ UNCHANGED effects
  BY <1>7 DEF Restart, Busy
<1>8. ASSUME \/ \E t \in Tasks : TaskStep(t)
             \/ \E ap \in Approvals : Approve(ap) \/ Expire(ap)
             \/ UNCHANGED vars
      PROVE  UNCHANGED <<pc, using, orphans, effects>>
  BY <1>8
  DEF TaskStep, FetchSnapshot, ReconcileCompleted, ReconcileFailed, ReconcileRejected,
      StartMonitor, MonitorSucceeds, MonitorInvalidates, CodexLoad, CodexSave, CodexResume,
      Approve, Expire, vars, workerVars, remoteVars
<1>9. ASSUME UNCHANGED <<pc, using, orphans, effects>>
      PROVE  /\ \A v \in Workers : Busy(v)' => Busy(v) /\ Action(v)' = Action(v)
             /\ UNCHANGED <<orphans, effects>>
  BY <1>9 DEF Busy, Action
<1> QED
  BY <1>1, <1>2, <1>3, <1>4, <1>5, <1>6, <1>7, <1>8, <1>9 DEF Next, WorkerStep

\* No path to the merge skips a gate, whatever is paused, resumed, lost,
\* reconciled or restarted on the way (rpc.rs monitor.start, delivery.rs preview).
THEOREM MergesAreGated == Spec => []MergeFollowsGates
<1>1. Init => GateInv
  BY DEF Init, GateInv, Monitored, Busy
<1>2. TypeOK /\ GateInv /\ [Next]_vars => GateInv'
  <2> SUFFICES ASSUME TypeOK, GateInv, [Next]_vars
               PROVE  GateInv'
    OBVIOUS
  <2>1. \A t \in Tasks : /\ state'[t] \in Monitored => t \in monitored'
                         /\ resume'[t] \in Monitored => t \in monitored'
                         /\ copy'[t] \in Monitored => t \in monitored'
    BY GateTasks
  <2>2. /\ \A w \in Workers : Busy(w)' /\ IsMerge(Action(w))' => Gated(Action(w))'
        /\ \A a \in orphans' : IsMerge(a) => Gated(a)'
        /\ \A a \in Actions : IsMerge(a) /\ effects'[a] > 0 => Gated(a)'
    BY GateTraces
  <2> QED
    BY <2>1, <2>2 DEF GateInv, IsMerge, Gated
<1>3. GateInv => MergeFollowsGates
  BY DEF GateInv, Gated, MergeFollowsGates, IsMerge
<1> QED
  BY <1>1, <1>2, <1>3, TypeCorrect, PTL DEF Spec

--------------------------------------------------------------------------------
(* Completed tasks are completed on GitHub *)

\* GitHub shows the outcome of the item, or has shown it: a merge is for good,
\* a closed issue may be opened again.
Reached(i) == IF IsPull[i] THEN item[i] = "merged" ELSE i \in shown

\* What the engine has learned of GitHub and not yet written is so or has been
\* so: the answer of a worker and the snapshot of a reconciliation.  No
\* interruption is resumed to completed.
LearnedInv ==
    /\ \A w \in Workers : pc[w] = "answered" /\ reply[w] = "ok" =>
          /\ effects[Action(w)] > 0
          /\ KindOf[Action(w)] = "merge" => item[TargetOf[Action(w)]] = "merged"
    /\ Covered
    /\ \A t \in Tasks : /\ Confirms(t, snap[t]) => Reached(ItemOf[t])
                        /\ resume[t] # "completed"

LEMMA ReachedStays ==
    ASSUME TypeOK, [Next]_vars, NEW i \in Items, Reached(i)
    PROVE  Reached(i)'
BY DoneStays DEF Reached, ItemMoves

LEMMA LearnedStep == TypeOK /\ LearnedInv /\ [Next]_vars => LearnedInv'
<1> SUFFICES ASSUME TypeOK, LearnedInv, [Next]_vars
             PROVE  LearnedInv'
  OBVIOUS
<1>0. /\ \A a \in Actions : effects[a] > 0 => effects'[a] > 0
      /\ \A i \in Items : ItemMoves(i)
      /\ \A a \in Actions : TargetOf[a] \in Items
      /\ \A t \in Tasks : ItemOf[t] \in Items
  BY DoneStays, DeliveryAssumption
\* A worker that learns nothing new keeps what it has learned.
<1>1. ASSUME \A w \in Workers : pc'[w] = "answered" /\ reply'[w] = "ok" =>
                 /\ pc[w] = "answered" /\ reply[w] = "ok"
                 /\ using'[w] = using[w]
      PROVE  \A w \in Workers : pc'[w] = "answered" /\ reply'[w] = "ok" =>
                 /\ effects'[Action(w)'] > 0
                 /\ KindOf[Action(w)'] = "merge" => item'[TargetOf[Action(w)']] = "merged"
  <2> SUFFICES ASSUME NEW w \in Workers, pc'[w] = "answered", reply'[w] = "ok"
               PROVE  /\ effects'[Action(w)'] > 0
                      /\ KindOf[Action(w)'] = "merge" => item'[TargetOf[Action(w)']] = "merged"
    OBVIOUS
  <2>1. pc[w] = "answered" /\ reply[w] = "ok" /\ Action(w)' = Action(w)
    BY <1>1 DEF Action
  <2>2. Action(w) \in Actions
    BY <2>1, BusyWorker
  <2> QED
    BY <1>0, <2>1, <2>2 DEF LearnedInv, ItemMoves
<1>2. ASSUME NEW w \in Workers, Serve(w)
      PROVE  \A v \in Workers : pc'[v] = "answered" /\ reply'[v] = "ok" =>
                 /\ effects'[Action(v)'] > 0
                 /\ KindOf[Action(v)'] = "merge" => item'[TargetOf[Action(v)']] = "merged"
  <2> SUFFICES ASSUME NEW v \in Workers, pc'[v] = "answered", reply'[v] = "ok"
               PROVE  /\ effects'[Action(v)'] > 0
                      /\ KindOf[Action(v)'] = "merge" => item'[TargetOf[Action(v)']] = "merged"
    OBVIOUS
  <2>1. Action(v)' = Action(v)
    BY <1>2 DEF Serve, Action
  <2>2. CASE v = w
    BY <1>2, <2>1, <2>2, BusyWorker, LandMoves DEF Serve
  <2>3. CASE v # w
    <3>1. pc[v] = "answered" /\ reply[v] = "ok"
      BY <1>2, <2>3 DEF Serve, TypeOK
    <3>2. Action(v) \in Actions
      BY <3>1, BusyWorker
    <3> QED
      BY <1>0, <2>1, <3>1, <3>2 DEF LearnedInv, ItemMoves
  <2> QED
    BY <2>2, <2>3
<1>3. Covered'
  BY DoneStays DEF LearnedInv
\* A snapshot is taken from GitHub or forgotten.
<1>4. ASSUME NEW t \in Tasks, Confirms(t, snap'[t])
      PROVE  Reached(ItemOf[t])'
  <2>0. ItemOf[t] \in Items
    BY <1>0
  <2>1. ASSUME NEW u \in Tasks, FetchSnapshot(u), snap'[t] # snap[t]
        PROVE  Reached(ItemOf[t])'
    <3>1. snap'[t] = item[ItemOf[t]] /\ item' = item /\ shown' = shown
      BY <2>1 DEF FetchSnapshot, TypeOK, remoteVars
    <3> QED
      BY <1>4, <2>0, <3>1 DEF Confirms, Outcome, Reached, Covered, LearnedInv
  <2>2. CASE snap'[t] = snap[t]
    BY <1>4, <2>0, <2>2, ReachedStays DEF LearnedInv
  <2>3. ASSUME \A u \in Tasks : ~FetchSnapshot(u), snap'[t] # snap[t]
        PROVE  snap'[t] = "none"
    BY <2>3
    DEF Next, WorkerStep, TaskStep, Approve, Expire, Claim, FailLocally, Send, Serve, Refuse,
        LoseRequest, RecordSuccess, RecordAmbiguous, RecordFailure, ReconcileCompleted,
        ReconcileFailed, ReconcileRejected, StartMonitor, MonitorSucceeds,
        MonitorInvalidates, CodexLoad, CodexSave, CodexResume, LateServe, LateDrop,
        HumanActs, Restart, vars, TypeOK
  <2>4. snap'[t] # "none"
    BY <1>4 DEF Confirms, Outcome
  <2> QED
    BY <2>1, <2>2, <2>3, <2>4
<1>5. ASSUME NEW t \in Tasks
      PROVE  resume'[t] # "completed"
  <2>1. ASSUME NEW u \in Tasks, CodexSave(u)
        PROVE  resume'[t] # "completed"
    BY <2>1 DEF CodexSave, CanInterrupt, Terminal, LearnedInv, TypeOK
  <2>2. ASSUME NEW u \in Tasks, CodexResume(u)
        PROVE  resume'[t] # "completed"
    BY <2>2 DEF CodexResume, LearnedInv, TypeOK
  <2>3. ASSUME \A u \in Tasks : ~CodexSave(u) /\ ~CodexResume(u)
        PROVE  UNCHANGED resume
    BY <2>3
    DEF Next, WorkerStep, TaskStep, Approve, Expire, Claim, FailLocally, Send, Serve, Refuse,
        LoseRequest, RecordSuccess, RecordAmbiguous, RecordFailure, FetchSnapshot,
        ReconcileCompleted, ReconcileFailed, ReconcileRejected, StartMonitor,
        MonitorSucceeds, MonitorInvalidates, CodexLoad, LateServe, LateDrop,
        HumanActs, Restart, vars, taskVars
  <2> QED
    BY <2>1, <2>2, <2>3 DEF LearnedInv
<1>6. ASSUME \A w \in Workers : ~Serve(w)
      PROVE  \A w \in Workers : pc'[w] = "answered" /\ reply'[w] = "ok" =>
                 /\ pc[w] = "answered" /\ reply[w] = "ok"
                 /\ using'[w] = using[w]
  <2>1. ASSUME NEW w \in Workers, NEW ap \in Approvals, Claim(w, ap)
        PROVE  \A v \in Workers : pc'[v] = "answered" /\ reply'[v] = "ok" =>
                 /\ pc[v] = "answered" /\ reply[v] = "ok"
                 /\ using'[v] = using[v]
    BY <2>1 DEF Claim, TypeOK
  <2>2. ASSUME NEW w \in Workers, FailLocally(w) \/ Send(w) \/ Refuse(w) \/ LoseRequest(w)
        PROVE  \A v \in Workers : pc'[v] = "answered" /\ reply'[v] = "ok" =>
                 /\ pc[v] = "answered" /\ reply[v] = "ok"
                 /\ using'[v] = using[v]
    BY <2>2 DEF FailLocally, Send, Refuse, LoseRequest, LostReply, TypeOK
  <2>3. ASSUME NEW w \in Workers, RecordSuccess(w) \/ RecordAmbiguous(w) \/ RecordFailure(w)
        PROVE  \A v \in Workers : pc'[v] = "answered" /\ reply'[v] = "ok" =>
                 /\ pc[v] = "answered" /\ reply[v] = "ok"
                 /\ using'[v] = using[v]
    BY <2>3 DEF RecordSuccess, RecordAmbiguous, RecordFailure, Finish, TypeOK
  <2>4. ASSUME Restart
        PROVE  \A v \in Workers : pc'[v] # "answered"
    BY <2>4 DEF Restart
  <2>5. ASSUME \/ \E ap \in Approvals : Approve(ap) \/ Expire(ap)
               \/ \E t \in Tasks : TaskStep(t)
               \/ \E a \in Actions : LateServe(a) \/ LateDrop(a)
               \/ \E i \in Items : HumanActs(i)
               \/ UNCHANGED vars
        PROVE  UNCHANGED <<pc, using, reply>>
    BY <2>5
    DEF TaskStep, Approve, Expire, FetchSnapshot, ReconcileCompleted, ReconcileFailed,
        ReconcileRejected, StartMonitor, MonitorSucceeds, MonitorInvalidates, CodexLoad,
        CodexSave, CodexResume, LateServe, LateDrop, HumanActs, vars, workerVars
  <2> QED
    BY <1>6, <2>1, <2>2, <2>3, <2>4, <2>5 DEF Next, WorkerStep
<1>7. \A w \in Workers : pc'[w] = "answered" /\ reply'[w] = "ok" =>
          /\ effects'[Action(w)'] > 0
          /\ KindOf[Action(w)'] = "merge" => item'[TargetOf[Action(w)']] = "merged"
  BY <1>1, <1>2, <1>6
<1>8. \A t \in Tasks : Confirms(t, snap'[t]) => Reached(ItemOf[t])'
  BY <1>4
<1>9. \A t \in Tasks : resume'[t] # "completed"
  BY <1>5
<1> QED
  BY <1>3, <1>7, <1>8, <1>9 DEF LearnedInv, Confirms, Outcome

\* GitHub shows the outcome of a task, or has shown it.
Shown(t) ==
    \/ Reached(ItemOf[t])
    \/ \E a \in Actions : /\ KindOf[a] = "close"
                          /\ TargetOf[a] = ItemOf[t]
                          /\ effects[a] > 0

LEMMA CompletedStep ==
    TypeOK /\ LearnedInv /\ CompletedIsRemote /\ [Next]_vars => CompletedIsRemote'
<1> SUFFICES ASSUME TypeOK, LearnedInv, CompletedIsRemote, [Next]_vars,
                    NEW t \in Tasks, state'[t] = "completed"
             PROVE  Shown(t)'
  BY DEF CompletedIsRemote, Shown, Reached
\* What GitHub has shown it has shown for good.
<1>1. ASSUME Shown(t)
      PROVE  Shown(t)'
  <2>1. CASE Reached(ItemOf[t])
    BY <2>1, ReachedStays, DeliveryAssumption DEF Shown
  <2>2. CASE ~Reached(ItemOf[t])
    BY <1>1, <2>2, DoneStays DEF Shown
  <2> QED
    BY <2>1, <2>2
<1>2. ASSUME NEW w \in Workers, RecordSuccess(w), state[t] # "completed"
      PROVE  Shown(t)
  <2>1. /\ using[w] \in Approvals
        /\ Action(w) = using[w].action
        /\ Task(w) = using[w].task
        /\ pc[w] = "answered" /\ reply[w] = "ok"
        /\ state' = [state EXCEPT ![Task(w)] = AfterSuccess(Action(w), @)]
    BY <1>2, BusyWorker DEF RecordSuccess
  <2>2. Task(w) = t /\ AfterSuccess(Action(w), state[t]) = "completed"
    BY <1>2, <2>1, ApprovalFields DEF TypeOK
  <2>3. KindOf[Action(w)] \in {"merge", "close"}
    BY <1>2, <2>2 DEF AfterSuccess
  <2>4. /\ Action(w) \in Actions
        /\ TargetOf[Action(w)] = ItemOf[t]
        /\ KindOf[Action(w)] = "merge" => IsPull[ItemOf[t]]
    BY <2>1, <2>2, ApprovalFields DEF IsMerge
  <2> QED
    BY <2>1, <2>3, <2>4 DEF LearnedInv, Shown, Reached
<1>3. ASSUME NEW u \in Tasks, ReconcileCompleted(u), state[t] # "completed"
      PROVE  Shown(t)
  <2>1. u = t /\ Confirms(t, snap[t])
    BY <1>3 DEF ReconcileCompleted, TypeOK
  <2> QED
    BY <2>1 DEF LearnedInv, Shown
<1>4. ASSUME NEW u \in Tasks, CodexResume(u) \/ CodexSave(u)
      PROVE  state[t] = "completed"
  BY <1>4 DEF CodexResume, CodexSave, LearnedInv, TypeOK
<1>5. ASSUME NEW w \in Workers, WorkerStep(w), ~RecordSuccess(w)
      PROVE  state[t] = "completed"
  BY <1>5
  DEF WorkerStep, Claim, FailLocally, Send, Serve, Refuse, LoseRequest, RecordAmbiguous,
      RecordFailure, TypeOK, taskVars
<1>6. ASSUME NEW u \in Tasks, TaskStep(u), ~ReconcileCompleted(u),
             ~CodexResume(u), ~CodexSave(u)
      PROVE  state[t] = "completed"
  BY <1>6
  DEF TaskStep, FetchSnapshot, ReconcileFailed, ReconcileRejected, StartMonitor,
      MonitorSucceeds, MonitorInvalidates, CodexLoad, TypeOK, taskVars
<1>7. ASSUME \/ \E ap \in Approvals : Approve(ap) \/ Expire(ap)
             \/ \E a \in Actions : LateServe(a) \/ LateDrop(a)
             \/ \E i \in Items : HumanActs(i)
             \/ Restart
             \/ UNCHANGED vars
      PROVE  state[t] = "completed"
  BY <1>7 DEF Approve, Expire, LateServe, LateDrop, HumanActs, Restart, vars, taskVars
<1>8. state[t] = "completed" => Shown(t)
  BY DEF CompletedIsRemote, Shown, Reached
<1> QED
  BY <1>1, <1>2, <1>3, <1>4, <1>5, <1>6, <1>7, <1>8 DEF Next

\* A task is recorded as completed only on an outcome that GitHub has shown, and
\* for a pull request still shows: whoever merges, closes or reopens, whatever
\* answers late, and however old the snapshot is that a reconciliation has
\* fetched.
THEOREM CompletedIsShown == Spec => []CompletedIsRemote
<1>1. Init => LearnedInv
  BY DEF Init, LearnedInv, Covered, Confirms, Outcome
<1>2. Init => CompletedIsRemote
  BY DEF Init, CompletedIsRemote
<1> QED
  BY <1>1, <1>2, LearnedStep, CompletedStep, TypeCorrect, PTL DEF Spec

--------------------------------------------------------------------------------
(* The promise of RemoteWrite, for the actions whose refusals are definite, *)
(* when GitHub never answers 5xx after it applied a write.                  *)
(*                                                                          *)
(* The inductive invariant: what the deliveries table and the memory of the *)
(* workers know about the effect of a key on GitHub.                        *)

\* Only the claim of a merge stores its task, so reconciliation finds no other.
OwnerIsMerge == \A a \in Actions : owner[a] # None => IsMerge(a)

\* A key that can be claimed has no effect and no request on the wire.
KeyOK(a) ==
    /\ effects[a] <= 1
    /\ a \in orphans => effects[a] = 0
    /\ row[a] \in {"none", "failed"} => effects[a] = 0 /\ a \notin orphans
    /\ row[a] = "succeeded" => effects[a] = 1

\* Before the request is served, and after a refusal, there is no effect and
\* no request left on the wire; an acknowledged write is there.
WorkerOK(w) ==
    /\ pc[w] \in {"claimed", "sent"} \/ (pc[w] = "answered" /\ reply[w] = "refused")
          => effects[Action(w)] = 0 /\ Action(w) \notin orphans
    /\ pc[w] = "answered" /\ reply[w] = "ok" => effects[Action(w)] = 1

WriteInv ==
    /\ OwnerIsMerge
    /\ \A a \in DefiniteActions : KeyOK(a)
    /\ \A w \in Workers : Action(w) \in DefiniteActions /\ Busy(w) => WorkerOK(w)

LEMMA DefiniteKind ==
    ASSUME NEW a \in DefiniteActions
    PROVE  /\ a \in Actions
           /\ ~IsMerge(a)
           /\ KindOf[a] # "merge"
           /\ LostReply(a) = "lost"
           /\ Accepts(a)
BY DEF DefiniteActions, IsMerge, LostReply, Accepts

LEMMA WriteInit == Init => WriteInv
BY DEF Init, WriteInv, OwnerIsMerge, KeyOK, Busy, DefiniteActions

\* Steps that leave the keys and the workers alone.
LEMMA WriteQuiet ==
    ASSUME WriteInv, UNCHANGED <<rowVars, workerVars, orphans, effects>>
    PROVE  WriteInv'
BY DEF WriteInv, OwnerIsMerge, KeyOK, WorkerOK, Busy, Action, rowVars, workerVars

\* The steps of a worker between claim and outcome.
LEMMA WriteWorker ==
    ASSUME TypeOK, ExecutionHoldsClaim, WriteInv, ~GatewayErrors,
           NEW w \in Workers, WorkerStep(w)
    PROVE  WriteInv'
<1>1. ASSUME NEW ap \in Approvals, Claim(w, ap)
      PROVE  WriteInv'
  <2>1. OwnerIsMerge'
    BY <1>1, ApprovalFields DEF Claim, WriteInv, OwnerIsMerge, TypeOK, IsMerge
  <2>2. ap.action \in DefiniteActions =>
           effects[ap.action] = 0 /\ ap.action \notin orphans
    BY <1>1 DEF Claim, Reclaimable, WriteInv, KeyOK
  <2>3. \A a \in DefiniteActions : KeyOK(a)'
    BY <1>1, <2>2, DefiniteKind DEF Claim, WriteInv, KeyOK, TypeOK, remoteVars
  <2>4. \A v \in Workers : Action(v)' \in DefiniteActions /\ Busy(v)' => WorkerOK(v)'
    BY <1>1, <2>2 DEF Claim, WriteInv, WorkerOK, Busy, Action, TypeOK, remoteVars
  <2> QED
    BY <2>1, <2>3, <2>4 DEF WriteInv, DefiniteActions
<1>2. CASE FailLocally(w) \/ Send(w) \/ Refuse(w)
  <2>1. /\ UNCHANGED <<rowVars, using, orphans, effects>>
        /\ pc[w] \in {"claimed", "sent"}
    BY <1>2 DEF FailLocally, Send, Refuse, remoteVars
  <2>2. /\ \A v \in Workers \ {w} : UNCHANGED <<pc[v], reply[v]>>
        /\ pc'[w] \in {"sent", "answered"}
        /\ pc'[w] = "answered" => reply'[w] = "refused"
    BY <1>2 DEF FailLocally, Send, Refuse, TypeOK
  <2>3. \A v \in Workers : Action(v)' \in DefiniteActions /\ Busy(v)' => WorkerOK(v)'
    BY <2>1, <2>2 DEF WriteInv, WorkerOK, Busy, Action
  <2> QED
    BY <2>1, <2>3 DEF WriteInv, OwnerIsMerge, KeyOK, rowVars
<1>3. CASE Serve(w)
  <2>1. /\ Action(w) \in Actions
        /\ row[Action(w)] = "claimed"
    BY <1>3, BusyWorker DEF Serve, ExecutionHoldsClaim, Busy
  <2>2. \A v \in Workers \ {w} : Busy(v) => Action(v) # Action(w)
    BY <1>3 DEF Serve, ExecutionHoldsClaim, Busy
  <2>3. /\ UNCHANGED <<rowVars, using, orphans>>
        /\ \A v \in Workers \ {w} : UNCHANGED <<pc[v], reply[v]>>
        /\ pc'[w] = "answered"
        /\ pc[w] = "sent"
    BY <1>3 DEF Serve, TypeOK
  <2>4. effects' = [effects EXCEPT ![Action(w)] = Bump(@)]
    BY <1>3 DEF Serve, Land
  <2>5. Action(w) \in DefiniteActions =>
           /\ effects[Action(w)] = 0
           /\ Action(w) \notin orphans
           /\ effects'[Action(w)] = 1
           /\ reply'[w] \in {"ok", "lost"}
    <3>1. Action(w) \in DefiniteActions =>
             effects[Action(w)] = 0 /\ Action(w) \notin orphans
      BY <2>3 DEF WriteInv, WorkerOK, Busy
    <3>2. Action(w) \in DefiniteActions => reply'[w] \in {"ok", "lost"}
      BY <1>3, DefiniteKind DEF Serve, TypeOK
    <3> QED
      BY <2>1, <2>4, <3>1, <3>2 DEF TypeOK, Bump
  <2>6. \A a \in DefiniteActions : KeyOK(a)'
    <3> SUFFICES ASSUME NEW a \in DefiniteActions
                 PROVE  KeyOK(a)'
      OBVIOUS
    <3>1. CASE a = Action(w)
      BY <2>1, <2>3, <2>5, <3>1 DEF KeyOK, rowVars
    <3>2. CASE a # Action(w)
      BY <2>3, <2>4, <3>2, DefiniteKind DEF KeyOK, WriteInv, TypeOK, rowVars
    <3> QED
      BY <3>1, <3>2
  <2>7. \A v \in Workers : Action(v)' \in DefiniteActions /\ Busy(v)' => WorkerOK(v)'
    <3>1. Action(w)' \in DefiniteActions => WorkerOK(w)'
      BY <2>3, <2>5 DEF WorkerOK, Action
    <3>2. ASSUME NEW v \in Workers \ {w}, Action(v)' \in DefiniteActions, Busy(v)'
          PROVE  WorkerOK(v)'
      <4>1. /\ Action(v)' = Action(v)
            /\ Busy(v)
            /\ Action(v) # Action(w)
            /\ Action(v) \in Actions
            /\ WorkerOK(v)
        BY <2>2, <2>3, <3>2 DEF Action, Busy, WriteInv, DefiniteActions
      <4>2. effects'[Action(v)] = effects[Action(v)]
        BY <2>4, <4>1 DEF TypeOK
      <4> QED
        BY <2>3, <4>1, <4>2 DEF WorkerOK
    <3> QED
      BY <3>1, <3>2
  <2> QED
    BY <2>3, <2>6, <2>7 DEF WriteInv, OwnerIsMerge, rowVars
<1>4. CASE LoseRequest(w)
  <2>1. /\ Action(w) \in Actions
        /\ row[Action(w)] = "claimed"
        /\ pc[w] = "sent"
    BY <1>4, BusyWorker DEF LoseRequest, ExecutionHoldsClaim, Busy
  <2>2. \A v \in Workers \ {w} : Busy(v) => Action(v) # Action(w)
    BY <1>4 DEF LoseRequest, ExecutionHoldsClaim, Busy
  <2>3. /\ UNCHANGED <<rowVars, using, effects>>
        /\ orphans' = orphans \cup {Action(w)}
        /\ \A v \in Workers \ {w} : UNCHANGED <<pc[v], reply[v]>>
        /\ pc'[w] = "answered"
        /\ Action(w) \in DefiniteActions => reply'[w] = "lost"
    BY <1>4, DefiniteKind DEF LoseRequest, TypeOK
  <2>4. Action(w) \in DefiniteActions => effects[Action(w)] = 0
    BY <2>1 DEF WriteInv, WorkerOK, Busy
  <2>5. \A a \in DefiniteActions : KeyOK(a)'
    BY <2>1, <2>3, <2>4 DEF WriteInv, KeyOK, rowVars
  <2>6. \A v \in Workers : Action(v)' \in DefiniteActions /\ Busy(v)' => WorkerOK(v)'
    BY <2>2, <2>3 DEF WriteInv, WorkerOK, Action, Busy
  <2> QED
    BY <2>3, <2>5, <2>6 DEF WriteInv, OwnerIsMerge, rowVars
<1>5. CASE RecordSuccess(w) \/ RecordAmbiguous(w) \/ RecordFailure(w)
  <2>1. /\ Action(w) \in Actions
        /\ Busy(w)
        /\ pc[w] = "answered"
        /\ Finish(w)
        /\ UNCHANGED <<owner, orphans, effects>>
    BY <1>5, BusyWorker
    DEF RecordSuccess, RecordAmbiguous, RecordFailure, Busy, remoteVars
  <2>2. PICK r \in {"succeeded", "ambiguous", "failed"} :
           /\ row' = [row EXCEPT ![Action(w)] = r]
           /\ r = "succeeded" => reply[w] = "ok"
           /\ r = "failed" => reply[w] = "refused"
    BY <1>5 DEF RecordSuccess, RecordAmbiguous, RecordFailure
  <2>3. \A a \in DefiniteActions : KeyOK(a)'
    <3> SUFFICES ASSUME NEW a \in DefiniteActions
                 PROVE  KeyOK(a)'
      OBVIOUS
    <3>1. CASE a = Action(w)
      BY <2>1, <2>2, <3>1 DEF KeyOK, WorkerOK, WriteInv, TypeOK
    <3>2. CASE a # Action(w)
      BY <2>1, <2>2, <3>2, DefiniteKind DEF KeyOK, WriteInv, TypeOK
    <3> QED
      BY <3>1, <3>2
  <2>4. \A v \in Workers : Action(v)' \in DefiniteActions /\ Busy(v)' => WorkerOK(v)'
    BY <2>1 DEF WriteInv, WorkerOK, Action, Busy, Finish, TypeOK
  <2> QED
    BY <2>1, <2>3, <2>4 DEF WriteInv, OwnerIsMerge
<1> QED
  BY <1>1, <1>2, <1>3, <1>4, <1>5 DEF WorkerStep

LEMMA WriteStep ==
    ASSUME ~GatewayErrors
    PROVE  TypeOK /\ ExecutionHoldsClaim /\ WriteInv /\ [Next]_vars => WriteInv'
<1> SUFFICES ASSUME TypeOK, ExecutionHoldsClaim, WriteInv, [Next]_vars
             PROVE  WriteInv'
  OBVIOUS
<1>1. ASSUME NEW w \in Workers, WorkerStep(w)
      PROVE  WriteInv'
  BY <1>1, WriteWorker
<1>2. ASSUME NEW t \in Tasks, ReconcileCompleted(t) \/ ReconcileFailed(t)
      PROVE  WriteInv'
  \* Reconciliation rewrites only rows that store their task, those of merges.
  <2>1. /\ UNCHANGED <<owner, workerVars, orphans, effects>>
        /\ \A a \in Actions : owner[a] # t => row'[a] = row[a]
    BY <1>2
    DEF ReconcileCompleted, ReconcileFailed, AmbiguousKeys, TypeOK, remoteVars
  <2>2. \A a \in DefiniteActions : row'[a] = row[a]
    BY <2>1, DefiniteKind, DeliveryAssumption DEF WriteInv, OwnerIsMerge
  <2> QED
    BY <2>1, <2>2
    DEF WriteInv, OwnerIsMerge, KeyOK, WorkerOK, Action, Busy, workerVars
<1>3. ASSUME NEW a \in Actions, LateServe(a)
      PROVE  WriteInv'
  <2>1. /\ UNCHANGED <<rowVars, workerVars>>
        /\ orphans' = orphans \ {a}
        /\ a \in orphans
        /\ \A b \in Actions \ {a} : effects'[b] = effects[b]
        /\ a \in DefiniteActions => effects' = [effects EXCEPT ![a] = Bump(@)]
    BY <1>3, DefiniteKind DEF LateServe, Land, TypeOK
  \* The row of an orphaned request is claimed or ambiguous.
  <2>2. a \in DefiniteActions =>
           effects[a] = 0 /\ effects'[a] = 1 /\ row[a] \notin {"none", "failed", "succeeded"}
    BY <2>1 DEF WriteInv, KeyOK, TypeOK, Bump
  <2>3. \A b \in DefiniteActions : KeyOK(b)'
    BY <2>1, <2>2, DefiniteKind DEF WriteInv, KeyOK, rowVars
  <2>4. \A w \in Workers : Action(w)' \in DefiniteActions /\ Busy(w)' => WorkerOK(w)'
    BY <2>1, <2>2, DefiniteKind DEF WriteInv, WorkerOK, Action, Busy, workerVars
  <2> QED
    BY <2>1, <2>3, <2>4 DEF WriteInv, OwnerIsMerge, rowVars
<1>4. ASSUME NEW a \in Actions, LateDrop(a)
      PROVE  WriteInv'
  BY <1>4
  DEF LateDrop, WriteInv, OwnerIsMerge, KeyOK, WorkerOK, Action, Busy, rowVars, workerVars
<1>5. CASE Restart
  <2>1. \A w \in Workers : ~Busy(w)'
    BY <1>5 DEF Restart, Busy
  <2>2. \A a \in DefiniteActions : a \in orphans' =>
           effects[a] = 0 /\ (a \notin orphans => row[a] = "claimed")
    BY <1>5 DEF Restart, WriteInv, KeyOK, WorkerOK, Busy, ExecutionHoldsClaim
  <2>3. \A a \in DefiniteActions : KeyOK(a)'
    BY <1>5, <2>2 DEF Restart, WriteInv, KeyOK, rowVars
  <2> QED
    BY <1>5, <2>1, <2>3 DEF Restart, WriteInv, OwnerIsMerge, rowVars
<1>6. ASSUME NEW t \in Tasks, TaskStep(t),
             ~ReconcileCompleted(t), ~ReconcileFailed(t)
      PROVE  UNCHANGED <<rowVars, workerVars, orphans, effects>>
  BY <1>6
  DEF TaskStep, FetchSnapshot, ReconcileRejected, StartMonitor, MonitorSucceeds,
      MonitorInvalidates, CodexLoad, CodexSave, CodexResume, remoteVars
<1>7. ASSUME \/ \E ap \in Approvals : Approve(ap) \/ Expire(ap)
             \/ \E i \in Items : HumanActs(i)
             \/ UNCHANGED vars
      PROVE  UNCHANGED <<rowVars, workerVars, orphans, effects>>
  BY <1>7 DEF Approve, Expire, HumanActs, vars, remoteVars
<1> QED
  BY <1>1, <1>2, <1>3, <1>4, <1>5, <1>6, <1>7, WriteQuiet DEF Next

LEMMA WriteInvariant ==
    ASSUME ~GatewayErrors
    PROVE  Spec => [](TypeOK /\ ExecutionHoldsClaim /\ WriteInv)
<1>1. TypeOK /\ ExecutionHoldsClaim /\ WriteInv /\ [Next]_vars => WriteInv'
  BY WriteStep
<1> QED
  BY <1>1, WriteInit, TypeCorrect, ExclusiveExecution, PTL DEF Spec

--------------------------------------------------------------------------------
(* Merges: GitHub itself refuses to merge what is merged, and that is for good. *)

MergeInv ==
    /\ \A a \in Actions : KindOf[a] = "merge" =>
          effects[a] <= 1 /\ (effects[a] > 0 => item[TargetOf[a]] = "merged")
    /\ \A a \in Actions : KindOf[a] = "enqueue" => effects[a] = 0 /\ a \notin orphans
    /\ \A w \in Workers : pc[w] = "sent" => KindOf[Action(w)] # "enqueue"

\* An accepted write lands: the target of a merge is merged afterwards, no
\* merged item changes and only a merge of an open item counts again.
LEMMA LandMerge ==
    ASSUME TypeOK, MergeInv, NEW a \in Actions, KindOf[a] # "enqueue",
           Accepts(a), Land(a)
    PROVE  /\ \A b \in Actions : KindOf[b] = "merge" =>
                 effects'[b] <= 1 /\ (effects'[b] > 0 => item'[TargetOf[b]] = "merged")
           /\ \A b \in Actions : KindOf[b] = "enqueue" => effects'[b] = 0
<1>1. /\ effects' = [effects EXCEPT ![a] = Bump(@)]
      /\ TargetOf[a] \in Items
  BY DeliveryAssumption DEF Land
<1>2. \A i \in Items : item[i] = "merged" => item'[i] = "merged"
  BY <1>1 DEF Land, TypeOK
<1>3. ASSUME KindOf[a] = "merge"
      PROVE  effects[a] = 0 /\ effects'[a] = 1 /\ item'[TargetOf[a]] = "merged"
  BY <1>1, <1>3 DEF Land, Accepts, MergeInv, TypeOK, Bump
<1>4. \A b \in Actions \ {a} : effects'[b] = effects[b]
  BY <1>1 DEF TypeOK
<1>5. \A b \in Actions : TargetOf[b] \in Items
  BY DeliveryAssumption
<1> QED
  BY <1>2, <1>3, <1>4, <1>5 DEF MergeInv

LEMMA MergeStep == TypeOK /\ MergeInv /\ [Next]_vars => MergeInv'
<1> SUFFICES ASSUME TypeOK, MergeInv, [Next]_vars
             PROVE  MergeInv'
  OBVIOUS
<1>1. ASSUME NEW w \in Workers, Serve(w)
      PROVE  MergeInv'
  <2>1. Action(w) \in Actions /\ KindOf[Action(w)] # "enqueue"
    BY <1>1, BusyWorker DEF Serve, MergeInv
  <2>2. \A v \in Workers : pc'[v] = "sent" => pc[v] = "sent" /\ Action(v)' = Action(v)
    BY <1>1 DEF Serve, TypeOK, Action
  <2> QED
    BY <1>1, <2>1, <2>2, LandMerge DEF Serve, MergeInv
<1>2. ASSUME NEW w \in Workers, LoseRequest(w)
      PROVE  MergeInv'
  <2>1. KindOf[Action(w)] # "enqueue"
    BY <1>2 DEF LoseRequest, MergeInv
  <2>2. \A v \in Workers : pc'[v] = "sent" => pc[v] = "sent" /\ Action(v)' = Action(v)
    BY <1>2 DEF LoseRequest, TypeOK, Action
  <2> QED
    BY <1>2, <2>1, <2>2 DEF LoseRequest, MergeInv
<1>3. ASSUME NEW w \in Workers,
             \/ \E ap \in Approvals : Claim(w, ap)
             \/ FailLocally(w) \/ Send(w) \/ Refuse(w)
             \/ RecordSuccess(w) \/ RecordAmbiguous(w) \/ RecordFailure(w)
      PROVE  MergeInv'
  <2>1. UNCHANGED remoteVars
    BY <1>3
    DEF Claim, FailLocally, Send, Refuse, RecordSuccess, RecordAmbiguous, RecordFailure
  <2>2. \A v \in Workers : pc'[v] = "sent" =>
           /\ Action(v)' = Action(v)
           /\ pc[v] = "sent" \/ KindOf[Action(v)] # "enqueue"
    BY <1>3
    DEF Claim, FailLocally, Send, Refuse, RecordSuccess, RecordAmbiguous,
        RecordFailure, Finish, TypeOK, Action
  <2> QED
    BY <2>1, <2>2 DEF MergeInv, remoteVars
<1>4. ASSUME NEW a \in Actions, LateServe(a)
      PROVE  MergeInv'
  <2>1. KindOf[a] # "enqueue"
    BY <1>4 DEF LateServe, MergeInv
  <2>2. /\ orphans' \subseteq orphans
        /\ \A v \in Workers : pc'[v] = pc[v] /\ Action(v)' = Action(v)
    BY <1>4 DEF LateServe, workerVars, Action
  <2>3. CASE Accepts(a)
    BY <1>4, <2>1, <2>2, <2>3, LandMerge DEF LateServe, MergeInv
  <2>4. CASE ~Accepts(a)
    BY <1>4, <2>2, <2>4 DEF LateServe, MergeInv
  <2> QED
    BY <2>3, <2>4
<1>5. ASSUME NEW a \in Actions, LateDrop(a)
      PROVE  MergeInv'
  BY <1>5 DEF LateDrop, MergeInv, workerVars, Action
<1>6. ASSUME NEW i \in Items, HumanActs(i)
      PROVE  MergeInv'
  <2>1. \A j \in Items : item[j] = "merged" => item'[j] = "merged"
    BY <1>6 DEF HumanActs, TypeOK
  <2>2. \A b \in Actions : TargetOf[b] \in Items
    BY DeliveryAssumption
  <2> QED
    BY <1>6, <2>1, <2>2 DEF HumanActs, MergeInv, workerVars, Action
<1>7. CASE Restart
  <2>1. \A a \in orphans' : a \in orphans \/ KindOf[a] # "enqueue"
    BY <1>7 DEF Restart, MergeInv
  <2> QED
    BY <1>7, <2>1 DEF Restart, MergeInv
<1>8. ASSUME UNCHANGED <<workerVars, remoteVars>>
      PROVE  MergeInv'
  BY <1>8 DEF MergeInv, workerVars, remoteVars, Action
<1>9. ASSUME NEW t \in Tasks, TaskStep(t)
      PROVE  UNCHANGED <<workerVars, remoteVars>>
  BY <1>9
  DEF TaskStep, FetchSnapshot, ReconcileCompleted, ReconcileFailed, ReconcileRejected,
      StartMonitor, MonitorSucceeds, MonitorInvalidates, CodexLoad, CodexSave, CodexResume
<1>10. ASSUME \/ \E ap \in Approvals : Approve(ap) \/ Expire(ap)
              \/ UNCHANGED vars
       PROVE  UNCHANGED <<workerVars, remoteVars>>
  BY <1>10 DEF Approve, Expire, vars
<1> QED
  BY <1>1, <1>2, <1>3, <1>4, <1>5, <1>6, <1>7, <1>8, <1>9, <1>10 DEF Next, WorkerStep

LEMMA MergeInvariant == Spec => []MergeInv
<1>1. Init => MergeInv
  BY DEF Init, MergeInv
<1> QED
  BY <1>1, MergeStep, TypeCorrect, PTL DEF Spec

\* The engine never repeats a remote write: whatever fails, is retried, is
\* processed late or restarts, GitHub applies the action of an idempotency key
\* at most once (pushes of the same commit aside), as long as it never answers
\* 5xx after it applied a write.
THEOREM OneEffect ==
    ASSUME ~GatewayErrors
    PROVE  Spec => []AtMostOneEffect
<1>1. WriteInv /\ MergeInv => AtMostOneEffect
  BY DeliveryAssumption
  DEF WriteInv, KeyOK, MergeInv, AtMostOneEffect, DefiniteActions, Kinds
<1> QED
  BY <1>1, WriteInvariant, MergeInvariant, PTL

--------------------------------------------------------------------------------
(* Refinement: the deliveries table and GitHub implement RemoteWrite. *)

absPhase == [a \in DefiniteActions |-> RowPhase(row[a])]
absWritten == [a \in DefiniteActions |-> effects[a] > 0]

\* A step that touches one key only is a step of that key in RemoteWrite.
LEMMA OneKey ==
    ASSUME NEW a \in DefiniteActions,
           \A b \in DefiniteActions \ {a} :
               row'[b] = row[b] /\ effects'[b] = effects[b]
    PROVE  /\ absPhase' = [absPhase EXCEPT ![a] = RowPhase(row'[a])]
           /\ absWritten' = [absWritten EXCEPT ![a] = effects'[a] > 0]
           /\ row'[a] = row[a] => absPhase' = absPhase
           /\ effects'[a] = effects[a] => absWritten' = absWritten
<1>1. /\ \A b \in DefiniteActions : RowPhase(row'[b]) =
              (IF b = a THEN RowPhase(row'[a]) ELSE RowPhase(row[b]))
      /\ \A b \in DefiniteActions : (effects'[b] > 0) =
              (IF b = a THEN effects'[a] > 0 ELSE effects[b] > 0)
  OBVIOUS
<1>2. /\ absPhase' = [b \in DefiniteActions |-> RowPhase(row'[b])]
      /\ absWritten' = [b \in DefiniteActions |-> effects'[b] > 0]
  BY DEF absPhase, absWritten, DefiniteActions, RowPhase
<1>3. absPhase' = [absPhase EXCEPT ![a] = RowPhase(row'[a])]
  BY <1>1, <1>2, Zenon DEF absPhase
<1>4. absWritten' = [absWritten EXCEPT ![a] = effects'[a] > 0]
  BY <1>1, <1>2, Zenon DEF absWritten
<1>5. row'[a] = row[a] => absPhase' = absPhase
  <2>1. row'[a] = row[a] =>
           \A b \in DefiniteActions : RowPhase(row'[b]) = RowPhase(row[b])
    BY Zenon
  <2> QED
    BY <1>2, <2>1, Zenon DEF absPhase
<1>6. effects'[a] = effects[a] => absWritten' = absWritten
  <2>1. effects'[a] = effects[a] =>
           \A b \in DefiniteActions : (effects'[b] > 0) = (effects[b] > 0)
    BY Zenon
  <2> QED
    BY <1>2, <2>1, Zenon DEF absWritten
<1> QED
  BY <1>3, <1>4, <1>5, <1>6

LEMMA PhaseValue ==
    /\ \A r \in {"none", "failed"} : RowPhase(r) = "idle"
    /\ RowPhase("claimed") = "inflight"
    /\ RowPhase("ambiguous") = "unknown"
    /\ RowPhase("succeeded") = "done"
BY DEF RowPhase

LEMMA AbsValue ==
    ASSUME NEW a \in DefiniteActions
    PROVE  /\ row[a] \in {"none", "failed"} => absPhase[a] = "idle"
           /\ row[a] = "claimed" => absPhase[a] = "inflight"
           /\ row[a] = "ambiguous" => absPhase[a] = "unknown"
           /\ effects[a] = 0 => ~absWritten[a]
           /\ effects[a] = 1 => absWritten[a]
<1>1. absPhase[a] = RowPhase(row[a])
  BY DEF absPhase
<1>2. absWritten[a] = (effects[a] > 0)
  BY Zenon DEF absWritten
<1>3. /\ effects[a] = 0 => (effects[a] > 0) = FALSE
      /\ effects[a] = 1 => (effects[a] > 0) = TRUE
  OBVIOUS
<1>4. /\ effects[a] = 0 => ~absWritten[a]
      /\ effects[a] = 1 => absWritten[a]
  BY <1>2, <1>3, Zenon
<1> QED
  BY <1>1, <1>4, PhaseValue

\* A step that touches no definite key stutters.
LEMMA NoKey ==
    ASSUME \A a \in DefiniteActions : row'[a] = row[a] /\ effects'[a] = effects[a]
    PROVE  UNCHANGED <<absPhase, absWritten>>
BY DEF absPhase, absWritten, DefiniteActions

LEMMA KeyStep ==
    ASSUME NEW a \in DefiniteActions,
           \/ /\ absPhase[a] = "idle" /\ ~absWritten[a]
              /\ absPhase' = [absPhase EXCEPT ![a] = "inflight"]
              /\ absWritten' = absWritten
           \/ /\ absPhase[a] \in {"inflight", "unknown"} /\ ~absWritten[a]
              /\ absWritten' = [absWritten EXCEPT ![a] = TRUE]
              /\ absPhase' = absPhase
           \/ /\ absPhase[a] = "inflight" /\ absWritten[a]
              /\ absPhase' = [absPhase EXCEPT ![a] = "done"]
              /\ absWritten' = absWritten
           \/ /\ absPhase[a] = "inflight" /\ ~absWritten[a]
              /\ absPhase' = [absPhase EXCEPT ![a] = "idle"]
              /\ absWritten' = absWritten
           \/ /\ absPhase[a] = "inflight"
              /\ absPhase' = [absPhase EXCEPT ![a] = "unknown"]
              /\ absWritten' = absWritten
    PROVE  Promise!WNext
<1>1. CASE /\ absPhase[a] = "idle" /\ ~absWritten[a]
           /\ absPhase' = [absPhase EXCEPT ![a] = "inflight"]
           /\ absWritten' = absWritten
  BY <1>1 DEF Promise!WNext, Promise!Authorize, absPhase, absWritten
<1>2. CASE /\ absPhase[a] \in {"inflight", "unknown"} /\ ~absWritten[a]
           /\ absWritten' = [absWritten EXCEPT ![a] = TRUE]
           /\ absPhase' = absPhase
  BY <1>2 DEF Promise!WNext, Promise!Apply, absPhase, absWritten
<1>3. CASE /\ absPhase[a] = "inflight" /\ absWritten[a]
           /\ absPhase' = [absPhase EXCEPT ![a] = "done"]
           /\ absWritten' = absWritten
  BY <1>3 DEF Promise!WNext, Promise!Confirm, absPhase, absWritten
<1>4. CASE /\ absPhase[a] = "inflight" /\ ~absWritten[a]
           /\ absPhase' = [absPhase EXCEPT ![a] = "idle"]
           /\ absWritten' = absWritten
  BY <1>4 DEF Promise!WNext, Promise!Reject, absPhase, absWritten
<1>5. CASE /\ absPhase[a] = "inflight"
           /\ absPhase' = [absPhase EXCEPT ![a] = "unknown"]
           /\ absWritten' = absWritten
  BY <1>5 DEF Promise!WNext, Promise!GiveUp, absPhase, absWritten
<1> QED
  BY <1>1, <1>2, <1>3, <1>4, <1>5

\* Every step of Delivery is a step of RemoteWrite or a stutter.
LEMMA RefinementStep ==
    ASSUME TypeOK, ExecutionHoldsClaim, WriteInv, ~GatewayErrors, [Next]_vars
    PROVE  Promise!WNext \/ UNCHANGED <<absPhase, absWritten>>
<1>0. \A a \in DefiniteActions : a \in Actions /\ effects[a] \in 0..1
  BY DefiniteKind DEF WriteInv, KeyOK, TypeOK
<1>1. ASSUME NEW w \in Workers, NEW ap \in Approvals, Claim(w, ap)
      PROVE  Promise!WNext \/ UNCHANGED <<absPhase, absWritten>>
  <2>1. /\ effects' = effects
        /\ row[ap.action] \in {"none", "failed"}
        /\ row'[ap.action] = "claimed"
        /\ \A b \in Actions \ {ap.action} : row'[b] = row[b]
    BY <1>1, ApprovalFields DEF Claim, Reclaimable, TypeOK, remoteVars
  <2>2. CASE ap.action \in DefiniteActions
    <3>1. /\ absPhase[ap.action] = "idle"
          /\ ~absWritten[ap.action]
      <4>1. effects[ap.action] = 0
        BY <2>1, <2>2 DEF WriteInv, KeyOK
      <4> QED
        BY <2>1, <2>2, <4>1, AbsValue
    <3>2. /\ absPhase' = [absPhase EXCEPT ![ap.action] = "inflight"]
          /\ absWritten' = absWritten
      BY <1>0, <2>1, <2>2, OneKey DEF RowPhase
    <3> QED
      BY <2>2, <3>1, <3>2, KeyStep
  <2>3. CASE ap.action \notin DefiniteActions
    BY <1>0, <2>1, <2>3, NoKey
  <2> QED
    BY <2>2, <2>3
<1>2. ASSUME NEW w \in Workers, Serve(w)
      PROVE  Promise!WNext \/ UNCHANGED <<absPhase, absWritten>>
  <2>1. /\ Action(w) \in Actions
        /\ row' = row
        /\ row[Action(w)] = "claimed"
        /\ effects' = [effects EXCEPT ![Action(w)] = Bump(@)]
    BY <1>2, BusyWorker DEF Serve, Land, rowVars, ExecutionHoldsClaim, Busy
  <2>2. CASE Action(w) \in DefiniteActions
    <3>1. effects[Action(w)] = 0 /\ effects'[Action(w)] = 1
      BY <1>2, <2>1, <2>2 DEF Serve, WriteInv, WorkerOK, Busy, TypeOK, Bump
    <3>2. absPhase[Action(w)] = "inflight" /\ ~absWritten[Action(w)]
      BY <2>1, <2>2, <3>1, AbsValue
    <3>3. \A b \in DefiniteActions \ {Action(w)} : effects'[b] = effects[b]
      BY <1>0, <2>1 DEF TypeOK
    <3>4. /\ absPhase' = absPhase
          /\ absWritten' = [absWritten EXCEPT ![Action(w)] = TRUE]
      <4>1. (effects'[Action(w)] > 0) = TRUE
        BY <3>1
      <4>2. absWritten' = [absWritten EXCEPT ![Action(w)] = effects'[Action(w)] > 0]
        BY <2>1, <2>2, <3>3, OneKey
      <4>3. absPhase' = absPhase
        BY <2>1, <2>2, <3>3, OneKey
      <4> QED
        BY <4>1, <4>2, <4>3, Zenon
    <3> QED
      BY <2>2, <3>2, <3>4, KeyStep
  <2>3. CASE Action(w) \notin DefiniteActions
    BY <1>0, <2>1, <2>3, NoKey DEF TypeOK
  <2> QED
    BY <2>2, <2>3
<1>3. ASSUME NEW a \in Actions, LateServe(a)
      PROVE  Promise!WNext \/ UNCHANGED <<absPhase, absWritten>>
  <2>1. /\ row' = row
        /\ \A b \in Actions \ {a} : effects'[b] = effects[b]
    BY <1>3 DEF LateServe, Land, rowVars, TypeOK
  <2>2. CASE a \in DefiniteActions
    <3>1. /\ effects[a] = 0
          /\ effects'[a] = 1
          /\ row[a] \in {"claimed", "ambiguous"}
      BY <1>3, <2>2, DefiniteKind
      DEF LateServe, Land, WriteInv, KeyOK, TypeOK, RowState, Bump
    <3>2. absPhase[a] \in {"inflight", "unknown"} /\ ~absWritten[a]
      BY <2>2, <3>1, AbsValue
    <3>3. /\ absPhase' = absPhase
          /\ absWritten' = [absWritten EXCEPT ![a] = TRUE]
      <4>1. (effects'[a] > 0) = TRUE
        BY <3>1
      <4>2. /\ absWritten' = [absWritten EXCEPT ![a] = effects'[a] > 0]
            /\ absPhase' = absPhase
        BY <1>0, <2>1, <2>2, OneKey
      <4> QED
        BY <4>1, <4>2, Zenon
    <3> QED
      BY <2>2, <3>2, <3>3, KeyStep
  <2>3. CASE a \notin DefiniteActions
    BY <1>0, <2>1, <2>3, NoKey
  <2> QED
    BY <2>2, <2>3
<1>4. ASSUME NEW w \in Workers,
             RecordSuccess(w) \/ RecordAmbiguous(w) \/ RecordFailure(w)
      PROVE  Promise!WNext \/ UNCHANGED <<absPhase, absWritten>>
  <2>1. /\ Action(w) \in Actions
        /\ Busy(w)
        /\ pc[w] = "answered"
        /\ row[Action(w)] = "claimed"
        /\ effects' = effects
    BY <1>4, BusyWorker
    DEF RecordSuccess, RecordAmbiguous, RecordFailure, Busy, remoteVars,
        ExecutionHoldsClaim
  <2>2. PICK r \in {"succeeded", "ambiguous", "failed"} :
           /\ row' = [row EXCEPT ![Action(w)] = r]
           /\ r = "succeeded" => reply[w] = "ok"
           /\ r = "failed" => reply[w] = "refused"
    BY <1>4 DEF RecordSuccess, RecordAmbiguous, RecordFailure
  <2>3. /\ row'[Action(w)] = r
        /\ \A b \in Actions \ {Action(w)} : row'[b] = row[b]
    BY <2>1, <2>2 DEF TypeOK
  <2>4. CASE Action(w) \in DefiniteActions
    <3>1. /\ absPhase[Action(w)] = "inflight"
          /\ r = "succeeded" => absWritten[Action(w)]
          /\ r = "failed" => ~absWritten[Action(w)]
      <4>1. /\ r = "succeeded" => effects[Action(w)] = 1
            /\ r = "failed" => effects[Action(w)] = 0
        BY <2>1, <2>2, <2>4 DEF WriteInv, WorkerOK
      <4> QED
        BY <2>1, <2>4, <4>1, AbsValue
    <3>2. /\ absPhase' = [absPhase EXCEPT ![Action(w)] = RowPhase(r)]
          /\ absWritten' = absWritten
      BY <1>0, <2>1, <2>3, <2>4, OneKey
    <3>3. CASE r = "succeeded"
      BY <2>4, <3>1, <3>2, <3>3, KeyStep DEF RowPhase
    <3>4. CASE r = "ambiguous"
      BY <2>4, <3>1, <3>2, <3>4, KeyStep DEF RowPhase
    <3>5. CASE r = "failed"
      BY <2>4, <3>1, <3>2, <3>5, KeyStep DEF RowPhase
    <3> QED
      BY <3>3, <3>4, <3>5
  <2>5. CASE Action(w) \notin DefiniteActions
    BY <1>0, <2>1, <2>3, <2>5, NoKey
  <2> QED
    BY <2>4, <2>5
<1>5. ASSUME NEW t \in Tasks, ReconcileCompleted(t) \/ ReconcileFailed(t)
      PROVE  UNCHANGED <<absPhase, absWritten>>
  <2>1. /\ effects' = effects
        /\ \A a \in Actions : owner[a] # t => row'[a] = row[a]
    BY <1>5
    DEF ReconcileCompleted, ReconcileFailed, AmbiguousKeys, TypeOK, remoteVars
  <2>2. \A a \in DefiniteActions : row'[a] = row[a]
    BY <2>1, DefiniteKind, DeliveryAssumption DEF WriteInv, OwnerIsMerge
  <2> QED
    BY <2>1, <2>2, NoKey
<1>6. ASSUME UNCHANGED <<row, effects>>
      PROVE  UNCHANGED <<absPhase, absWritten>>
  BY <1>6, NoKey
<1>7. ASSUME NEW w \in Workers,
             FailLocally(w) \/ Send(w) \/ Refuse(w) \/ LoseRequest(w)
      PROVE  UNCHANGED <<row, effects>>
  BY <1>7 DEF FailLocally, Send, Refuse, LoseRequest, rowVars, remoteVars
<1>8. ASSUME NEW t \in Tasks, TaskStep(t),
             ~ReconcileCompleted(t), ~ReconcileFailed(t)
      PROVE  UNCHANGED <<row, effects>>
  BY <1>8
  DEF TaskStep, FetchSnapshot, ReconcileRejected, StartMonitor, MonitorSucceeds,
      MonitorInvalidates, CodexLoad, CodexSave, CodexResume, rowVars, remoteVars
<1>9. ASSUME \/ \E ap \in Approvals : Approve(ap) \/ Expire(ap)
             \/ \E a \in Actions : LateDrop(a)
             \/ \E i \in Items : HumanActs(i)
             \/ Restart
             \/ UNCHANGED vars
      PROVE  UNCHANGED <<row, effects>>
  BY <1>9 DEF Approve, Expire, LateDrop, HumanActs, Restart, vars, rowVars, remoteVars
<1> QED
  BY <1>1, <1>2, <1>3, <1>4, <1>5, <1>6, <1>7, <1>8, <1>9 DEF Next, WorkerStep

\* The deliveries table keeps its promise for every comment, label, review,
\* lifecycle or close action: a write lands at most once, one that was recorded
\* as failed has not landed and never will, and only such a key is claimed again.
THEOREM DeliveryImplementsRemoteWrite ==
    ASSUME ~GatewayErrors
    PROVE  Spec => WritePromise
<1>1. Init => Promise!WInit
  <2> SUFFICES ASSUME Init
               PROVE  Promise!WInit
    OBVIOUS
  <2>1. \A a \in DefiniteActions : RowPhase(row[a]) = "idle"
    BY DefiniteKind, PhaseValue DEF Init
  <2>2. \A a \in DefiniteActions : (effects[a] > 0) = FALSE
    BY DefiniteKind DEF Init
  <2> QED
    BY <2>1, <2>2, Zenon DEF Promise!WInit
<1>2. /\ TypeOK /\ ExecutionHoldsClaim /\ WriteInv /\ [Next]_vars
      => [Promise!WNext]_(Promise!wvars)
  BY RefinementStep DEF Promise!wvars, absPhase, absWritten
<1> QED
  BY <1>1, <1>2, WriteInvariant, PTL DEF Spec, WritePromise, Promise!WSpec
================================================================================
