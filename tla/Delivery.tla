-------------------------------- MODULE Delivery --------------------------------
(***************************************************************************)
(* Approval-gated GitHub writes: delivery.approve, delivery.execute,       *)
(* task.reconcileGitHub, and what runs beside them (monitors, a Codex      *)
(* session being interrupted, people on GitHub, a crash of the engine).    *)
(*                                                                         *)
(* A connection that runs delivery.execute is a worker.  It holds the      *)
(* store lock while it authorizes and claims, releases it for the whole    *)
(* GitHub call, and takes it again to record the outcome; the model has    *)
(* one action per such step.  An action is the triple (remote, action,     *)
(* precondition) whose hash is the idempotency key, so an element of       *)
(* Actions is also a key of the deliveries table.                          *)
(***************************************************************************)
EXTENDS Naturals, TaskLifecycle

CONSTANTS
    Tasks,         \* tasks that reached awaitingDeliveryApproval
    Items,         \* issues and pull requests on GitHub
    Actions,       \* typed GitHub actions, one per idempotency key
    Workers,       \* connections that may be inside delivery.execute
    MaxApprovals,  \* bound: approvals issued for one (task, action) pair
    ItemOf,        \* the source item of a task
    TargetOf,      \* the item an action addresses
    KindOf,        \* how an action moves the lifecycle
    IsPull,        \* which items are pull requests
    Permitted,     \* (task, action) pairs that the task contract declares
    CodexTasks,    \* tasks whose Codex session is still active
    GatewayErrors, \* may GitHub answer 5xx after it applied the write?
    None           \* the SQL NULL

Kinds == {"plain", "push", "monitor", "close", "merge", "enqueue"}

ItemState == {"open", "merged", "closed", "notPlanned"}

Approvals ==
    {ap \in [task : Tasks, action : Actions, serial : 1..MaxApprovals] :
        <<ap.task, ap.action>> \in Permitted}

ASSUME DeliveryAssumption ==
    /\ ItemOf \in [Tasks -> Items]
    /\ TargetOf \in [Actions -> Items]
    /\ KindOf \in [Actions -> Kinds]
    /\ IsPull \in [Items -> BOOLEAN]
    /\ Permitted \subseteq Tasks \X Actions
    /\ \A t \in Tasks, a \in Actions :
          <<t, a>> \in Permitted =>
              /\ TargetOf[a] = ItemOf[t]
              /\ KindOf[a] \in {"merge", "enqueue"} => IsPull[ItemOf[t]]
    /\ MaxApprovals \in Nat
    /\ CodexTasks \subseteq Tasks
    /\ GatewayErrors \in BOOLEAN
    /\ None \notin Tasks \cup Approvals

VARIABLES
    \* the SQLite store
    state,      \* tasks.payload: state of each task
    resume,     \* tasks.payload: interruption.resume_state
    monitored,  \* tasks that have a monitor row
    status,     \* approvals: "unissued", "live" or "dead" (expired, invalidated)
    row,        \* deliveries.result: "none" (no row), "claimed" (NULL), ...
    owner,      \* deliveries.task_id
    \* the engine process
    pc,         \* where each worker is
    using,      \* the approval (and preview) a worker executes
    reply,      \* what the GitHub client returned to the worker
    snap,       \* the snapshot a task.reconcileGitHub call has fetched
    session,    \* tasks with an active Codex process
    copy,       \* the task state a Codex interruption has loaded
    \* GitHub
    item,       \* state of each issue or pull request
    orphans,    \* actions with a request GitHub may still process
    \* observers
    shown,      \* items that GitHub has at some time shown with their outcome
    effects,    \* how often GitHub applied each action (0, 1, "2 or more")
    uses        \* how often each approval was consumed (0, 1, "2 or more")

taskVars   == <<state, resume, monitored>>
rowVars    == <<row, owner>>
workerVars == <<pc, using, reply>>
codexVars  == <<session, copy>>
remoteVars == <<item, shown, orphans, effects>>
vars == <<taskVars, status, rowVars, workerVars, snap, codexVars, remoteVars, uses>>

RowState == {"none", "claimed", "failed", "succeeded", "ambiguous"}

TypeOK ==
    /\ state \in [Tasks -> TaskState]
    /\ resume \in [Tasks -> TaskState \cup {"none"}]
    /\ monitored \subseteq Tasks
    /\ status \in [Approvals -> {"unissued", "live", "dead"}]
    /\ row \in [Actions -> RowState]
    /\ owner \in [Actions -> Tasks \cup {None}]
    /\ pc \in [Workers -> {"idle", "claimed", "sent", "answered"}]
    /\ using \in [Workers -> Approvals \cup {None}]
    /\ \A w \in Workers : pc[w] # "idle" => using[w] \in Approvals
    /\ reply \in [Workers -> {"none", "ok", "refused", "lost"}]
    /\ snap \in [Tasks -> ItemState \cup {"none"}]
    /\ session \subseteq Tasks
    /\ copy \in [Tasks -> TaskState \cup {"none"}]
    /\ item \in [Items -> ItemState]
    /\ shown \subseteq Items
    /\ orphans \subseteq Actions
    /\ effects \in [Actions -> 0..2]
    /\ uses \in [Approvals -> 0..2]

Init ==
    /\ state = [t \in Tasks |-> "awaitingDeliveryApproval"]
    /\ resume = [t \in Tasks |-> "none"]
    /\ monitored = {}
    /\ status = [ap \in Approvals |-> "unissued"]
    /\ row = [a \in Actions |-> "none"]
    /\ owner = [a \in Actions |-> None]
    /\ pc = [w \in Workers |-> "idle"]
    /\ using = [w \in Workers |-> None]
    /\ reply = [w \in Workers |-> "none"]
    /\ snap = [t \in Tasks |-> "none"]
    /\ session = CodexTasks
    /\ copy = [t \in Tasks |-> "none"]
    /\ item = [i \in Items |-> "open"]
    /\ shown = {}
    /\ orphans = {}
    /\ effects = [a \in Actions |-> 0]
    /\ uses = [ap \in Approvals |-> 0]

--------------------------------------------------------------------------------
(* Helpers *)

Bump(n) == IF n < 2 THEN n + 1 ELSE n

IsMerge(a) == KindOf[a] \in {"merge", "enqueue"}

Gate(a) == IF IsMerge(a) THEN "awaitingMergeApproval" ELSE "awaitingDeliveryApproval"

\* preview_delivery succeeds: the task sits at the gate of this capability
\* and the contract, binding, target and SHAs agree with the action.
Previewable(t, a) == <<t, a>> \in Permitted /\ state[t] = Gate(a)

\* Mutated form: the reset reclaims every row that is not a success.
Reclaimable_Unfinished(r) == r # "succeeded"

\* Mutated form: no look at the recorded result.
Reclaimable_Always(r) == TRUE

\* The UPDATE resets a row whose result is "failed"; the INSERT OR IGNORE
\* claims a key that has no row.
Reclaimable(r) == r \in {"none", "failed"}

\* Mutated form: the failed merge leaves the approvals of the task alone.
Invalidated_Not(t) == status

\* UPDATE approvals SET invalidated_at ... WHERE task_id = t
Invalidated(t) ==
    [ap \in Approvals |->
        IF ap.task = t /\ status[ap] = "live" THEN "dead" ELSE status[ap]]

Task(w) == using[w].task
Action(w) == using[w].action

Busy(w) == pc[w] # "idle"

\* Mutated form: a delivery that enters monitoring does so from any state.
AfterSuccess_AnyState(a, s) ==
    CASE KindOf[a] = "merge" /\ s = "merging" -> "completed"
      [] KindOf[a] = "monitor" -> "monitoring"
      [] KindOf[a] = "close" -> "completed"
      [] OTHER -> s

\* Mutated form: a published review counts as an observed one.
AfterSuccess_SkipMonitor(a, s) ==
    CASE KindOf[a] = "merge" /\ s = "merging" -> "completed"
      [] KindOf[a] = "monitor" /\ s = "awaitingDeliveryApproval" -> "awaitingMergeApproval"
      [] OTHER -> s

\* The lifecycle walk of complete_successful_delivery, from the state the
\* task is in; a state outside the walk is left alone.
AfterSuccess(a, s) ==
    CASE KindOf[a] = "merge" /\ s = "merging" -> "completed"
      [] KindOf[a] = "monitor" /\ s \in {"awaitingDeliveryApproval", "delivering"}
            -> "monitoring"
      [] KindOf[a] = "close"
         /\ s \in {"awaitingDeliveryApproval", "delivering", "monitoring"}
            -> "completed"
      [] OTHER -> s

\* completion_events: the states from which a merged pull request or a closed
\* issue walks the task to completed.
Completable == {"awaitingDeliveryApproval", "delivering", "monitoring",
                "awaitingMergeApproval", "merging"}

\* The state of an item in which the outcome of its tasks is complete.
Outcome(i) == IF IsPull[i] THEN "merged" ELSE "closed"

\* Mutated form: every item that is no longer open counts as completed.
Confirms_NotOpen(t, s) == s # "open"

\* Does this snapshot of the item say the task's outcome is complete?
Confirms(t, s) == s = Outcome(ItemOf[t])

\* Mutated form: the interruption record is not looked at.
Resumable_AnyState(t) == TRUE

\* Task::resume, as codex.start calls it for a paused task with its record.
Resumable(t) == state[t] = "paused" /\ resume[t] # "none"

\* ambiguous_delivery_for_task.  The code takes the latest claim; the model
\* lets any of them be the latest.
AmbiguousKeys(t) == {a \in Actions : owner[a] = t /\ row[a] = "ambiguous"}

--------------------------------------------------------------------------------
(* Approvals *)

\* approve_delivery: a fresh preview must succeed; the approval is stored.
Approve(ap) ==
    /\ status[ap] = "unissued"
    /\ Previewable(ap.task, ap.action)
    /\ status' = [status EXCEPT ![ap] = "live"]
    /\ UNCHANGED <<taskVars, rowVars, workerVars, snap, codexVars, remoteVars, uses>>

\* Ten minutes pass.
Expire(ap) ==
    /\ status[ap] = "live"
    /\ status' = [status EXCEPT ![ap] = "dead"]
    /\ UNCHANGED <<taskVars, rowVars, workerVars, snap, codexVars, remoteVars, uses>>

--------------------------------------------------------------------------------
(* delivery.execute *)

\* authorize_execution and claim_delivery_with_task_event, under one lock and
\* in one transaction: fresh preview, exact live approval, claim of the key
\* and, for a merge, the move of the task to merging.
Claim(w, ap) ==
    LET a == ap.action
        t == ap.task
    IN  /\ pc[w] = "idle"
        /\ Previewable(t, a)
        /\ status[ap] = "live"
        /\ Reclaimable(row[a])
        /\ row' = [row EXCEPT ![a] = "claimed"]
        /\ IF IsMerge(a)
           THEN /\ CanTransition(state[t], "merging")
                /\ owner' = [owner EXCEPT ![a] = t]
                /\ state' = [state EXCEPT ![t] = "merging"]
           ELSE UNCHANGED <<owner, state>>
        /\ pc' = [pc EXCEPT ![w] = "claimed"]
        /\ using' = [using EXCEPT ![w] = ap]
        /\ uses' = [uses EXCEPT ![ap] = Bump(@)]
        /\ UNCHANGED <<resume, monitored, status, reply, snap, codexVars, remoteVars>>

\* The client fails before any write leaves: no App configuration or token, a
\* read-side precondition that no longer holds, EnqueuePullRequest.
FailLocally(w) ==
    /\ pc[w] = "claimed"
    /\ pc' = [pc EXCEPT ![w] = "answered"]
    /\ reply' = [reply EXCEPT ![w] = "refused"]
    /\ UNCHANGED <<taskVars, status, rowVars, using, snap, codexVars, remoteVars, uses>>

\* The request of the mutation leaves; EnqueuePullRequest never sends one.
Send(w) ==
    /\ pc[w] = "claimed"
    /\ KindOf[Action(w)] # "enqueue"
    /\ pc' = [pc EXCEPT ![w] = "sent"]
    /\ UNCHANGED <<taskVars, status, rowVars, using, reply, snap, codexVars, remoteVars, uses>>

\* GitHub merges only an open pull request.
Accepts(a) == KindOf[a] = "merge" => item[TargetOf[a]] = "open"

\* What the items show now becomes part of what they have shown.
Show == shown' = shown \cup {i \in Items : item'[i] = Outcome(i)}

\* GitHub applies the write (an already ready or resolved target counts as
\* carrying it).
Land(a) ==
    /\ effects' = [effects EXCEPT ![a] = Bump(@)]
    /\ item' = [item EXCEPT ![TargetOf[a]] =
                    CASE KindOf[a] = "merge" -> "merged"
                      [] KindOf[a] = "close" /\ @ \in {"open", "notPlanned"} -> "closed"
                      [] OTHER -> @]
    /\ Show

\* Mutated form: a lost answer to a write is reported as a refusal.
LostReply_AsRefusal(a) == "refused"

\* A transport error after a mutation was sent is AmbiguousTransport; a failed
\* `git push` is GitTransportFailed, a refusal, whatever the remote did.
LostReply(a) == IF KindOf[a] = "push" THEN "refused" ELSE "lost"

\* GitHub applies the write and answers; the answer may be lost, and where
\* GatewayErrors it may be a 5xx, which the client reports as a rejection.
Serve(w) ==
    /\ pc[w] = "sent"
    /\ Accepts(Action(w))
    /\ Land(Action(w))
    /\ pc' = [pc EXCEPT ![w] = "answered"]
    /\ \E r \in {"ok", LostReply(Action(w))}
                \cup (IF GatewayErrors THEN {"refused"} ELSE {}) :
          reply' = [reply EXCEPT ![w] = r]
    /\ UNCHANGED <<taskVars, status, rowVars, using, snap, codexVars, orphans, uses>>

\* GitHub refuses the write (4xx, GraphQL errors).
Refuse(w) ==
    /\ pc[w] = "sent"
    /\ pc' = [pc EXCEPT ![w] = "answered"]
    /\ reply' = [reply EXCEPT ![w] = "refused"]
    /\ UNCHANGED <<taskVars, status, rowVars, using, snap, codexVars, remoteVars, uses>>

\* The connection breaks before GitHub has processed the request.
LoseRequest(w) ==
    /\ pc[w] = "sent"
    /\ orphans' = orphans \cup {Action(w)}
    /\ pc' = [pc EXCEPT ![w] = "answered"]
    /\ reply' = [reply EXCEPT ![w] = LostReply(Action(w))]
    /\ UNCHANGED <<taskVars, status, rowVars, using, snap, codexVars, item, shown, effects, uses>>

\* A request whose connection is gone is processed after all.
LateServe(a) ==
    /\ a \in orphans
    /\ orphans' = orphans \ {a}
    /\ IF Accepts(a) THEN Land(a) ELSE UNCHANGED <<effects, item, shown>>
    /\ UNCHANGED <<taskVars, status, rowVars, workerVars, snap, codexVars, uses>>

\* ... or is never processed.
LateDrop(a) ==
    /\ a \in orphans
    /\ orphans' = orphans \ {a}
    /\ UNCHANGED <<taskVars, status, rowVars, workerVars, snap, codexVars, item, shown, effects, uses>>

\* The worker has recorded the outcome and answers its client.
Finish(w) ==
    /\ pc' = [pc EXCEPT ![w] = "idle"]
    /\ using' = [using EXCEPT ![w] = None]
    /\ reply' = [reply EXCEPT ![w] = "none"]

\* complete_successful_delivery: the result and the lifecycle steps of the
\* task as it is now, in one transaction.
RecordSuccess(w) ==
    LET a == Action(w)
        t == Task(w)
    IN  /\ pc[w] = "answered"
        /\ reply[w] = "ok"
        /\ row' = [row EXCEPT ![a] = "succeeded"]
        /\ state' = [state EXCEPT ![t] = AfterSuccess(a, @)]
        /\ Finish(w)
        /\ UNCHANGED <<resume, monitored, status, owner, snap, codexVars, remoteVars, uses>>

\* record_ambiguous_delivery
RecordAmbiguous(w) ==
    /\ pc[w] = "answered"
    /\ reply[w] = "lost"
    /\ row' = [row EXCEPT ![Action(w)] = "ambiguous"]
    /\ Finish(w)
    /\ UNCHANGED <<taskVars, status, owner, snap, codexVars, remoteVars, uses>>

\* complete_failed_delivery: a merge that still holds its task at merging
\* returns it to the approval gate and invalidates the task's approvals.
RecordFailure(w) ==
    LET a == Action(w)
        t == Task(w)
    IN  /\ pc[w] = "answered"
        /\ reply[w] = "refused"
        /\ row' = [row EXCEPT ![a] = "failed"]
        /\ IF IsMerge(a) /\ state[t] = "merging"
           THEN /\ state' = [state EXCEPT ![t] = "awaitingMergeApproval"]
                /\ status' = Invalidated(t)
           ELSE UNCHANGED <<state, status>>
        /\ Finish(w)
        /\ UNCHANGED <<resume, monitored, owner, snap, codexVars, remoteVars, uses>>

--------------------------------------------------------------------------------
(* task.reconcileGitHub: the snapshot is fetched without the store lock *)

FetchSnapshot(t) ==
    /\ snap[t] = "none"
    /\ snap' = [snap EXCEPT ![t] = item[ItemOf[t]]]
    /\ UNCHANGED <<taskVars, status, rowVars, workerVars, codexVars, remoteVars, uses>>

\* The snapshot says the outcome is complete: the task walks to completed and
\* an ambiguous merge it was waiting for becomes a success.
ReconcileCompleted(t) ==
    /\ snap[t] # "none"
    /\ Confirms(t, snap[t])
    /\ state[t] \in Completable
    /\ IF state[t] = "merging" /\ AmbiguousKeys(t) # {}
       THEN \E a \in AmbiguousKeys(t) : row' = [row EXCEPT ![a] = "succeeded"]
       ELSE UNCHANGED row
    /\ state' = [state EXCEPT ![t] = "completed"]
    /\ snap' = [snap EXCEPT ![t] = "none"]
    /\ UNCHANGED <<resume, monitored, status, owner, workerVars, codexVars, remoteVars, uses>>

\* The snapshot says a merge with an unknown outcome did not happen.
ReconcileFailed(t) ==
    /\ snap[t] # "none"
    /\ ~Confirms(t, snap[t])
    /\ IsPull[ItemOf[t]]
    /\ state[t] = "merging"
    /\ CanTransition(state[t], "awaitingMergeApproval")
    /\ \E a \in AmbiguousKeys(t) : row' = [row EXCEPT ![a] = "failed"]
    /\ state' = [state EXCEPT ![t] = "awaitingMergeApproval"]
    /\ status' = Invalidated(t)
    /\ snap' = [snap EXCEPT ![t] = "none"]
    /\ UNCHANGED <<resume, monitored, owner, workerVars, codexVars, remoteVars, uses>>

\* Every other outcome of the call changes no task: the refresh failed, the
\* head SHA moved, RemoteNotCompleted, the task is completed already.
ReconcileRejected(t) ==
    /\ snap[t] # "none"
    /\ snap' = [snap EXCEPT ![t] = "none"]
    /\ UNCHANGED <<taskVars, status, rowVars, workerVars, codexVars, remoteVars, uses>>

--------------------------------------------------------------------------------
(* What else moves a task in this part of its life *)

\* monitor.start: on the pull request of the task, or on the one of its
\* prepared branch where the task is of an issue.
StartMonitor(t) ==
    /\ state[t] = "monitoring"
    /\ monitored' = monitored \cup {t}
    /\ UNCHANGED <<state, resume, status, rowVars, workerVars, snap, codexVars, remoteVars, uses>>

\* monitor.observe with CI green and the review approved.
MonitorSucceeds(t) ==
    /\ t \in monitored
    /\ state[t] = "monitoring"
    /\ CanTransition(state[t], "awaitingMergeApproval")
    /\ state' = [state EXCEPT ![t] = "awaitingMergeApproval"]
    /\ UNCHANGED <<resume, monitored, status, rowVars, workerVars, snap, codexVars, remoteVars, uses>>

\* monitor.observe with a blocking or repair outcome; a second monitor of the
\* task may do this at any time.
MonitorInvalidates(t) ==
    /\ t \in monitored
    /\ status' = Invalidated(t)
    /\ UNCHANGED <<taskVars, rowVars, workerVars, snap, codexVars, remoteVars, uses>>

\* codex.pause, codex.cancel and the record of a Codex crash load the task
\* under one lock of the store ...
CodexLoad(t) ==
    /\ t \in session
    /\ \A u \in Tasks : copy[u] = "none"
    /\ session' = session \ {t}
    /\ copy' = [copy EXCEPT ![t] = state[t]]
    /\ UNCHANGED <<taskVars, status, rowVars, workerVars, snap, remoteVars, uses>>

\* ... and save the interrupted copy under another, unless the turn completed
\* before the interruption or Task::interrupt refuses the copy.
CodexSave(t) ==
    /\ copy[t] # "none"
    /\ \/ /\ CanInterrupt(copy[t])
          /\ \E s \in {"paused", "cancelled", "failed"} :
                state' = [state EXCEPT ![t] = s]
          /\ resume' = [resume EXCEPT ![t] = copy[t]]
       \/ UNCHANGED <<state, resume>>
    /\ copy' = [copy EXCEPT ![t] = "none"]
    /\ UNCHANGED <<monitored, status, rowVars, workerVars, snap, session, remoteVars, uses>>

\* codex.start on a paused task saves the resumed task before it finds that
\* the task is past implementing and fails.
CodexResume(t) ==
    /\ t \notin session
    /\ \A u \in Tasks : copy[u] = "none"
    /\ Resumable(t)
    /\ state' = [state EXCEPT ![t] = resume[t]]
    /\ resume' = [resume EXCEPT ![t] = "none"]
    /\ UNCHANGED <<monitored, status, rowVars, workerVars, snap, codexVars, remoteVars, uses>>

\* A person merges or closes the item on GitHub, or opens a closed one again;
\* only a merge is for good.
HumanActs(i) ==
    /\ item[i] # "merged"
    /\ \E s \in (IF item[i] # "open" THEN {"open"}
                 ELSE IF IsPull[i] THEN {"merged", "closed"} ELSE {"closed", "notPlanned"}) :
          item' = [item EXCEPT ![i] = s]
    /\ Show
    /\ UNCHANGED <<taskVars, status, rowVars, workerVars, snap, codexVars, orphans, effects, uses>>

\* The engine stops and is started again: what was in memory is gone, a
\* request on the wire stays there, and opening the store changes no delivery.
Restart ==
    /\ orphans' = orphans \cup {Action(w) : w \in {v \in Workers : pc[v] = "sent"}}
    /\ pc' = [w \in Workers |-> "idle"]
    /\ using' = [w \in Workers |-> None]
    /\ reply' = [w \in Workers |-> "none"]
    /\ snap' = [t \in Tasks |-> "none"]
    /\ session' = {}
    /\ copy' = [t \in Tasks |-> "none"]
    /\ UNCHANGED <<taskVars, status, rowVars, item, shown, effects, uses>>

--------------------------------------------------------------------------------

WorkerStep(w) ==
    \/ \E ap \in Approvals : Claim(w, ap)
    \/ FailLocally(w) \/ Send(w)
    \/ Serve(w) \/ Refuse(w) \/ LoseRequest(w)
    \/ RecordSuccess(w) \/ RecordAmbiguous(w) \/ RecordFailure(w)

TaskStep(t) ==
    \/ FetchSnapshot(t)
    \/ ReconcileCompleted(t) \/ ReconcileFailed(t) \/ ReconcileRejected(t)
    \/ StartMonitor(t) \/ MonitorSucceeds(t) \/ MonitorInvalidates(t)
    \/ CodexLoad(t) \/ CodexSave(t) \/ CodexResume(t)

Next ==
    \/ \E ap \in Approvals : Approve(ap) \/ Expire(ap)
    \/ \E w \in Workers : WorkerStep(w)
    \/ \E t \in Tasks : TaskStep(t)
    \/ \E a \in Actions : LateServe(a) \/ LateDrop(a)
    \/ \E i \in Items : HumanActs(i)
    \/ Restart

Spec == Init /\ [][Next]_vars

--------------------------------------------------------------------------------
(* Properties *)

\* Each worker inside delivery.execute holds the claim of its key, and no two
\* workers hold the same one: the claim of authorize_execution is the mutual
\* exclusion that lets the GitHub call run without the store lock.
ExecutionHoldsClaim ==
    \A w \in Workers : Busy(w) =>
        /\ row[Action(w)] = "claimed"
        /\ \A v \in Workers \ {w} : Busy(v) => Action(v) # Action(w)

\* architecture.md: the engine never blindly repeats an ambiguous remote
\* write.  However executions, retries after a refusal, late requests,
\* reconciliations and restarts interleave, GitHub applies a keyed action at
\* most once.  (A repeated push of one commit to one branch is not a repeat.)
AtMostOneEffect ==
    \A a \in Actions : KindOf[a] # "push" => effects[a] <= 1

\* A task is completed only on an outcome that is there or has been: a pull
\* request that is merged, an issue that was closed as completed at some time
\* (a person may have opened it again since the snapshot was fetched, or since
\* the task was completed), or the effect of an approved close.
CompletedIsRemote ==
    \A t \in Tasks : state[t] = "completed" =>
        \/ IF IsPull[ItemOf[t]] THEN item[ItemOf[t]] = "merged" ELSE ItemOf[t] \in shown
        \/ \E a \in Actions : /\ KindOf[a] = "close"
                              /\ TargetOf[a] = ItemOf[t]
                              /\ effects[a] > 0

\* A merge reaches GitHub only on behalf of a task that went through
\* monitoring and through an approval of that exact merge: no approval state
\* is skipped on any path, resumed and restarted ones included.
MergeFollowsGates ==
    \A a \in Actions : KindOf[a] = "merge" /\ effects[a] > 0 =>
        \E ap \in Approvals : /\ ap.action = a
                              /\ uses[ap] > 0
                              /\ ap.task \in monitored

\* A merge approval is consumed once: complete_failed_delivery and the
\* reconciliation of an ambiguous merge say that a fresh merge approval is
\* required before the next attempt.
MergeApprovalSingleUse ==
    \A ap \in Approvals : IsMerge(ap.action) => uses[ap] <= 1

\* domain.rs:205: an interruption is of a nonterminal task.  The copy that it
\* checks may be older than the stored task, so a task that was stored as
\* completed, failed or cancelled can leave that state, but by nothing else: a
\* late answer, a reconciliation, a monitor or a resume never does it, and the
\* save of a copy loaded before the task was terminal leaves it interrupted
\* with the state of that copy to resume.
OnlyStaleCopyOverwrites ==
    [][\A t \in Tasks : state[t] \in Terminal /\ state'[t] # state[t] =>
          /\ copy[t] \notin Terminal \cup {"none"}
          /\ copy'[t] = "none"
          /\ state'[t] \in {"paused", "cancelled", "failed"}
          /\ resume'[t] = copy[t]]_vars

\* A delivery that was recorded as succeeded is never opened or rewritten,
\* by a later execution, a second task with the same action or a reconciliation.
SucceededIsFinal ==
    [][\A a \in Actions : row[a] = "succeeded" => row'[a] = "succeeded"]_vars

\* production-plan.md: in-flight tasks remain recoverable in SQLite.  A task
\* at merging has an execution in progress, or a stored ambiguous delivery or
\* a merged pull request that reconciliation can take it on from.
MergingIsRecoverable ==
    \A t \in Tasks : state[t] = "merging" =>
        \/ \E w \in Workers : Busy(w) /\ Task(w) = t
        \/ AmbiguousKeys(t) # {}
        \/ item[ItemOf[t]] = "merged"

\* The actions for which a refusal means that nothing was written and which
\* no reconciliation reopens.
DefiniteActions == {a \in Actions : KindOf[a] \in {"plain", "monitor", "close"}}

RowPhase(r) ==
    CASE r \in {"none", "failed"} -> "idle"
      [] r = "claimed" -> "inflight"
      [] r = "ambiguous" -> "unknown"
      [] r = "succeeded" -> "done"

\* The deliveries table and GitHub together implement the promise of
\* RemoteWrite for every key whose refusals are definite.
Promise == INSTANCE RemoteWrite
    WITH Keys <- DefiniteActions,
         phase <- [a \in DefiniteActions |-> RowPhase(row[a])],
         written <- [a \in DefiniteActions |-> effects[a] > 0]

WritePromise == Promise!WSpec
================================================================================
