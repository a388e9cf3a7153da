------------------------------ MODULE Preparation ------------------------------
(***************************************************************************)
(* From a discovered task to its worktree: task.plan, the approval of the  *)
(* preparation and task.prepare, on a repository on disk that the tasks of *)
(* one binding share.                                                      *)
(*                                                                         *)
(* Both calls leave the store lock while they clone, assess or add a       *)
(* worktree; several connections may be inside them, and the engine may    *)
(* stop at any point.  A lifecycle state of this part is entered once, so  *)
(* a task equals an earlier copy of it, and a preview an earlier preview,  *)
(* exactly when the state is the same.                                     *)
(***************************************************************************)
EXTENDS Naturals, TaskLifecycle

CONSTANTS
    Tasks,         \* tasks of one repository binding
    Callers,       \* connections that may be inside task.plan or task.prepare
    Approvals,     \* bound: the approvals that may be issued, each of a task
    Crashes,       \* may the engine stop and start again?
    None

ASSUME PreparationAssumption ==
    /\ \A ap \in Approvals : ap.task \in Tasks
    /\ Crashes \in BOOLEAN
    /\ None \notin Tasks \cup Callers \cup Approvals

VARIABLES
    \* the SQLite store
    state,     \* tasks.payload: state of each task
    contract,  \* tasks that have a task_contracts row
    status,    \* approvals: "unissued", "live" or "dead" (expired)
    claim,     \* preparation_claims.result: "none" (no row), "active" (NULL), ...
    \* the engine process
    holder,    \* who holds the store lock across several transactions
    pc,        \* where each caller is
    job,       \* the task a caller works on
    using,     \* the approval it prepares with; None while it plans
    \* the disk
    clone,     \* the repository the binding points to
    cloner,    \* whose git process is filling it
    tree,      \* the worktree and branch of each task
    lost       \* history: a completed clone has been removed

storeVars == <<state, contract, status, claim>>
diskVars  == <<clone, cloner, tree, lost>>
vars == <<storeVars, holder, pc, job, using, diskVars>>

\* The states of the source repository, as inspect and is_dir tell them apart.
CloneState == {"absent", "partial", "present"}

\* "branch": only the branch is left of an earlier attempt.  "adding": git is
\* at work.  "partial": a directory that is no worktree.  "incomplete": HEAD
\* is right and the checkout is not finished.
TreeState == {"absent", "branch", "adding", "partial", "incomplete", "present"}

ClaimState == {"none", "active", "succeeded", "failed", "interrupted"}

\* The section both calls run without the store lock, up to a worktree.
Cloning == {"source", "fetch", "checked", "cloning", "cloneFailed", "ready"}

\* The rest of each call.
Planner == {"assessed", "saveAssessing", "savePlanned", "saveGate"}
Preparer == {"claimed", "adding", "save", "saved", "failing"}

Location == {"idle"} \cup Cloning \cup Planner \cup Preparer

TypeOK ==
    /\ state \in [Tasks -> TaskState]
    /\ contract \subseteq Tasks
    /\ status \in [Approvals -> {"unissued", "live", "dead"}]
    /\ claim \in [Approvals -> ClaimState]
    /\ holder \in Callers \cup {None}
    /\ pc \in [Callers -> Location]
    /\ job \in [Callers -> Tasks \cup {None}]
    /\ using \in [Callers -> Approvals \cup {None}]
    /\ clone \in CloneState
    /\ cloner \in Callers \cup {None}
    /\ tree \in [Tasks -> TreeState]
    /\ lost \in BOOLEAN
    /\ \A c \in Callers :
          /\ pc[c] # "idle" <=> job[c] \in Tasks
          /\ using[c] # None => job[c] = using[c].task
          /\ pc[c] \in Planner => using[c] = None
          /\ pc[c] \in Preparer => using[c] # None

Init ==
    /\ state = [t \in Tasks |-> "discovered"]
    /\ contract = {}
    /\ status = [ap \in Approvals |-> "unissued"]
    /\ claim = [ap \in Approvals |-> "none"]
    /\ holder = None
    /\ pc = [c \in Callers |-> "idle"]
    /\ job = [c \in Callers |-> None]
    /\ using = [c \in Callers |-> None]
    /\ clone \in {"absent", "present"}
    /\ cloner = None
    /\ tree = [t \in Tasks |-> "absent"]
    /\ lost = FALSE

--------------------------------------------------------------------------------
(* Helpers *)

Gate == "awaitingPreparationApproval"

Plans(c) == pc[c] # "idle" /\ using[c] = None
Prepares(c) == pc[c] # "idle" /\ using[c] # None

\* preview_preparation succeeds.
Previewable(t) == state[t] = Gate /\ t \in contract

\* Mutated form: the unique index on active claims is missing.
Claimable_NoIndex(ap) == claim[ap] = "none"

\* Mutated form: the claims are not looked up by approval.
Claimable_Again(ap) ==
    \A bp \in Approvals : bp.task = ap.task => claim[bp] # "active"

\* claim_preparation inserts a row: the approval has none (the primary key)
\* and no claim of the task is open (the unique index).
Claimable(ap) ==
    /\ claim[ap] = "none"
    /\ \A bp \in Approvals : bp.task = ap.task => claim[bp] # "active"

\* What git finds of a worktree whose repository was removed.
Orphaned(s) ==
    CASE s \in {"adding", "incomplete", "present"} -> "partial"
      [] s = "branch" -> "absent"
      [] OTHER -> s

Goto(c, l) == pc' = [pc EXCEPT ![c] = l]

\* Mutated form: the approval of the last call is kept.
Return_KeepsApproval(c) ==
    Goto(c, "idle") /\ job' = [job EXCEPT ![c] = None] /\ UNCHANGED using

\* The call answers its client.
Return(c) ==
    /\ Goto(c, "idle")
    /\ job' = [job EXCEPT ![c] = None]
    /\ using' = [using EXCEPT ![c] = None]

\* An error: task.plan answers, task.prepare first completes its claim.
Fail(c) == IF using[c] = None THEN Return(c)
           ELSE Goto(c, "failing") /\ UNCHANGED <<job, using>>

--------------------------------------------------------------------------------
(* task.plan: the section before and the section after the clone *)

PlanLoad(c, t) ==
    /\ holder = None
    /\ pc[c] = "idle"
    /\ state[t] = "discovered"
    /\ Goto(c, "source")
    /\ job' = [job EXCEPT ![c] = t]
    /\ UNCHANGED <<storeVars, holder, using, diskVars>>

\* RepositoryPlanner::assess reads the contract's evidence from the captured
\* commit.
Assess(c) ==
    /\ pc[c] = "ready"
    /\ using[c] = None
    /\ clone = "present"
    /\ Goto(c, "assessed")
    /\ UNCHANGED <<storeVars, holder, job, using, diskVars>>

\* Mutated form: the task is not compared with the stored one again.
Unchanged_Assumed(t) == TRUE

\* fresh == task
UnchangedSince(t) == state[t] = "discovered"

\* The recheck and the contract, the first of four transactions that follow
\* each other under one lock.
PlanLock(c) ==
    LET t == job[c]
    IN  /\ pc[c] = "assessed"
        /\ holder = None
        /\ IF UnchangedSince(t)
           THEN /\ holder' = c
                /\ contract' = contract \cup {t}
                /\ Goto(c, "saveAssessing")
                /\ UNCHANGED <<job, using>>
           ELSE /\ Return(c)
                /\ UNCHANGED <<holder, contract>>
        /\ UNCHANGED <<state, status, claim, diskVars>>

\* The saves that walk the task to its gate: where the call is, what it saves,
\* where it is then.
PlanSaves ==
    {<<"saveAssessing", "assessing", "savePlanned">>,
     <<"savePlanned", "planned", "saveGate">>,
     <<"saveGate", Gate, "idle">>}

PlanCommit(c) ==
    \E save \in PlanSaves :
        /\ pc[c] = save[1]
        /\ state' = [state EXCEPT ![job[c]] = save[2]]
        /\ IF save[3] = "idle"
           THEN holder' = None /\ Return(c)
           ELSE Goto(c, save[3]) /\ UNCHANGED <<holder, job, using>>
        /\ UNCHANGED <<contract, status, claim, diskVars>>

--------------------------------------------------------------------------------
(* The repository on disk; no lock is held *)

\* task.plan inspects it, task.prepare asks whether it is a directory.
LookAtSource(c) ==
    /\ pc[c] = "source"
    /\ \/ /\ clone = "present" \/ (clone = "partial" /\ using[c] # None)
          /\ Goto(c, "ready")
       \/ /\ clone = "absent"
          /\ Goto(c, "fetch")
    /\ UNCHANGED <<storeVars, holder, job, using, diskVars>>

\* Any failure that leaves no trace: a repository that is not usable, the
\* installation token, evidence that is missing, a worktree that differs.
GiveUp(c) ==
    /\ pc[c] \in {"source", "fetch", "ready"}
    /\ Fail(c)
    /\ UNCHANGED <<storeVars, holder, diskVars>>

\* The token has come; clone_repository looks at the destination ...
CheckDestination(c) ==
    /\ pc[c] = "fetch"
    /\ IF clone = "absent"
       THEN Goto(c, "checked") /\ UNCHANGED <<job, using>>
       ELSE Fail(c)
    /\ UNCHANGED <<storeVars, holder, diskVars>>

\* ... and starts git, which refuses a directory that is there by now.
StartClone(c) ==
    /\ pc[c] = "checked"
    /\ IF clone = "absent"
       THEN clone' = "partial" /\ cloner' = c /\ Goto(c, "cloning")
       ELSE UNCHANGED <<clone, cloner>> /\ Goto(c, "cloneFailed")
    /\ UNCHANGED <<storeVars, holder, job, using, tree, lost>>

CloneDone(c) ==
    /\ pc[c] = "cloning"
    /\ cloner = c
    /\ clone' = "present"
    /\ cloner' = None
    /\ Goto(c, "ready")
    /\ UNCHANGED <<storeVars, holder, job, using, tree, lost>>

\* git fails, also because its directory was removed; it may clean up itself.
CloneBreaks(c) ==
    /\ pc[c] = "cloning"
    /\ IF cloner = c
       THEN clone' \in {"absent", "partial"} /\ cloner' = None
       ELSE UNCHANGED <<clone, cloner>>
    /\ Goto(c, "cloneFailed")
    /\ UNCHANGED <<storeVars, holder, job, using, tree, lost>>

\* clone_repository removes what is at the destination after a failed git.
RemoveClone(c) ==
    /\ pc[c] = "cloneFailed"
    /\ clone' = "absent"
    /\ cloner' = None
    /\ tree' = [t \in Tasks |-> Orphaned(tree[t])]
    /\ lost' = (lost \/ clone = "present")
    /\ Fail(c)
    /\ UNCHANGED <<storeVars, holder>>

--------------------------------------------------------------------------------
(* Approvals and task.prepare *)

\* approve_preparation
Approve(ap) ==
    /\ holder = None
    /\ status[ap] = "unissued"
    /\ Previewable(ap.task)
    /\ status' = [status EXCEPT ![ap] = "live"]
    /\ UNCHANGED <<state, contract, claim, holder, pc, job, using, diskVars>>

\* Ten minutes pass.
Expire(ap) ==
    /\ status[ap] = "live"
    /\ status' = [status EXCEPT ![ap] = "dead"]
    /\ UNCHANGED <<state, contract, claim, holder, pc, job, using, diskVars>>

\* authorize_preparation
Authorize(c, ap) ==
    /\ holder = None
    /\ pc[c] = "idle"
    /\ Previewable(ap.task)
    /\ status[ap] = "live"
    /\ Claimable(ap)
    /\ claim' = [claim EXCEPT ![ap] = "active"]
    /\ Goto(c, "claimed")
    /\ job' = [job EXCEPT ![c] = ap.task]
    /\ using' = [using EXCEPT ![c] = ap]
    /\ UNCHANGED <<state, contract, status, holder, diskVars>>

\* task_prepare_claimed takes the preview again and loads the task it will
\* save, under another lock than the claim.
PrepareLoad(c) ==
    /\ holder = None
    /\ pc[c] = "claimed"
    /\ IF Previewable(job[c])
       THEN Goto(c, "source") /\ UNCHANGED <<job, using>>
       ELSE Fail(c)
    /\ UNCHANGED <<storeVars, holder, diskVars>>

\* Mutated form: a directory at the worktree path is taken for the worktree.
Usable_Exists(s) == s \in {"partial", "incomplete", "present"}

\* inspect finds the branch of the task at the captured commit.
Usable(s) == s \in {"incomplete", "present"}

\* The directory is there: a worktree an earlier call left behind.
InspectTree(c) ==
    /\ pc[c] = "ready"
    /\ using[c] # None
    /\ tree[job[c]] \in {"adding", "partial", "incomplete", "present"}
    /\ IF Usable(tree[job[c]])
       THEN Goto(c, "save") /\ UNCHANGED <<job, using>>
       ELSE Fail(c)
    /\ UNCHANGED <<storeVars, holder, diskVars>>

\* git worktree add -b; it refuses a branch that exists.
AddTree(c) ==
    /\ pc[c] = "ready"
    /\ using[c] # None
    /\ tree[job[c]] \in {"absent", "branch"}
    /\ IF tree[job[c]] = "absent" /\ clone = "present"
       THEN tree' = [tree EXCEPT ![job[c]] = "adding"] /\ Goto(c, "adding")
       ELSE Goto(c, "failing") /\ UNCHANGED tree
    /\ UNCHANGED <<storeVars, holder, job, using, clone, cloner, lost>>

TreeAdded(c) ==
    /\ pc[c] = "adding"
    /\ tree[job[c]] = "adding"
    /\ tree' = [tree EXCEPT ![job[c]] = "present"]
    /\ Goto(c, "save")
    /\ UNCHANGED <<storeVars, holder, job, using, clone, cloner, lost>>

\* git fails and removes its directory; the branch may have been made.
TreeBreaks(c) ==
    /\ pc[c] = "adding"
    /\ \E s \in IF tree[job[c]] = "adding" THEN {"absent", "branch"} ELSE {tree[job[c]], "absent"} :
          tree' = [tree EXCEPT ![job[c]] = s]
    /\ Goto(c, "failing")
    /\ UNCHANGED <<storeVars, holder, job, using, clone, cloner, lost>>

\* The copy that was loaded before the clone is stored, as preparing; the
\* stored task is not looked at.
Save(c) ==
    /\ holder = None
    /\ pc[c] = "save"
    /\ state' = [state EXCEPT ![job[c]] = "preparing"]
    /\ Goto(c, "saved")
    /\ UNCHANGED <<contract, status, claim, holder, job, using, diskVars>>

\* complete_preparation_claim, a transaction of its own.
Complete(c) ==
    /\ holder = None
    /\ pc[c] \in {"saved", "failing"}
    /\ claim' = [claim EXCEPT ![using[c]] =
                    IF pc[c] = "saved" THEN "succeeded" ELSE "failed"]
    /\ Return(c)
    /\ UNCHANGED <<state, contract, status, holder, diskVars>>

\* Mutated form: a claim that was open at the stop counts as a failure.
Recovered_Failed == [ap \in Approvals |-> IF claim[ap] = "active" THEN "failed" ELSE claim[ap]]

\* recover_interrupted_preparations
Recovered ==
    [ap \in Approvals |-> IF claim[ap] = "active" THEN "interrupted" ELSE claim[ap]]

\* The engine stops, at whatever point its calls are, and starts again.  A git
\* process dies with it at any point, or ends its work alone.
Restart ==
    /\ Crashes
    /\ claim' = Recovered
    /\ holder' = None
    /\ pc' = [c \in Callers |-> "idle"]
    /\ job' = [c \in Callers |-> None]
    /\ using' = [c \in Callers |-> None]
    /\ clone' \in IF cloner = None THEN {clone} ELSE CloneState
    /\ cloner' = None
    /\ tree' \in {f \in [Tasks -> TreeState \ {"adding"}] :
                    \A t \in Tasks : tree[t] # "adding" => f[t] = tree[t]}
    /\ UNCHANGED <<state, contract, status, lost>>

--------------------------------------------------------------------------------

Plan(c) ==
    \/ \E t \in Tasks : PlanLoad(c, t)
    \/ Assess(c) \/ PlanLock(c) \/ PlanCommit(c)

Source(c) ==
    \/ LookAtSource(c) \/ GiveUp(c)
    \/ CheckDestination(c) \/ StartClone(c)
    \/ CloneDone(c) \/ CloneBreaks(c) \/ RemoveClone(c)

Prepare(c) ==
    \/ \E ap \in Approvals : Authorize(c, ap)
    \/ PrepareLoad(c)
    \/ InspectTree(c) \/ AddTree(c) \/ TreeAdded(c) \/ TreeBreaks(c)
    \/ Save(c) \/ Complete(c)

Next ==
    \/ \E c \in Callers : Plan(c) \/ Source(c) \/ Prepare(c)
    \/ \E ap \in Approvals : Approve(ap) \/ Expire(ap)
    \/ Restart

Spec == Init /\ [][Next]_vars

--------------------------------------------------------------------------------
(* Properties *)

\* The claim of an approval is the mutual exclusion of task.prepare, which
\* clones and adds a worktree without the store lock: whoever is inside holds
\* the open claim of its approval, and nobody else is inside for its task.
PreparationIsExclusive ==
    \A c \in Callers : Prepares(c) =>
        /\ claim[using[c]] = "active"
        /\ \A d \in Callers \ {c} : Prepares(d) => job[d] # job[c]

\* The copy task.prepare loaded before it cloned and added the worktree is
\* stored without a comparison (rpc.rs:1944).  It is nevertheless never stale,
\* since everybody else leaves a task with an open claim alone.
SaveIsFresh ==
    \A c \in Callers : Prepares(c) /\ pc[c] \notin {"claimed", "saved", "failing"} =>
        state[job[c]] = Gate

\* A prepared task has its worktree, however attempts failed, were interrupted
\* or overlapped before, as long as no call removed a completed clone; the
\* checkout may be incomplete (see the README on both).
PreparedHasTree ==
    ~lost => \A t \in Tasks : state[t] = "preparing" => tree[t] \in {"incomplete", "present"}

\* The claims tell what happened: a success is recorded only of a prepared
\* task and once, and a prepared task was prepared under a claim that is not
\* recorded as failed, also when the engine stopped between the two
\* transactions.
ClaimsTellOutcome ==
    /\ \A ap \in Approvals : claim[ap] = "succeeded" =>
          /\ state[ap.task] = "preparing"
          /\ \A bp \in Approvals \ {ap} : bp.task = ap.task => claim[bp] # "succeeded"
    /\ \A t \in Tasks : state[t] = "preparing" =>
          \E ap \in Approvals : /\ ap.task = t
                                /\ claim[ap] \in {"active", "succeeded", "interrupted"}

\* An approval is consumed once: a claim that was made is not made again,
\* whether it succeeded, failed or was interrupted by a restart.
ApprovalIsSingleUse ==
    [][\A ap \in Approvals : claim[ap] # "none" =>
          claim'[ap] \in {claim[ap], "succeeded", "failed", "interrupted"}]_vars

\* A task changes its state along the lifecycle only and is never planned
\* twice: a second task.plan that was cloning meanwhile finds it changed.
LifecycleOnly ==
    [][\A t \in Tasks : state'[t] # state[t] => CanTransition(state[t], state'[t])]_vars

================================================================================
