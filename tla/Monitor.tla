--------------------------------- MODULE Monitor ---------------------------------
(***************************************************************************)
(* Monitors of delivered pull requests: what a synchronization reads of a  *)
(* pull request, the stored snapshot, and monitor.start, monitor.observe   *)
(* and monitor.cancel on it.  When the next observation is due is left to  *)
(* the clients, and the wake of a pending monitor to WebhookRelay.         *)
(*                                                                         *)
(* A snapshot is read with several requests, without a lock, while the     *)
(* pull request moves, and its lists are cut to the budget of the snapshot *)
(* (Triage has the budget); it is stored with the time of the write.       *)
(* Several monitors may watch for one task, and the task is merged,        *)
(* reconciled or interrupted meanwhile; an interruption loads the task     *)
(* under one lock and saves its copy under another.                        *)
(***************************************************************************)
EXTENDS Naturals, TaskLifecycle

CONSTANTS
    Monitors,   \* monitors of one task that may be started
    Syncs,      \* synchronizations that may run at once
    Shas,       \* commits of the pull request and of its base
    Budget,     \* repair_budget
    MaxChanges, \* bound: changes of the pull request on GitHub
    None

ASSUME MonitorAssumption ==
    /\ Shas # {}
    /\ Budget \in Nat \ {0}
    /\ MaxChanges \in Nat

MonitorState == {"pending", "repairNeeded", "succeeded", "blocked", "cancelled"}

TerminalMonitor == {"succeeded", "blocked", "cancelled"}

Health == {"passing", "failing", "pending"}          \* ci_health
Decision == {"approved", "changesRequested", "reviewRequired"}

\* The outcomes that the check runs of a commit have, and the states of the
\* reviews of the pull request.
RunOutcome == {"passing", "failing", "running"}
Verdicts == {"approved", "changesRequested"}
Mergeable == {"mergeable", "conflicting", "unknown"}

Pull == [head : Shas, base : Shas, mergeable : Mergeable, reviews : SUBSET Verdicts]

\* What a synchronization keeps of the pull request.
Evidence == [head : Shas, base : Shas, mergeable : Mergeable,
             review : Decision \cup {None}, ci : Health \cup {None}]

VARIABLES
    \* the pull request on GitHub
    pull,      \* its head, base, mergeability and reviews
    checks,    \* the outcomes of the check runs of each commit
    changes,   \* how often it has changed
    \* the synchronizations
    pc,        \* "idle", "detail", "reviews" or "checks": what was read last
    read,      \* what was read
    \* the store
    snapshot,  \* github_snapshots, where it is not older than
               \* MAX_MONITOR_SNAPSHOT_AGE; None else
    monitor,   \* the monitors; None before the start
    task,      \* the state of the task
    previous,  \* the state an interrupted task returns to; else None
    approval,  \* its merge approval: "none", "live" or "dead"
    \* the engine process
    session,   \* is the Codex session of the task still active?
    copy,      \* the task state an interruption has loaded; None without one
    \* history
    green,     \* commits that once had a check run that passed
    approved,  \* did the pull request once have an approving review?
    undone     \* monitors whose success the save of an older copy has undone

githubVars == <<pull, checks, changes, green, approved>>
syncVars == <<pc, read>>
taskVars == <<task, previous, approval>>
codexVars == <<session, copy, undone>>
vars == <<githubVars, syncVars, snapshot, monitor, taskVars, codexVars>>

\* The monitor's part of the task lifecycle.
Stage == {"monitoring", "awaitingMergeApproval", "merging", "completed"}

\* By codex.pause, or for good: by codex.cancel, which stores "cancelled", or by
\* the record of a crash of the app-server.
Interrupted == {"paused", "failed"}

MonitorRecord ==
    [head : Shas, base : Shas, state : MonitorState, repairs : 0..Budget]

\* None is no value that it stands beside.
ASSUME NoneAssumption ==
    None \notin Decision \cup Health \cup Evidence \cup MonitorRecord \cup Stage \cup Interrupted

TypeOK ==
    /\ pull \in Pull
    /\ checks \in [Shas -> SUBSET RunOutcome]
    /\ changes \in 0..MaxChanges
    /\ pc \in [Syncs -> {"idle", "detail", "reviews", "checks"}]
    /\ read \in [Syncs -> Evidence \cup {None}]
    /\ snapshot \in Evidence \cup {None}
    /\ monitor \in [Monitors -> MonitorRecord \cup {None}]
    /\ task \in Stage \cup Interrupted
    /\ previous \in Stage \cup {None}
    /\ previous = None <=> task \notin Interrupted
    /\ session \in BOOLEAN
    /\ copy \in Stage \cup Interrupted \cup {None}
    /\ undone \subseteq Monitors
    /\ approval \in {"none", "live", "dead"}
    /\ green \subseteq Shas
    /\ approved \in BOOLEAN
    /\ \A s \in Syncs : pc[s] = "idle" <=> read[s] = None

Init ==
    /\ pull \in Pull
    /\ checks \in [Shas -> SUBSET RunOutcome]
    /\ changes = 0
    /\ pc = [s \in Syncs |-> "idle"]
    /\ read = [s \in Syncs |-> None]
    /\ snapshot = None
    /\ monitor = [m \in Monitors |-> None]
    /\ task = "monitoring"
    /\ previous = None
    /\ approval = "none"
    /\ session = TRUE
    /\ copy = None
    /\ undone = {}
    /\ green = {s \in Shas : "passing" \in checks[s]}
    /\ approved = ("approved" \in pull.reviews)

--------------------------------------------------------------------------------
(* GitHub *)

\* Someone pushes, retargets, reviews; GitHub computes the mergeability or the
\* checks of the head.  A push resets what GitHub has computed.
Change ==
    /\ changes < MaxChanges
    /\ changes' = changes + 1
    /\ \/ \E sha \in Shas : \E moved \in {[pull EXCEPT !.head = sha], [pull EXCEPT !.base = sha]} :
             /\ pull' = [moved EXCEPT !.mergeable = "unknown"]
             /\ UNCHANGED checks
       \/ \E v \in Mergeable : pull' = [pull EXCEPT !.mergeable = v] /\ UNCHANGED checks
       \/ \E v \in SUBSET Verdicts : pull' = [pull EXCEPT !.reviews = v] /\ UNCHANGED checks
       \/ \E v \in SUBSET RunOutcome : checks' = [checks EXCEPT ![pull.head] = v] /\ UNCHANGED pull
    /\ green' = green \cup {s \in Shas : "passing" \in checks'[s]}
    /\ approved' = (approved \/ "approved" \in pull'.reviews)
    /\ UNCHANGED <<syncVars, snapshot, monitor, taskVars, codexVars>>

--------------------------------------------------------------------------------
(* A synchronization: GitHubSource::repository_snapshot, then the store *)

\* enrich_pulls reads the detail of the pull request.
ReadDetail(s) ==
    /\ pc[s] = "idle"
    /\ pc' = [pc EXCEPT ![s] = "detail"]
    /\ read' = [read EXCEPT ![s] =
                   [head |-> pull.head, base |-> pull.base, mergeable |-> pull.mergeable,
                    review |-> None, ci |-> None]]
    /\ UNCHANGED <<githubVars, snapshot, monitor, taskVars, codexVars>>

\* review_decision over the latest review of each reviewer; without a review
\* there is no decision, which an observation takes for a pending one.
review_decision(latest) ==
    IF "changesRequested" \in latest THEN "changesRequested"
    ELSE IF "approved" \in latest THEN "approved" ELSE "reviewRequired"

\* discussions reads the reviews, cut to the budget of the pull request; of
\* what it has read, some reviews are the latest of their reviewers ...
ReadReviews(s) ==
    /\ pc[s] = "detail"
    /\ pc' = [pc EXCEPT ![s] = "reviews"]
    /\ \E latest \in SUBSET pull.reviews :
          read' = [read EXCEPT ![s].review = review_decision(latest)]
    /\ UNCHANGED <<githubVars, snapshot, monitor, taskVars, codexVars>>

\* Mutated form: the checks of the head at the time of this request are read.
CheckedCommit_Head(s) == pull.head

\* The commit whose checks are read: the head in the detail.
CheckedCommit(s) == read[s].head

\* ci_health over the runs that were read; "unknown", its value where there is
\* none, is observed as pending.
ci_health(runs) ==
    IF runs = {} \/ "running" \in runs THEN "pending"
    ELSE IF "failing" \in runs THEN "failing" ELSE "passing"

\* ... and checks the check runs, cut to the same budget: the outcomes that are
\* read are some of those the runs of the commit have.
ReadChecks(s) ==
    /\ pc[s] = "reviews"
    /\ pc' = [pc EXCEPT ![s] = "checks"]
    /\ \E runs \in SUBSET checks[CheckedCommit(s)] :
          read' = [read EXCEPT ![s].ci = ci_health(runs)]
    /\ UNCHANGED <<githubVars, snapshot, monitor, taskVars, codexVars>>

\* A request fails, or the job is cancelled: the stored snapshot stays.
SyncFails(s) ==
    /\ pc[s] # "idle"
    /\ pc' = [pc EXCEPT ![s] = "idle"]
    /\ read' = [read EXCEPT ![s] = None]
    /\ UNCHANGED <<githubVars, snapshot, monitor, taskVars, codexVars>>

\* replace_github_snapshot; it does not ask which snapshot was read first.
StoreSnapshot(s) ==
    /\ pc[s] = "checks"
    /\ snapshot' = read[s]
    /\ pc' = [pc EXCEPT ![s] = "idle"]
    /\ read' = [read EXCEPT ![s] = None]
    /\ UNCHANGED <<githubVars, monitor, taskVars, codexVars>>

\* Five minutes pass.
SnapshotAges ==
    /\ snapshot # None
    /\ snapshot' = None
    /\ UNCHANGED <<githubVars, syncVars, monitor, taskVars, codexVars>>

--------------------------------------------------------------------------------
(* The monitors *)

\* monitor.start: create_verified_monitor binds the monitor to the SHAs of the
\* fresh snapshot; that the task has another monitor is no obstacle.
Start(m) ==
    /\ monitor[m] = None
    /\ task = "monitoring"
    /\ snapshot # None
    /\ monitor' = [monitor EXCEPT ![m] =
                      [head |-> snapshot.head, base |-> snapshot.base,
                       state |-> "pending", repairs |-> 0]]
    /\ UNCHANGED <<githubVars, syncVars, snapshot, taskVars, codexVars>>

\* The pull request no longer has the SHAs of the monitor.
Moved(r, e) == r.head # e.head \/ r.base # e.base

HasBudget(r) == r.repairs < Budget

\* MonitorRecord::observe on evidence the engine took from a snapshot, where
\* the network, the rate limit and the access to the repository are in order.
Verdict(r, e) ==
    CASE Moved(r, e) \/ e.mergeable = "conflicting" -> "blocked"
      [] ~Moved(r, e) /\ e.mergeable = "unknown" -> "pending"
      [] OTHER ->
            IF e.ci = "failing" \/ e.review = "changesRequested"
            THEN IF HasBudget(r) THEN "repairNeeded" ELSE "blocked"
            ELSE IF e.ci = "passing" /\ e.review = "approved"
                 THEN "succeeded"
                 ELSE "pending"

\* The record after an observation.
Observed(r, e) ==
    [r EXCEPT !.state = Verdict(r, e),
              !.repairs = IF Verdict(r, e) = "repairNeeded" THEN @ + 1 ELSE @]

\* outcome.invalidate_approvals
Invalidates(v) == v \in {"blocked", "repairNeeded"}

\* The monitors that have succeeded.
Succeeded == {m \in Monitors : monitor[m] # None /\ monitor[m].state = "succeeded"}

\* Mutated form: the state of the task is not looked at.
MaySucceed_Always == TRUE

\* The task is still in the monitoring state.
MaySucceed == task = "monitoring"

\* monitor.observe, all of it under one lock of the store: approvals are
\* invalidated in a transaction of their own, then the monitor is saved, with
\* the task when it succeeded.  A success of a task that has left monitoring
\* is rejected and not saved; the engine may stop after the first transaction.
Observe(m) ==
    LET v == Verdict(monitor[m], snapshot)
    IN  /\ monitor[m] # None
        /\ monitor[m].state \notin TerminalMonitor
        /\ snapshot # None
        /\ approval' = IF Invalidates(v) /\ approval = "live" THEN "dead" ELSE approval
        /\ \/ /\ v = "succeeded" => MaySucceed
              /\ monitor' = [monitor EXCEPT ![m] = Observed(monitor[m], snapshot)]
              /\ task' = IF v = "succeeded" THEN "awaitingMergeApproval" ELSE task
           \/ /\ Invalidates(v)
              /\ UNCHANGED <<monitor, task>>
        /\ UNCHANGED <<githubVars, syncVars, snapshot, previous, codexVars>>

\* monitor.cancel
Cancel(m) ==
    /\ monitor[m] # None
    /\ monitor[m].state \notin TerminalMonitor
    /\ monitor' = [monitor EXCEPT ![m].state = "cancelled"]
    /\ UNCHANGED <<githubVars, syncVars, snapshot, taskVars, codexVars>>

--------------------------------------------------------------------------------
(* The rest of the engine, as far as the task of the monitors goes *)

\* delivery.approve for the merge: see Delivery.
ApproveMerge ==
    /\ task = "awaitingMergeApproval"
    /\ approval # "live"
    /\ approval' = "live"
    /\ UNCHANGED <<githubVars, syncVars, snapshot, monitor, task, previous, codexVars>>

\* The merge is executed and ends, or goes back to its gate; or somebody merges
\* on GitHub and task.reconcileGitHub walks the task to completed.
Merge ==
    /\ \/ /\ task = "awaitingMergeApproval"
          /\ approval = "live"
          /\ task' = "merging"
       \/ /\ task = "merging"
          /\ task' = "awaitingMergeApproval"
       \/ /\ task \in {"monitoring", "awaitingMergeApproval", "merging"}
          /\ task' = "completed"
    /\ UNCHANGED <<githubVars, syncVars, snapshot, monitor, previous, approval, codexVars>>

\* codex.pause, codex.cancel and the record of a crash end the session and load
\* the task under one lock of the store ...
InterruptLoad ==
    /\ session
    /\ session' = FALSE
    /\ copy' = task
    /\ UNCHANGED <<githubVars, syncVars, snapshot, monitor, taskVars, undone>>

\* ... and save the interrupted copy under another, without comparing it with
\* what is stored; or nothing, where the turn was completed, the copy cannot be
\* interrupted or the engine stops.  A copy at monitoring undoes the success
\* that was saved since.
InterruptSave ==
    /\ copy # None
    /\ copy' = None
    /\ \/ /\ CanInterrupt(copy)
          /\ task' \in Interrupted
          /\ previous' = copy
          /\ undone' = IF copy = "monitoring" THEN Succeeded ELSE undone
       \/ UNCHANGED <<task, previous, undone>>
    /\ UNCHANGED <<githubVars, syncVars, snapshot, monitor, approval, session>>

\* codex.start on a paused task saves the resumed one, and then fails.
Resume ==
    /\ task = "paused"
    /\ task' = previous
    /\ previous' = None
    /\ UNCHANGED <<githubVars, syncVars, snapshot, monitor, approval, codexVars>>

--------------------------------------------------------------------------------

Next ==
    \/ Change
    \/ \E s \in Syncs :
          \/ ReadDetail(s) \/ ReadReviews(s) \/ ReadChecks(s)
          \/ SyncFails(s) \/ StoreSnapshot(s)
    \/ SnapshotAges
    \/ \E m \in Monitors : Start(m) \/ Observe(m) \/ Cancel(m)
    \/ ApproveMerge \/ Merge
    \/ InterruptLoad \/ InterruptSave \/ Resume

Spec == Init /\ [][Next]_vars

--------------------------------------------------------------------------------
(* Properties *)

\* Where the task is in spite of an interruption.
Underlying == IF task \in Interrupted THEN previous ELSE task

\* A task comes to its merge gate by the success of one monitor, and no other
\* monitor succeeds after it, whatever is merged, reconciled and resumed
\* between the observations (rpc.rs:894).  The one exception is a success that
\* the save of an interruption loaded before it has undone: the task is back at
\* monitoring and a second monitor may succeed, but not a third.
OneSuccessMovesTask ==
    /\ Underlying = "monitoring" => Succeeded = undone
    /\ Underlying \in {"awaitingMergeApproval", "merging"} => Succeeded # undone
    /\ \A m, n \in Succeeded \ undone : m = n
    /\ \A m, n \in undone : m = n

\* A monitor succeeds on evidence GitHub really gave: a check run of the very
\* commit it was started for had passed and an approving review had been given,
\* although the lists are cut, the requests of a synchronization interleave
\* with pushes and an older synchronization may overwrite a newer one.  (That
\* all runs of the commit passed does not follow: see PassingIsComplete of
\* Triage.)
SuccessIsEvidenced == \A m \in Succeeded : monitor[m].head \in green /\ approved

================================================================================
