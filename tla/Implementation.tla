----------------------------- MODULE Implementation -----------------------------
(***************************************************************************)
(* Between the prepared worktree and the delivery gate: the Codex          *)
(* app-server of a task, driven by codex.start, codex.turn.start,          *)
(* codex.events, codex.approvals, codex.approval.resolve, codex.pause and  *)
(* codex.cancel, and the verification by task.readyForDelivery.            *)
(*                                                                         *)
(* One mutex orders the calls of the Codex service; verification does not  *)
(* take it.  Both leave the store lock while processes run.  Messages of   *)
(* the app-server wait in a pipe until a call reads them.  This is the     *)
(* part of one task; the client does not use a message id twice.           *)
(***************************************************************************)
EXTENDS Naturals, Sequences, TaskLifecycle

CONSTANTS
    MaxStarts,   \* bound: how often an app-server is launched
    Turns,       \* turns that may be requested; each may ask for one approval
    Verifiers,   \* connections that may be inside task.readyForDelivery
    MaxCommits,  \* bound: commits that may be made beside the first
    None

ASSUME ImplementationAssumption ==
    /\ MaxStarts \in Nat
    /\ MaxCommits \in Nat
    /\ None \notin Turns \cup Verifiers \cup TaskState

Generations == 1..MaxStarts

VARIABLES
    \* the store
    task,      \* the state of the task
    previous,  \* the state a paused task returns to; else None
    thread,    \* codex_sessions.thread_id is set
    job,       \* the TaskExecution job of each generation
    approval,  \* the runtime approval of each turn
    \* the Codex service
    pc,        \* where the call that holds the mutex is
    gen,       \* the newest generation
    active,    \* the generation in the table of active processes; 0 if none
    ready,     \* its session is Ready, not StaleThreadNeedsConfirmation
    turn,      \* active_turn_id
    waiting,   \* the turn the call waits for, starts, interrupts or answers
    copy,      \* the state of the task that the call has loaded; or None
    \* the app-servers
    codex,     \* "none", "running", "exited" (by itself) or "terminated"
    out,       \* messages in the pipe of the newest generation
    server,    \* how far the app-server is with each turn
    home,      \* the generation a turn was requested of; 0 before
    answered,  \* history: where the answer to an approval was written
    \* the worktree and its verification
    head,      \* the commit that is checked out
    dirty,
    verifier,  \* where each verification is
    base,      \* the commit it has captured
    touched,   \* verifications whose copy of the task is no longer the stored one
    moved      \* history: verifications whose worktree is, or was when their
               \* commands ended, not as the commands had found it

taskVars == <<task, previous, touched>>
storeVars == <<thread, job, approval>>
callVars == <<pc, waiting, copy>>
serviceVars == <<gen, active, ready, turn>>
serverVars == <<codex, out, server, home, answered>>
treeVars == <<head, dirty>>
verifyVars == <<verifier, base, moved>>
vars == <<taskVars, storeVars, callVars, serviceVars, serverVars, treeVars, verifyVars>>

Stage == {"preparing", "implementing", "verifying", "reviewing",
          "awaitingDeliveryApproval", "completed", "paused", "failed", "cancelled"}

JobState == {"none", "queued", "running", "cancelling", "cancelled", "succeeded",
             "failed", "interrupted"}

Location == {"idle", "launched", "connected", "entered", "created",
             "asked", "answering",
             "crashing", "crashLoaded", "crashSaved",
             "stopping", "stopped", "stopSaved"}

\* turn/completed with its status: the turn has ended by itself, or it was
\* interrupted or has failed.
Ends == {"completed", "aborted"}

Message == (({"response", "approval"} \cup Ends) \X Turns) \cup {<<"garbage">>}

TypeOK ==
    /\ task \in Stage
    /\ previous \in Stage \cup {None}
    /\ task = "paused" <=> previous # None
    /\ thread \in BOOLEAN
    /\ job \in [Generations -> JobState]
    /\ approval \in [Turns -> {"none", "pending", "decided", "invalidated"}]
    /\ pc \in Location
    /\ gen \in 0..MaxStarts
    /\ active \in {0, gen}
    /\ ready \in BOOLEAN
    /\ turn \in Turns \cup {None}
    /\ waiting \in Turns \cup {None}
    /\ copy \in Stage \cup {None}
    /\ codex \in [Generations -> {"none", "running", "exited", "terminated"}]
    /\ out \in Seq(Message)
    /\ server \in [Turns -> {"none", "requested", "started", "ended"}]
    /\ home \in [Turns -> 0..MaxStarts]
    /\ answered \in [Turns -> Seq(Generations)]
    /\ head \in 0..MaxCommits
    /\ dirty \in BOOLEAN
    /\ verifier \in [Verifiers -> {"idle", "entered", "running", "checked"}]
    /\ base \in [Verifiers -> 0..MaxCommits]
    /\ touched \subseteq Verifiers
    /\ moved \subseteq Verifiers

Init ==
    /\ task = "preparing"
    /\ previous = None
    /\ thread = FALSE
    /\ job = [g \in Generations |-> "none"]
    /\ approval = [t \in Turns |-> "none"]
    /\ pc = "idle"
    /\ gen = 0
    /\ active = 0
    /\ ready = FALSE
    /\ turn = None
    /\ waiting = None
    /\ copy = None
    /\ codex = [g \in Generations |-> "none"]
    /\ out = <<>>
    /\ server = [t \in Turns |-> "none"]
    /\ home = [t \in Turns |-> 0]
    /\ answered = [t \in Turns |-> <<>>]
    /\ head = 0
    /\ dirty = FALSE
    /\ verifier = [v \in Verifiers |-> "idle"]
    /\ base = [v \in Verifiers |-> 0]
    /\ touched = {}
    /\ moved = {}

--------------------------------------------------------------------------------
(* Helpers *)

\* A transaction saves the task; it no longer equals any copy of it.
SaveTask(s) ==
    /\ task' = s
    /\ touched' = {v \in Verifiers : verifier[v] # "idle"}

\* Mutated form: the process outlives its CodexProcess.
Terminated_Detached == codex

\* CodexProcess::terminate or Drop: the process group is killed.
Terminated ==
    [codex EXCEPT ![gen] = IF @ = "running" THEN "terminated" ELSE @]

\* EventStore::transition_job, a compare-and-set.
JobStep(from, to) ==
    job' = [job EXCEPT ![gen] = IF @ = from THEN to ELSE @]

--------------------------------------------------------------------------------
(* codex.start *)

\* Task::resume, saved
Resume(s) == SaveTask(s) /\ previous' = None

\* A paused task is resumed and saved, then its state decides; the process is
\* launched without the store lock.
StartLoad ==
    LET s == IF task = "paused" THEN previous ELSE task
    IN  /\ pc = "idle"
        /\ active = 0
        /\ gen < MaxStarts
        /\ IF task = "paused" THEN Resume(s) ELSE UNCHANGED taskVars
        /\ IF s \in {"preparing", "implementing"}
           THEN /\ pc' = "launched"
                /\ gen' = gen + 1
                /\ codex' = [codex EXCEPT ![gen + 1] = "running"]
                /\ out' = <<>>
                /\ copy' = s
           ELSE UNCHANGED <<pc, gen, codex, out, copy>>
        /\ UNCHANGED <<storeVars, waiting, active, ready, turn, server,
                       home, answered, treeVars, verifyVars>>

\* CodexSession::connect: the session becomes Ready, or the thread it wanted
\* to resume is stale and the operator has to confirm.
Connect ==
    /\ pc = "launched"
    /\ codex[gen] = "running"
    /\ pc' = "connected"
    /\ \/ ready' = TRUE /\ thread' = TRUE
       \/ ready' = FALSE /\ thread /\ UNCHANGED thread
    /\ UNCHANGED <<taskVars, job, approval, waiting, copy, gen, active, turn,
                   serverVars, treeVars, verifyVars>>

\* connect fails: the process is dropped, and the call ends.
ConnectFails ==
    /\ pc = "launched"
    /\ pc' = "idle"
    /\ codex' = Terminated
    /\ copy' = None
    /\ UNCHANGED <<taskVars, storeVars, waiting, serviceVars, out,
                   server, home, answered, treeVars, verifyVars>>

\* enter_implementing_with_codex wants the persisted task still prepared.
EntersFrom(s) == s = "preparing"

\* A ready session takes a preparing task to implementing.
Enter ==
    /\ pc = "connected"
    /\ IF ready /\ copy = "preparing"
       THEN IF EntersFrom(task)
            THEN SaveTask("implementing") /\ pc' = "entered" /\ UNCHANGED <<codex, ready>>
            ELSE /\ pc' = "idle"
                 /\ codex' = Terminated
                 /\ ready' = FALSE
                 /\ UNCHANGED <<task, touched>>
       ELSE pc' = "entered" /\ UNCHANGED <<task, touched, codex, ready>>
    /\ copy' = None
    /\ UNCHANGED <<previous, storeVars, waiting, gen, active, turn, out,
                   server, home, answered, treeVars, verifyVars>>

\* The job is created queued, then set running, then the process enters the
\* table.
Activate ==
    /\ \/ /\ pc = "entered"
          /\ pc' = "created"
          /\ job' = [job EXCEPT ![gen] = "queued"]
          /\ UNCHANGED <<active, turn>>
       \/ /\ pc = "created"
          /\ pc' = "idle"
          /\ JobStep("queued", "running")
          /\ active' = gen
          /\ turn' = None
    /\ UNCHANGED <<taskVars, thread, approval, waiting, copy, gen, ready,
                   serverVars, treeVars, verifyVars>>

--------------------------------------------------------------------------------
(* The app-server *)

Emit(m) == out' = Append(out, m)

\* It answers turn/start, asks for an approval, reports the end of the turn.
Serve(t) ==
    /\ gen > 0
    /\ home[t] = gen
    /\ codex[gen] = "running"
    /\ \/ /\ server[t] = "requested"
          /\ server' = [server EXCEPT ![t] = "started"]
          /\ Emit(<<"response", t>>)
       \/ /\ server[t] = "started"
          /\ \A i \in DOMAIN out : out[i] # <<"approval", t>>
          /\ approval[t] = "none"
          /\ Emit(<<"approval", t>>)
          /\ UNCHANGED server
       \/ /\ server[t] = "started"
          /\ server' = [server EXCEPT ![t] = "ended"]
          /\ \E end \in Ends : Emit(<<end, t>>)
    /\ UNCHANGED <<taskVars, storeVars, callVars, serviceVars, codex, home, answered,
                   treeVars, verifyVars>>

\* It exits; what it has written can still be read.
Exit ==
    /\ gen > 0
    /\ codex[gen] = "running"
    /\ codex' = [codex EXCEPT ![gen] = "exited"]
    /\ UNCHANGED <<taskVars, storeVars, callVars, serviceVars, out, server, home,
                   answered, treeVars, verifyVars>>

--------------------------------------------------------------------------------
(* Reading its messages *)

\* A line the decoder refuses: the rest of a line, or a response nobody waits
\* for (any more).
Refused(m) ==
    \/ m = <<"garbage">>
    \/ m[1] = "response" /\ ~(pc = "asked" /\ m[2] = waiting)

\* The end of the active turn; its status is not looked at, and the end of
\* another turn is dropped.
EndsTurn(m) == m[1] \in Ends /\ m[2] = turn

\* persist_incoming
Persist(m) ==
    /\ IF EndsTurn(m)
       THEN /\ turn' = None
            /\ IF task = "implementing" THEN SaveTask("verifying")
                                        ELSE UNCHANGED <<task, touched>>
       ELSE UNCHANGED <<turn, task, touched>>
    /\ approval' = IF m[1] = "approval" THEN [approval EXCEPT ![m[2]] = "pending"]
                                        ELSE approval

\* A message is read by codex.events, codex.approvals, or a call that waits
\* for the response to its own request.
Read ==
    LET m == Head(out)
    IN  /\ \/ pc = "idle" /\ active # 0
           \/ pc \in {"asked", "stopping"}
        /\ out # <<>>
        /\ ~Refused(m)
        /\ m[1] # "response"
        /\ out' = Tail(out)
        /\ Persist(m)
        /\ UNCHANGED <<previous, thread, job, callVars, gen, active, ready, codex,
                       server, home, answered, treeVars, verifyVars>>

\* The poll of 5 ms ends inside a line; what it has read of it is gone.
CutLine ==
    /\ pc = "idle"
    /\ active # 0
    /\ out # <<>>
    /\ out' = <<(<<"garbage">>)>> \o Tail(out)
    /\ UNCHANGED <<taskVars, storeVars, callVars, serviceVars, codex, server, home,
                   answered, treeVars, verifyVars>>

\* The end of the pipe or a refused line.  codex.events records a crash,
\* codex.approvals only answers an error.
ReadFails ==
    /\ pc = "idle"
    /\ active # 0
    /\ \/ out = <<>> /\ codex[gen] # "running" /\ UNCHANGED out
       \/ out # <<>> /\ Refused(Head(out)) /\ out' = Tail(out)
    /\ pc' \in {"idle", "crashing"}
    /\ UNCHANGED <<taskVars, storeVars, waiting, copy, serviceVars, codex,
                   server, home, answered, treeVars, verifyVars>>

\* record_crash takes the process from the table, terminates it and loads the
\* task ...
CrashLoad ==
    /\ pc = "crashing"
    /\ pc' = "crashLoaded"
    /\ active' = 0
    /\ turn' = None
    /\ ready' = FALSE
    /\ codex' = Terminated
    /\ out' = <<>>
    /\ copy' = task
    /\ UNCHANGED <<taskVars, storeVars, waiting, gen, server, home, answered, treeVars,
                   verifyVars>>

\* ... saves it as failed, under another lock, and fails the job.
CrashSave ==
    /\ \/ /\ pc = "crashLoaded"
          /\ CanInterrupt(copy)
          /\ SaveTask("failed")
          /\ pc' = "crashSaved"
          /\ UNCHANGED job
       \/ /\ pc = "crashLoaded"
          /\ copy \in Terminal
          /\ pc' = "crashSaved"
          /\ UNCHANGED <<task, touched, job>>
       \/ /\ pc = "crashSaved"
          /\ JobStep("running", "failed")
          /\ pc' = "idle"
          /\ UNCHANGED <<task, touched>>
    /\ copy' = None
    /\ UNCHANGED <<previous, thread, approval, waiting, serviceVars, serverVars,
                   treeVars, verifyVars>>

--------------------------------------------------------------------------------
(* codex.turn.start and codex.approval.resolve *)

\* The request is written.  The state of the task is not looked at, nor is a
\* turn that is still active.
AskTurn(t) ==
    /\ pc = "idle"
    /\ active # 0
    /\ ready
    /\ codex[gen] = "running"
    /\ home[t] = 0
    /\ pc' = "asked"
    /\ waiting' = t
    /\ home' = [home EXCEPT ![t] = gen]
    /\ server' = [server EXCEPT ![t] = "requested"]
    /\ UNCHANGED <<taskVars, storeVars, copy, serviceVars, codex, out, answered,
                   treeVars, verifyVars>>

\* Its response makes the turn the active one ...
TurnStarted ==
    /\ pc = "asked"
    /\ out # <<>>
    /\ Head(out) = <<"response", waiting>>
    /\ out' = Tail(out)
    /\ turn' = waiting
    /\ pc' = "idle"
    /\ waiting' = None
    /\ UNCHANGED <<taskVars, storeVars, copy, gen, active, ready, codex, server,
                   home, answered, treeVars, verifyVars>>

\* ... or does not come in time, or something else comes that is refused; the
\* process stays active.
TurnFails ==
    /\ pc = "asked"
    /\ \/ UNCHANGED out
       \/ out # <<>> /\ Refused(Head(out)) /\ out' = Tail(out)
    /\ pc' = "idle"
    /\ waiting' = None
    /\ UNCHANGED <<taskVars, storeVars, copy, serviceVars, codex, server, home,
                   answered, treeVars, verifyVars>>

\* Mutated form: the generation that asked is not compared.
Answerable_AnyProcess(t) == turn = t \/ home[t] # active

\* The approval belongs to the process in the table and to its active turn.
Answerable(t) == home[t] = active /\ turn = t

\* resolve_approval writes the answer ...
Answer(t) ==
    /\ pc = "idle"
    /\ active # 0
    /\ approval[t] = "pending"
    /\ IF Answerable(t)
       THEN /\ codex[gen] = "running"
            /\ answered' = [answered EXCEPT ![t] = Append(@, active)]
            /\ pc' = "answering"
            /\ waiting' = t
            /\ UNCHANGED approval
       ELSE /\ approval' = [approval EXCEPT ![t] = "invalidated"]
            /\ UNCHANGED <<answered, pc, waiting>>
    /\ UNCHANGED <<taskVars, thread, job, copy, serviceVars, codex, out, server,
                   home, treeVars, verifyVars>>

\* ... and saves the decision.
SaveDecision ==
    /\ pc = "answering"
    /\ approval' = [approval EXCEPT ![waiting] = "decided"]
    /\ pc' = "idle"
    /\ waiting' = None
    /\ UNCHANGED <<taskVars, thread, job, copy, serviceVars, serverVars,
                   treeVars, verifyVars>>

\* Ten minutes pass; the resolution that finds it says so.
Expire(t) ==
    /\ pc = "idle"
    /\ active # 0
    /\ approval[t] = "pending"
    /\ approval' = [approval EXCEPT ![t] = "invalidated"]
    /\ UNCHANGED <<taskVars, thread, job, callVars, serviceVars, serverVars, treeVars,
                   verifyVars>>

--------------------------------------------------------------------------------
(* codex.pause and codex.cancel: CodexService::interrupt *)

\* The process leaves the table first; then the job is marked, and the active
\* turn is asked to stop, while its messages are read.
Interrupt ==
    /\ pc = "idle"
    /\ active # 0
    /\ active' = 0
    /\ JobStep("running", "cancelling")
    /\ waiting' = turn
    /\ pc' = "stopping"
    /\ UNCHANGED <<taskVars, thread, approval, copy, gen, ready, turn, serverVars,
                   treeVars, verifyVars>>

\* The request is answered or 750 ms pass; the process is terminated and the
\* task loaded.  If the end of the turn was read before the answer, waiting
\* says so.
\* An error, of the termination or of the job's step before it, ends the call.
Stop ==
    /\ pc = "stopping"
    /\ \/ /\ job[gen] = "cancelling"
          /\ pc' = "stopped"
          /\ copy' = task
          /\ waiting' \in {None} \cup (IF turn = None THEN {waiting} ELSE {})
       \/ pc' = "idle" /\ waiting' = None /\ UNCHANGED copy
    /\ codex' = Terminated
    /\ out' = <<>>
    /\ turn' = None
    /\ ready' = FALSE
    /\ UNCHANGED <<taskVars, storeVars, gen, active, server, home, answered, treeVars,
                   verifyVars>>

\* Mutated form: an answer in time is taken for a completion.
CompletedBefore_Answered == TRUE

\* completed_before_cancel
CompletedBefore == waiting # None

\* The copy is saved as paused or cancelled, under another lock than it was
\* loaded, and the job is settled.
SaveStopped ==
    /\ \/ /\ pc = "stopped"
          /\ CompletedBefore
          /\ JobStep("cancelling", "succeeded")
          /\ pc' = "idle"
          /\ UNCHANGED taskVars
       \/ /\ pc = "stopped"
          /\ ~CompletedBefore
          /\ CanInterrupt(copy)
          /\ \/ SaveTask("cancelled") /\ UNCHANGED previous
             \/ SaveTask("paused") /\ previous' = copy
          /\ pc' = "stopSaved"
          /\ UNCHANGED job
       \/ /\ pc = "stopped"
          /\ ~CompletedBefore
          /\ ~CanInterrupt(copy)
          /\ pc' = "idle"
          /\ UNCHANGED <<taskVars, job>>
       \/ /\ pc = "stopSaved"
          /\ JobStep("cancelling", "cancelled")
          /\ pc' = "idle"
          /\ UNCHANGED taskVars
    /\ waiting' = None
    /\ copy' = None
    /\ UNCHANGED <<thread, approval, serviceVars, serverVars, treeVars, verifyVars>>

--------------------------------------------------------------------------------
(* The worktree and task.readyForDelivery: verify_task_for_delivery *)

\* Codex, the operator or a command edits; or commits, resets or checks out,
\* an earlier commit too.
Edit ==
    /\ \/ dirty' = TRUE /\ UNCHANGED head
       \/ dirty' = FALSE /\ head' \in 0..MaxCommits
    /\ LET running == {v \in Verifiers : verifier[v] = "running"}
       IN  moved' = (moved \ running)
                    \cup {v \in running : dirty' \/ head' # base[v]}
    /\ UNCHANGED <<taskVars, storeVars, callVars, serviceVars, serverVars, verifier, base>>

\* The task is walked to verifying and its copy kept.
VerifyLoad(v) ==
    /\ verifier[v] = "idle"
    /\ task \in {"preparing", "implementing", "verifying"}
    /\ task' = "verifying"
    /\ touched' = IF task = "verifying" THEN touched \ {v}
                ELSE {u \in Verifiers \ {v} : verifier[u] # "idle"}
    /\ verifier' = [verifier EXCEPT ![v] = "entered"]
    /\ UNCHANGED <<previous, storeVars, callVars, serviceVars, serverVars, treeVars, base, moved>>

\* A clean worktree: its commit is captured and the commands start.
VerifyInspect(v) ==
    /\ verifier[v] = "entered"
    /\ ~dirty
    /\ verifier' = [verifier EXCEPT ![v] = "running"]
    /\ base' = [base EXCEPT ![v] = head]
    /\ moved' = moved \ {v}
    /\ UNCHANGED <<taskVars, storeVars, callVars, serviceVars, serverVars, treeVars>>

\* Mutated form: the worktree is inspected only before the commands.
Unmoved_Assumed(v) == TRUE

\* after.head_sha == before.head_sha, and clean
Unmoved(v) == head = base[v] /\ ~dirty

\* All commands have passed; their evidence is saved.
VerifyCommands(v) ==
    /\ verifier[v] = "running"
    /\ Unmoved(v)
    /\ verifier' = [verifier EXCEPT ![v] = "checked"]
    /\ UNCHANGED <<taskVars, storeVars, callVars, serviceVars, serverVars, treeVars, base, moved>>

\* The stored task is the one that was loaded.
Same(v) == v \notin touched

\* The call returns, and what it held is gone.
VerifyEnds(v) ==
    /\ verifier' = [verifier EXCEPT ![v] = "idle"]
    /\ base' = [base EXCEPT ![v] = 0]
    /\ moved' = moved \ {v}

\* A dirty or moved worktree, a command that fails, times out or writes too
\* much, or a task that changed meanwhile.
VerifyFails(v) ==
    /\ \/ verifier[v] \in {"entered", "running"}
       \/ verifier[v] = "checked" /\ ~Same(v)
    /\ VerifyEnds(v)
    /\ touched' = touched \ {v}
    /\ UNCHANGED <<task, previous, storeVars, callVars, serviceVars, serverVars, treeVars>>

\* The task passes reviewing to its gate, in two transactions under one lock.
VerifySave(v) ==
    /\ verifier[v] = "checked"
    /\ Same(v)
    /\ task' = "awaitingDeliveryApproval"
    /\ touched' = {u \in Verifiers \ {v} : verifier[u] # "idle"}
    /\ VerifyEnds(v)
    /\ UNCHANGED <<previous, storeVars, callVars, serviceVars, serverVars, treeVars>>

\* What module Delivery models in full: the approved delivery of the task.
Deliver ==
    /\ task = "awaitingDeliveryApproval"
    /\ SaveTask("completed")
    /\ UNCHANGED <<previous, storeVars, callVars, serviceVars, serverVars, treeVars, verifyVars>>

--------------------------------------------------------------------------------
(* The engine stops and starts again *)

\* Mutated form: only cancelling jobs are recovered.
Interrupted_Cancelling ==
    [g \in Generations |-> IF job[g] = "cancelling" THEN "interrupted" ELSE job[g]]

\* recover_interrupted_jobs, and the graceful CodexService::shutdown
Interrupted ==
    [g \in Generations |->
        IF job[g] \in {"running", "cancelling"} THEN "interrupted" ELSE job[g]]

\* At any point; a verification may have saved reviewing and not the gate.
\* The app-server ends with its pipes.
Restart ==
    /\ job' = Interrupted
    /\ pc' = "idle"
    /\ waiting' = None
    /\ copy' = None
    /\ active' = 0
    /\ ready' = FALSE
    /\ turn' = None
    /\ out' = <<>>
    /\ codex' = IF gen = 0 THEN codex ELSE Terminated
    /\ verifier' = [v \in Verifiers |-> "idle"]
    /\ base' = [v \in Verifiers |-> 0]
    /\ touched' = {}
    /\ moved' = {}
    /\ \/ UNCHANGED task
       \/ /\ \E v \in Verifiers : verifier[v] = "checked" /\ Same(v)
          /\ task' = "reviewing"
    /\ UNCHANGED <<previous, thread, approval, gen, server, home, answered, treeVars>>

--------------------------------------------------------------------------------

Start == StartLoad \/ Connect \/ ConnectFails \/ Enter \/ Activate

Pump == Read \/ CutLine \/ ReadFails \/ CrashLoad \/ CrashSave

Turning ==
    \/ \E t \in Turns : AskTurn(t) \/ Answer(t) \/ Expire(t)
    \/ TurnStarted \/ TurnFails \/ SaveDecision

Stopping == Interrupt \/ Stop \/ SaveStopped

Verify(v) ==
    \/ VerifyLoad(v) \/ VerifyInspect(v) \/ VerifyCommands(v)
    \/ VerifyFails(v) \/ VerifySave(v)

Next ==
    \/ Start \/ Pump \/ Turning \/ Stopping
    \/ \E t \in Turns : Serve(t)
    \/ Exit \/ Edit \/ Deliver
    \/ \E v \in Verifiers : Verify(v)
    \/ Restart

Spec == Init /\ [][Next]_vars

--------------------------------------------------------------------------------
(* Properties *)

\* Ownership (ActiveCodex): a running app-server is the newest one, and it is in
\* the table of the service or held by the call in progress; none is orphaned
\* by a pause, a crash record, a failed connect or a restart.
ProcessIsOwned ==
    \A g \in Generations :
        codex[g] = "running" => g = gen /\ (active = g \/ pc # "idle")

\* Liveness of a TaskExecution job: the job is reported running only while its
\* app-server is in the table, or the call that took it out is in progress.
RunningJobIsActive ==
    \A g \in Generations :
        job[g] = "running" =>
            active = g \/ (g = gen /\ pc \in {"crashLoaded", "crashSaved"})

\* Runtime approvals (resolve_approval): over restarts, expiry and calls cut
\* off between the write and the record, an approval is answered at most once,
\* and to the process that asked.
AnswerReachesAsker ==
    \A t \in Turns :
        Len(answered[t]) <= 1 /\ \A i \in DOMAIN answered[t] : answered[t][i] = home[t]

\* The gate of a delivery (verify_task_for_delivery): it opens only for a
\* verification whose worktree was clean and at one commit when its commands
\* began and when they ended (it may have left that commit in between and come
\* back: verification.rs:98 compares the ends), and no start, message or
\* verification that began before takes the task back from it: it leaves its
\* gate for its delivery, or is paused, cancelled or failed.
GateIsVerified ==
    [][LET gate == "awaitingDeliveryApproval" IN
       /\ task' = gate /\ task \notin {gate, "paused"} =>
             \E v \in Verifiers :
                 verifier[v] = "checked" /\ verifier'[v] = "idle" /\ v \notin moved
       /\ task = gate => task' \in {gate, "completed", "paused", "cancelled", "failed"}]_vars

\* Completion against cancellation (interrupt): a job that a pause or cancel
\* settles as succeeded belongs to a turn whose end its app-server has reported,
\* however the answer to the interrupt, its timeout and that report are ordered.
\* (Its status may be interrupted or failed: persist_incoming ignores it.)
SucceededHasEnded ==
    \A g \in Generations :
        job[g] = "succeeded" => \E t \in Turns : home[t] = g /\ server[t] = "ended"

================================================================================
