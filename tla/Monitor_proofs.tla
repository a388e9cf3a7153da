------------------------------ MODULE Monitor_proofs ------------------------------
(***************************************************************************)
(* Proofs about Monitor, for any number of monitors, synchronizations,     *)
(* commits and changes of the pull request, and any budget.                *)
(***************************************************************************)
EXTENDS Monitor, TLAPS

\* What GitHub shows now is among what it has once shown.
HistoryInv ==
    /\ \A c \in Shas : "passing" \in checks[c] => c \in green
    /\ "approved" \in pull.reviews => approved

\* Evidence that GitHub has given: each part of it at some time, and the checks
\* for the very head that it names.
Given(e) ==
    /\ e.ci = "passing" => e.head \in green
    /\ e.review = "approved" => approved

\* What a synchronization has read and what is stored was given.
EvidenceInv ==
    /\ \A s \in Syncs : pc[s] # "idle" => Given(read[s])
    /\ snapshot # None => Given(snapshot)

EvidencedInv == TypeOK /\ HistoryInv /\ EvidenceInv /\ SuccessIsEvidenced

\* A success is undone only by the one interruption of the session, and a copy
\* it has loaded after a success is not at monitoring.
OneSuccessInv ==
    /\ TypeOK
    /\ OneSuccessMovesTask
    /\ undone \subseteq Succeeded
    /\ session => copy = None
    /\ session \/ copy # None => undone = {}
    /\ copy \in {"awaitingMergeApproval", "merging"} => Succeeded # undone

--------------------------------------------------------------------------------

\* A monitor succeeds only on evidence of a passing, approved and unmoved pull
\* request.
LEMMA SuccessNeedsEvidence ==
    ASSUME NEW r, NEW e, Verdict(r, e) = "succeeded"
    PROVE  r.head = e.head /\ e.ci = "passing" /\ e.review = "approved"
BY DEF Verdict, Moved

\* An observation gives a monitor a state and keeps it to its budget.
LEMMA ObservedType ==
    ASSUME NEW r \in MonitorRecord, NEW e
    PROVE  /\ Observed(r, e) \in MonitorRecord
           /\ Observed(r, e).head = r.head
           /\ Observed(r, e).state = Verdict(r, e)
<1>1. Verdict(r, e) \in MonitorState
  BY DEF Verdict, MonitorState
<1>2. Verdict(r, e) = "repairNeeded" => HasBudget(r)
  BY DEF Verdict
<1>3. r.repairs \in 0..Budget /\ (Verdict(r, e) = "repairNeeded" => r.repairs + 1 \in 0..Budget)
  BY <1>2, MonitorAssumption DEF HasBudget, MonitorRecord
<1>4. PICK n \in 0..Budget : Observed(r, e) = [r EXCEPT !.state = Verdict(r, e), !.repairs = n]
  BY <1>3 DEF Observed
<1> QED
  BY <1>1, <1>4 DEF MonitorRecord

--------------------------------------------------------------------------------

\* No step leaves the types.
LEMMA TypeStep == TypeOK /\ [Next]_vars => TypeOK'
<1> SUFFICES ASSUME TypeOK, [Next]_vars
             PROVE  TypeOK'
  OBVIOUS
<1> USE MonitorAssumption, NoneAssumption DEF TypeOK, githubVars, syncVars, taskVars, codexVars
<1>1. CASE Change
  <2>1. changes' \in 0..MaxChanges
    <3>1. changes < MaxChanges /\ changes' = changes + 1
      BY <1>1, Zenon DEF Change
    <3>2. changes \in 0..MaxChanges
      BY Zenon
    <3> HIDE DEF TypeOK
    <3> QED
      BY <3>1, <3>2
  <2>2. green' \subseteq Shas
    BY <1>1 DEF Change
  <2>3. approved' \in BOOLEAN
    BY <1>1 DEF Change
  <2>4. pull \in Pull
    BY Zenon
  <2>5. ASSUME NEW p \in Pull, NEW v \in Mergeable
        PROVE  [p EXCEPT !.mergeable = v] \in Pull
    BY DEF Pull
  <2>6. ASSUME NEW v \in SUBSET Verdicts
        PROVE  [pull EXCEPT !.reviews = v] \in Pull
    BY <2>4 DEF Pull
  <2>7. ASSUME NEW sha \in Shas
        PROVE  [pull EXCEPT !.head = sha] \in Pull /\ [pull EXCEPT !.base = sha] \in Pull
    BY <2>4 DEF Pull
  <2>8. pull' \in Pull
    <3>1. ASSUME NEW sha \in Shas,
                 NEW moved \in {[pull EXCEPT !.head = sha], [pull EXCEPT !.base = sha]},
                 pull' = [moved EXCEPT !.mergeable = "unknown"]
          PROVE  pull' \in Pull
      <4>1. moved \in Pull
        BY <2>7, Zenon
      <4>2. [moved EXCEPT !.mergeable = "unknown"] \in Pull
        BY <2>5, <4>1 DEF Mergeable
      <4> HIDE DEF TypeOK
      <4> QED
        BY <3>1, <4>2, Zenon
    <3>2. ASSUME NEW v \in Mergeable, pull' = [pull EXCEPT !.mergeable = v]
          PROVE  pull' \in Pull
      <4>1. [pull EXCEPT !.mergeable = v] \in Pull
        BY <2>4, <2>5
      <4> QED
        BY <3>2, <4>1
    <3>3. ASSUME NEW v \in SUBSET Verdicts, pull' = [pull EXCEPT !.reviews = v]
          PROVE  pull' \in Pull
      <4>1. [pull EXCEPT !.reviews = v] \in Pull
        BY <2>6
      <4> QED
        BY <3>3, <4>1
    <3>4. CASE UNCHANGED pull
      BY <2>4, <3>4
    <3> QED
      BY <1>1, <3>1, <3>2, <3>3, <3>4, Zenon DEF Change
  <2>9. checks' \in [Shas -> SUBSET RunOutcome]
    BY <1>1 DEF Change
  <2> QED
    BY <1>1, <2>1, <2>2, <2>3, <2>8, <2>9 DEF Change
<1>2. ASSUME NEW s \in Syncs, ReadDetail(s)
      PROVE  TypeOK'
  BY <1>2 DEF ReadDetail, Evidence, Pull
<1>3. ASSUME NEW s \in Syncs, ReadReviews(s)
      PROVE  TypeOK'
  BY <1>3 DEF ReadReviews, review_decision, Decision, Evidence, Pull
<1>4. ASSUME NEW s \in Syncs, ReadChecks(s)
      PROVE  TypeOK'
  BY <1>4 DEF ReadChecks, ci_health, Health, Evidence, CheckedCommit
<1>5. ASSUME NEW s \in Syncs, SyncFails(s)
      PROVE  TypeOK'
  BY <1>5 DEF SyncFails
<1>6. ASSUME NEW s \in Syncs, StoreSnapshot(s)
      PROVE  TypeOK'
  BY <1>6 DEF StoreSnapshot
<1>7. CASE SnapshotAges
  BY <1>7 DEF SnapshotAges
<1>8. ASSUME NEW m \in Monitors, Start(m)
      PROVE  TypeOK'
  BY <1>8 DEF Start, Evidence, MonitorRecord, MonitorState
<1>9. ASSUME NEW m \in Monitors, Observe(m)
      PROVE  TypeOK'
  <2>1. monitor[m] \in MonitorRecord
    BY <1>9 DEF Observe
  <2> DEFINE o == Observed(monitor[m], snapshot)
  <2>2. o \in MonitorRecord
    BY <2>1, ObservedType
  <2> HIDE DEF o
  <2>3. monitor' = monitor \/ monitor' = [monitor EXCEPT ![m] = o]
    BY <1>9 DEF Observe, o
  <2>4. monitor' \in [Monitors -> MonitorRecord \cup {None}]
    BY <2>2, <2>3
  <2>5. task' = task \/ (task = "monitoring" /\ task' = "awaitingMergeApproval")
    BY <1>9 DEF Observe, MaySucceed
  <2>6. UNCHANGED <<githubVars, syncVars, snapshot, previous, codexVars>>
    BY <1>9 DEF Observe
  <2>7. approval' \in {"none", "live", "dead"}
    BY <1>9 DEF Observe
  <2> QED
    BY <2>4, <2>5, <2>6, <2>7 DEF Stage, Interrupted
<1>10. ASSUME NEW m \in Monitors, Cancel(m)
      PROVE  TypeOK'
  BY <1>10 DEF Cancel, MonitorRecord, MonitorState
<1>11. CASE ApproveMerge
  BY <1>11 DEF ApproveMerge
<1>12. CASE Merge
  BY <1>12 DEF Merge, Stage, Interrupted
<1>13. CASE InterruptLoad
  BY <1>13 DEF InterruptLoad, Interrupted
<1>14. CASE InterruptSave
  <2>1. \/ copy \in Stage /\ task' \in Interrupted /\ previous' = copy
        \/ UNCHANGED <<task, previous>>
    BY <1>14 DEF InterruptSave, CanInterrupt, Interruptions, Interrupted
  <2>2. undone' \subseteq Monitors
    BY <1>14 DEF InterruptSave, Succeeded
  <2> QED
    BY <1>14, <2>1, <2>2 DEF InterruptSave
<1>15. CASE Resume
  BY <1>15 DEF Resume, Interrupted, Stage
<1>16. CASE UNCHANGED vars
  BY <1>16 DEF vars
<1> QED
  BY <1>1, <1>2, <1>3, <1>4, <1>5, <1>6, <1>7,
     <1>8, <1>9, <1>10, <1>11, <1>12, <1>13, <1>14, <1>15, <1>16 DEF Next

--------------------------------------------------------------------------------

\* GitHub keeps its history.
LEMMA HistoryStep == TypeOK /\ HistoryInv /\ [Next]_vars => HistoryInv'
<1> SUFFICES ASSUME TypeOK, HistoryInv, [Next]_vars
             PROVE  HistoryInv'
  OBVIOUS
<1> USE DEF HistoryInv, githubVars, syncVars, taskVars, codexVars
<1>1. CASE Change
  BY <1>1 DEF Change, TypeOK
<1>2. ASSUME NEW s \in Syncs, ReadDetail(s)
      PROVE  HistoryInv'
  BY <1>2 DEF ReadDetail
<1>3. ASSUME NEW s \in Syncs, ReadReviews(s)
      PROVE  HistoryInv'
  BY <1>3 DEF ReadReviews
<1>4. ASSUME NEW s \in Syncs, ReadChecks(s)
      PROVE  HistoryInv'
  BY <1>4 DEF ReadChecks
<1>5. ASSUME NEW s \in Syncs, SyncFails(s)
      PROVE  HistoryInv'
  BY <1>5 DEF SyncFails
<1>6. ASSUME NEW s \in Syncs, StoreSnapshot(s)
      PROVE  HistoryInv'
  BY <1>6 DEF StoreSnapshot
<1>7. CASE SnapshotAges
  BY <1>7 DEF SnapshotAges
<1>8. ASSUME NEW m \in Monitors, Start(m)
      PROVE  HistoryInv'
  BY <1>8 DEF Start
<1>9. ASSUME NEW m \in Monitors, Observe(m)
      PROVE  HistoryInv'
  BY <1>9 DEF Observe
<1>10. ASSUME NEW m \in Monitors, Cancel(m)
      PROVE  HistoryInv'
  BY <1>10 DEF Cancel
<1>11. CASE ApproveMerge
  BY <1>11 DEF ApproveMerge
<1>12. CASE Merge
  BY <1>12 DEF Merge
<1>13. CASE InterruptLoad
  BY <1>13 DEF InterruptLoad
<1>14. CASE InterruptSave
  BY <1>14 DEF InterruptSave
<1>15. CASE Resume
  BY <1>15 DEF Resume
<1>16. CASE UNCHANGED vars
  BY <1>16 DEF vars
<1> QED
  BY <1>1, <1>2, <1>3, <1>4, <1>5, <1>6, <1>7,
     <1>8, <1>9, <1>10, <1>11, <1>12, <1>13, <1>14, <1>15, <1>16 DEF Next

\* History only grows.
LEMMA HistoryGrows ==
    [Next]_vars => green \subseteq green' /\ (approved => approved')
<1> SUFFICES ASSUME [Next]_vars
             PROVE  green \subseteq green' /\ (approved => approved')
  OBVIOUS
<1> USE DEF githubVars, syncVars, taskVars, codexVars
<1>1. CASE Change
  BY <1>1 DEF Change
<1>2. ASSUME NEW s \in Syncs, ReadDetail(s)
      PROVE  green \subseteq green' /\ (approved => approved')
  BY <1>2 DEF ReadDetail
<1>3. ASSUME NEW s \in Syncs, ReadReviews(s)
      PROVE  green \subseteq green' /\ (approved => approved')
  BY <1>3 DEF ReadReviews
<1>4. ASSUME NEW s \in Syncs, ReadChecks(s)
      PROVE  green \subseteq green' /\ (approved => approved')
  BY <1>4 DEF ReadChecks
<1>5. ASSUME NEW s \in Syncs, SyncFails(s)
      PROVE  green \subseteq green' /\ (approved => approved')
  BY <1>5 DEF SyncFails
<1>6. ASSUME NEW s \in Syncs, StoreSnapshot(s)
      PROVE  green \subseteq green' /\ (approved => approved')
  BY <1>6 DEF StoreSnapshot
<1>7. CASE SnapshotAges
  BY <1>7 DEF SnapshotAges
<1>8. ASSUME NEW m \in Monitors, Start(m)
      PROVE  green \subseteq green' /\ (approved => approved')
  BY <1>8 DEF Start
<1>9. ASSUME NEW m \in Monitors, Observe(m)
      PROVE  green \subseteq green' /\ (approved => approved')
  BY <1>9 DEF Observe
<1>10. ASSUME NEW m \in Monitors, Cancel(m)
      PROVE  green \subseteq green' /\ (approved => approved')
  BY <1>10 DEF Cancel
<1>11. CASE ApproveMerge
  BY <1>11 DEF ApproveMerge
<1>12. CASE Merge
  BY <1>12 DEF Merge
<1>13. CASE InterruptLoad
  BY <1>13 DEF InterruptLoad
<1>14. CASE InterruptSave
  BY <1>14 DEF InterruptSave
<1>15. CASE Resume
  BY <1>15 DEF Resume
<1>16. CASE UNCHANGED vars
  BY <1>16 DEF vars
<1> QED
  BY <1>1, <1>2, <1>3, <1>4, <1>5, <1>6, <1>7,
     <1>8, <1>9, <1>10, <1>11, <1>12, <1>13, <1>14, <1>15, <1>16 DEF Next

\* What is read was given: the reviews and the checks when they are read, and
\* the checks are those of the head that the detail named.
LEMMA EvidenceStep == TypeOK /\ HistoryInv /\ EvidenceInv /\ [Next]_vars => EvidenceInv'
<1> SUFFICES ASSUME TypeOK, HistoryInv, EvidenceInv, [Next]_vars
             PROVE  EvidenceInv'
  OBVIOUS
<1>0. green \subseteq green' /\ (approved => approved')
  BY HistoryGrows
<1> USE <1>0, NoneAssumption DEF EvidenceInv, Given, TypeOK,
          githubVars, syncVars, taskVars, codexVars
<1>1. CASE Change
  BY <1>1 DEF Change
<1>2. ASSUME NEW s \in Syncs, ReadDetail(s)
      PROVE  EvidenceInv'
  BY <1>2 DEF ReadDetail, Decision, Health
<1>3. ASSUME NEW s \in Syncs, ReadReviews(s)
      PROVE  EvidenceInv'
  BY <1>3 DEF ReadReviews, review_decision, Evidence, HistoryInv
<1>4. ASSUME NEW s \in Syncs, ReadChecks(s)
      PROVE  EvidenceInv'
  BY <1>4 DEF ReadChecks, ci_health, RunOutcome, Evidence, HistoryInv, CheckedCommit
<1>5. ASSUME NEW s \in Syncs, SyncFails(s)
      PROVE  EvidenceInv'
  BY <1>5 DEF SyncFails
<1>6. ASSUME NEW s \in Syncs, StoreSnapshot(s)
      PROVE  EvidenceInv'
  BY <1>6 DEF StoreSnapshot
<1>7. CASE SnapshotAges
  BY <1>7 DEF SnapshotAges
<1>8. ASSUME NEW m \in Monitors, Start(m)
      PROVE  EvidenceInv'
  BY <1>8 DEF Start
<1>9. ASSUME NEW m \in Monitors, Observe(m)
      PROVE  EvidenceInv'
  BY <1>9 DEF Observe
<1>10. ASSUME NEW m \in Monitors, Cancel(m)
      PROVE  EvidenceInv'
  BY <1>10 DEF Cancel
<1>11. CASE ApproveMerge
  BY <1>11 DEF ApproveMerge
<1>12. CASE Merge
  BY <1>12 DEF Merge
<1>13. CASE InterruptLoad
  BY <1>13 DEF InterruptLoad
<1>14. CASE InterruptSave
  BY <1>14 DEF InterruptSave
<1>15. CASE Resume
  BY <1>15 DEF Resume
<1>16. CASE UNCHANGED vars
  BY <1>16 DEF vars
<1> QED
  BY <1>1, <1>2, <1>3, <1>4, <1>5, <1>6, <1>7,
     <1>8, <1>9, <1>10, <1>11, <1>12, <1>13, <1>14, <1>15, <1>16 DEF Next

\* A monitor that succeeds has the head of the snapshot.
LEMMA EvidencedStep == EvidencedInv /\ [Next]_vars => SuccessIsEvidenced'
<1> SUFFICES ASSUME EvidencedInv, [Next]_vars
             PROVE  SuccessIsEvidenced'
  OBVIOUS
<1>0. green \subseteq green' /\ (approved => approved')
  BY HistoryGrows
<1> USE <1>0 DEF EvidencedInv, SuccessIsEvidenced, Succeeded, TypeOK,
          githubVars, syncVars, taskVars, codexVars
<1>1. CASE Change
  BY <1>1 DEF Change
<1>2. ASSUME NEW s \in Syncs, ReadDetail(s)
      PROVE  SuccessIsEvidenced'
  BY <1>2 DEF ReadDetail
<1>3. ASSUME NEW s \in Syncs, ReadReviews(s)
      PROVE  SuccessIsEvidenced'
  BY <1>3 DEF ReadReviews
<1>4. ASSUME NEW s \in Syncs, ReadChecks(s)
      PROVE  SuccessIsEvidenced'
  BY <1>4 DEF ReadChecks
<1>5. ASSUME NEW s \in Syncs, SyncFails(s)
      PROVE  SuccessIsEvidenced'
  BY <1>5 DEF SyncFails
<1>6. ASSUME NEW s \in Syncs, StoreSnapshot(s)
      PROVE  SuccessIsEvidenced'
  BY <1>6 DEF StoreSnapshot
<1>7. CASE SnapshotAges
  BY <1>7 DEF SnapshotAges
<1>8. ASSUME NEW m \in Monitors, Start(m)
      PROVE  SuccessIsEvidenced'
  BY <1>8 DEF Start
<1>9. ASSUME NEW m \in Monitors, Observe(m)
      PROVE  SuccessIsEvidenced'
  BY <1>9, SuccessNeedsEvidence, ObservedType DEF Observe, EvidenceInv, Given
<1>10. ASSUME NEW m \in Monitors, Cancel(m)
      PROVE  SuccessIsEvidenced'
  BY <1>10 DEF Cancel, MonitorRecord
<1>11. CASE ApproveMerge
  BY <1>11 DEF ApproveMerge
<1>12. CASE Merge
  BY <1>12 DEF Merge
<1>13. CASE InterruptLoad
  BY <1>13 DEF InterruptLoad
<1>14. CASE InterruptSave
  BY <1>14 DEF InterruptSave
<1>15. CASE Resume
  BY <1>15 DEF Resume
<1>16. CASE UNCHANGED vars
  BY <1>16 DEF vars
<1> QED
  BY <1>1, <1>2, <1>3, <1>4, <1>5, <1>6, <1>7,
     <1>8, <1>9, <1>10, <1>11, <1>12, <1>13, <1>14, <1>15, <1>16 DEF Next

\* Only the observation of a task in monitoring adds a success, and it moves the
\* task; only the save of a copy loaded before takes it back.
LEMMA OneSuccessStep == OneSuccessInv /\ [Next]_vars => OneSuccessInv'
<1> SUFFICES ASSUME OneSuccessInv, [Next]_vars
             PROVE  OneSuccessInv'
  OBVIOUS
<1>0. TypeOK'
  BY TypeStep DEF OneSuccessInv
<1> USE <1>0, NoneAssumption DEF OneSuccessInv, OneSuccessMovesTask, Underlying, Succeeded, TypeOK,
          githubVars, syncVars, taskVars, codexVars
<1>1. CASE Change
  <2>1. UNCHANGED <<monitor, task, previous, session, copy, undone>>
    BY <1>1, Zenon DEF Change
  <2> HIDE DEF TypeOK
  <2> QED
    BY <2>1, <1>0
<1>2. ASSUME NEW s \in Syncs, ReadDetail(s)
      PROVE  OneSuccessInv'
  BY <1>2 DEF ReadDetail
<1>3. ASSUME NEW s \in Syncs, ReadReviews(s)
      PROVE  OneSuccessInv'
  BY <1>3 DEF ReadReviews
<1>4. ASSUME NEW s \in Syncs, ReadChecks(s)
      PROVE  OneSuccessInv'
  BY <1>4 DEF ReadChecks
<1>5. ASSUME NEW s \in Syncs, SyncFails(s)
      PROVE  OneSuccessInv'
  BY <1>5 DEF SyncFails
<1>6. ASSUME NEW s \in Syncs, StoreSnapshot(s)
      PROVE  OneSuccessInv'
  BY <1>6 DEF StoreSnapshot
<1>7. CASE SnapshotAges
  BY <1>7 DEF SnapshotAges
<1>8. ASSUME NEW m \in Monitors, Start(m)
      PROVE  OneSuccessInv'
  BY <1>8 DEF Start
<1>9. ASSUME NEW m \in Monitors, Observe(m)
      PROVE  OneSuccessInv'
  <2>1. monitor[m] \in MonitorRecord
    BY <1>9 DEF Observe
  <2>2. monitor[m].state # "succeeded"
    BY <1>9 DEF Observe, TerminalMonitor
  <2> DEFINE o == Observed(monitor[m], snapshot)
  <2>3. o \in MonitorRecord /\ o.state = Verdict(monitor[m], snapshot)
    BY <2>1, ObservedType
  <2>4. CASE UNCHANGED <<monitor, task>>
    BY <1>9, <2>4 DEF Observe
  <2>5. CASE /\ monitor' = [monitor EXCEPT ![m] = o]
             /\ Verdict(monitor[m], snapshot) = "succeeded"
             /\ task = "monitoring"
             /\ task' = "awaitingMergeApproval"
    <3>1. Succeeded = undone /\ m \notin Succeeded
      BY <2>2, <2>5 DEF Interrupted
    <3> HIDE DEF o
    <3>2. Succeeded' = Succeeded \cup {m}
      BY <2>1, <2>3, <2>5, <3>1, NoneAssumption
    <3>3. UNCHANGED <<previous, undone, copy, session>>
      BY <1>9 DEF Observe
    <3>4. Underlying' = "awaitingMergeApproval"
      BY <2>5 DEF Interrupted
    <3> HIDE DEF Succeeded, Underlying, TypeOK
    <3> QED
      BY <1>0, <2>5, <3>1, <3>2, <3>3, <3>4
  <2>6. CASE /\ monitor' = [monitor EXCEPT ![m] = o]
             /\ Verdict(monitor[m], snapshot) # "succeeded"
             /\ UNCHANGED <<task, previous>>
    <3> HIDE DEF o
    <3>1. Succeeded' = Succeeded
      BY <2>1, <2>2, <2>3, <2>6, NoneAssumption
    <3>2. UNCHANGED <<undone, copy, session>>
      BY <1>9 DEF Observe
    <3>3. Underlying' = Underlying
      BY <2>6
    <3> HIDE DEF Succeeded, Underlying, TypeOK
    <3> QED
      BY <1>0, <2>6, <3>1, <3>2, <3>3
  <2> QED
    BY <1>9, <2>4, <2>5, <2>6 DEF Observe, MaySucceed
<1>10. ASSUME NEW m \in Monitors, Cancel(m)
      PROVE  OneSuccessInv'
  BY <1>10 DEF Cancel, MonitorRecord, TerminalMonitor
<1>11. CASE ApproveMerge
  BY <1>11 DEF ApproveMerge
<1>12. CASE Merge
  BY <1>12 DEF Merge, Stage
<1>13. CASE InterruptLoad
  BY <1>13 DEF InterruptLoad, Interrupted
<1>14. CASE InterruptSave
  BY <1>14 DEF InterruptSave, CanInterrupt, Interruptions, Interrupted, Stage, Terminal
<1>15. CASE Resume
  BY <1>15 DEF Resume, Interrupted, Stage
<1>16. CASE UNCHANGED vars
  BY <1>16 DEF vars
<1> QED
  BY <1>1, <1>2, <1>3, <1>4, <1>5, <1>6, <1>7,
     <1>8, <1>9, <1>10, <1>11, <1>12, <1>13, <1>14, <1>15, <1>16 DEF Next

--------------------------------------------------------------------------------

\* No monitor has been started and nothing has been read.
LEMMA MonitorInit == Init => EvidencedInv /\ OneSuccessInv
<1> SUFFICES ASSUME Init
             PROVE  EvidencedInv /\ OneSuccessInv
  OBVIOUS
<1>1. TypeOK
  <2>1. changes \in 0..MaxChanges /\ green \subseteq Shas /\ approved \in BOOLEAN
    BY MonitorAssumption DEF Init
  <2>2. previous = None <=> task \notin Interrupted
    BY DEF Init, Interrupted
  <2> QED
    BY <2>1, <2>2 DEF Init, TypeOK, Stage
<1>2. HistoryInv
  BY DEF Init, HistoryInv
<1>3. EvidenceInv
  BY DEF Init, EvidenceInv
<1>4. SuccessIsEvidenced
  BY DEF Init, SuccessIsEvidenced, Succeeded
<1>5. OneSuccessMovesTask
  BY DEF Init, OneSuccessMovesTask, Underlying, Succeeded, Interrupted
<1>6. OneSuccessInv
  BY <1>1, <1>5, NoneAssumption DEF Init, OneSuccessInv, Stage
<1> QED
  BY <1>1, <1>2, <1>3, <1>4, <1>6 DEF EvidencedInv

LEMMA MonitorInvariant == Spec => [](EvidencedInv /\ OneSuccessInv)
<1>1. EvidencedInv /\ OneSuccessInv /\ [Next]_vars => (EvidencedInv /\ OneSuccessInv)'
  BY TypeStep, HistoryStep, EvidenceStep, EvidencedStep, OneSuccessStep
  DEF EvidencedInv, OneSuccessInv
<1> QED
  BY <1>1, MonitorInit, PTL DEF Spec

\* Every variable keeps its type; above all a monitor spends no more repairs
\* than its budget.
THEOREM TypeCorrect == Spec => []TypeOK
<1>1. EvidencedInv => TypeOK
  BY DEF EvidencedInv
<1> QED
  BY <1>1, MonitorInvariant, PTL

\* rpc.rs:894: of any number of monitors of a task, one succeeds and moves it,
\* and the others are refused, however it is merged, reconciled and resumed; a
\* second one succeeds only where the save of an interruption has undone the
\* success of the first, and a third one never.
THEOREM OneMonitorSucceeds == Spec => []OneSuccessMovesTask
<1>1. OneSuccessInv => OneSuccessMovesTask
  BY DEF OneSuccessInv
<1> QED
  BY <1>1, MonitorInvariant, PTL

\* MonitorRecord::observe on snapshots of cut lists that are read in several
\* requests, while the pull request moves, and stored in any order: a check run
\* of the monitor's commit had passed and an approving review had been given.
THEOREM SuccessHasEvidence == Spec => []SuccessIsEvidenced
<1>1. EvidencedInv => SuccessIsEvidenced
  BY DEF EvidencedInv
<1> QED
  BY <1>1, MonitorInvariant, PTL
================================================================================
