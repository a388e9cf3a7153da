--------------------------- MODULE Preparation_proofs ---------------------------
(***************************************************************************)
(* Preparation, for every set of tasks, callers and approvals: types, the  *)
(* exclusion that the claims provide, the freshness of the copy that       *)
(* task.prepare stores, and what the claims and the worktree of a prepared *)
(* task say.                                                               *)
(***************************************************************************)
EXTENDS Preparation, TLAPS

LEMMA ApprovalFields == \A ap \in Approvals : ap.task \in Tasks
  BY PreparationAssumption

LEMMA NotNone == /\ None \notin Tasks
                 /\ None \notin Callers
                 /\ None \notin Approvals
  BY PreparationAssumption

\* The names of the states this module uses.
LEMMA StateNames ==
    {"discovered", "assessing", "planned", "preparing", Gate} \subseteq TaskState
  BY DEF TaskState, Gates, Gate

\* Every step keeps the types.
LEMMA TypeStep == TypeOK /\ [Next]_vars => TypeOK'
<1> SUFFICES ASSUME TypeOK, [Next]_vars
             PROVE  TypeOK'
  OBVIOUS
<1> USE NotNone, ApprovalFields
<1>1. ASSUME NEW c \in Callers, NEW t \in Tasks, PlanLoad(c, t)
      PROVE  TypeOK'
  BY <1>1 DEF PlanLoad, Goto, storeVars, diskVars, TypeOK, Location, Planner, Preparer, Cloning
<1>2. ASSUME NEW c \in Callers, Assess(c)
      PROVE  TypeOK'
  BY <1>2 DEF Assess, Goto, storeVars, diskVars, TypeOK, Location, Planner, Preparer
<1>3. ASSUME NEW c \in Callers, PlanLock(c)
      PROVE  TypeOK'
  BY <1>3 DEF PlanLock, Goto, Return, diskVars, TypeOK, Location, Planner, Preparer
<1>4. ASSUME NEW c \in Callers, PlanCommit(c)
      PROVE  TypeOK'
  <2>1. PICK save \in PlanSaves :
           /\ pc[c] = save[1]
           /\ state' = [state EXCEPT ![job[c]] = save[2]]
           /\ IF save[3] = "idle"
              THEN holder' = None /\ Return(c)
              ELSE Goto(c, save[3]) /\ UNCHANGED <<holder, job, using>>
           /\ UNCHANGED <<contract, status, claim, diskVars>>
    BY <1>4 DEF PlanCommit
  <2>2. /\ save[2] \in TaskState
        /\ save[3] \in Location /\ save[3] \notin Preparer
    BY StateNames DEF PlanSaves, Location, Planner, Preparer
  <2>3. state' \in [Tasks -> TaskState]
    BY <2>1, <2>2 DEF TypeOK
  <2>4. pc[c] # "idle" /\ using[c] = None
    BY <2>1 DEF PlanSaves, Planner, TypeOK
  <2>5. CASE save[3] = "idle"
    BY <2>1, <2>3, <2>5 DEF Return, Goto, diskVars, TypeOK, Location, Planner, Preparer
  <2>6. CASE save[3] # "idle"
    BY <2>1, <2>2, <2>3, <2>4, <2>6 DEF Goto, diskVars, TypeOK
  <2> QED
    BY <2>5, <2>6
<1>5. ASSUME NEW c \in Callers, LookAtSource(c) \/ GiveUp(c) \/ CheckDestination(c)
      PROVE  TypeOK'
  BY <1>5 DEF LookAtSource, GiveUp, CheckDestination, Goto, Return, Fail, storeVars,
              diskVars, TypeOK, Location, Planner, Preparer, Cloning
<1>6. ASSUME NEW c \in Callers, StartClone(c) \/ CloneDone(c) \/ CloneBreaks(c)
      PROVE  TypeOK'
  BY <1>6 DEF StartClone, CloneDone, CloneBreaks, Goto, storeVars, TypeOK, Location, Planner, Preparer,
              Cloning, CloneState
<1>7. ASSUME NEW c \in Callers, RemoveClone(c)
      PROVE  TypeOK'
  <2>1. tree' \in [Tasks -> TreeState]
    BY <1>7 DEF RemoveClone, Orphaned, TreeState, TypeOK
  <2> QED
    BY <1>7, <2>1 DEF RemoveClone, Goto, Return, Fail, storeVars, TypeOK, Location, Planner, Preparer,
                      Cloning, CloneState
<1>8. ASSUME NEW ap \in Approvals, Approve(ap) \/ Expire(ap)
      PROVE  TypeOK'
  BY <1>8 DEF Approve, Expire, diskVars, TypeOK
<1>9. ASSUME NEW c \in Callers, NEW ap \in Approvals, Authorize(c, ap)
      PROVE  TypeOK'
  BY <1>9 DEF Authorize, Goto, diskVars, TypeOK, Location, Planner, Preparer, ClaimState
<1>10. ASSUME NEW c \in Callers, PrepareLoad(c) \/ InspectTree(c)
       PROVE  TypeOK'
  BY <1>10 DEF PrepareLoad, InspectTree, Goto, Return, Fail, storeVars, diskVars,
               TypeOK, Location, Planner, Preparer, Cloning
<1>11. ASSUME NEW c \in Callers, AddTree(c) \/ TreeAdded(c)
       PROVE  TypeOK'
  BY <1>11 DEF AddTree, TreeAdded, Goto, storeVars, TypeOK, Location, Planner, Preparer, TreeState
<1>12. ASSUME NEW c \in Callers, TreeBreaks(c)
       PROVE  TypeOK'
  <2>1. job[c] \in Tasks
    BY <1>12 DEF TreeBreaks, TypeOK
  <2>2. tree' \in [Tasks -> TreeState]
    BY <1>12, <2>1 DEF TreeBreaks, TreeState, TypeOK
  <2> QED
    BY <1>12, <2>2 DEF TreeBreaks, Goto, storeVars, TypeOK, Location, Planner, Preparer
<1>13. ASSUME NEW c \in Callers, Save(c)
       PROVE  TypeOK'
  BY <1>13, StateNames DEF Save, Goto, diskVars, TypeOK, Location, Planner, Preparer
<1>14. ASSUME NEW c \in Callers, Complete(c)
       PROVE  TypeOK'
  BY <1>14 DEF Complete, Goto, Return, diskVars, TypeOK, Location, Planner, Preparer, ClaimState
<1>15. CASE Restart
  BY <1>15 DEF Restart, Recovered, TypeOK, Location, Planner, Preparer, ClaimState, CloneState
<1>16. CASE UNCHANGED vars
  BY <1>16 DEF vars, storeVars, diskVars, TypeOK
<1> QED
  BY <1>1, <1>2, <1>3, <1>4, <1>5, <1>6, <1>7, <1>8, <1>9, <1>10, <1>11, <1>12,
     <1>13, <1>14, <1>15, <1>16 DEF Next, Plan, Source, Prepare

LEMMA TypeInit == Init => TypeOK
<1> SUFFICES ASSUME Init PROVE TypeOK
  OBVIOUS
<1> USE NotNone DEF Init
<1>1. state \in [Tasks -> TaskState] /\ contract \subseteq Tasks
  BY StateNames
<1>2. /\ status \in [Approvals -> {"unissued", "live", "dead"}]
      /\ claim \in [Approvals -> ClaimState]
      /\ holder \in Callers \cup {None}
  BY DEF ClaimState
<1>3. /\ pc \in [Callers -> Location]
      /\ job \in [Callers -> Tasks \cup {None}]
      /\ using \in [Callers -> Approvals \cup {None}]
  BY DEF Location
<1>4. /\ clone \in CloneState /\ cloner \in Callers \cup {None}
      /\ tree \in [Tasks -> TreeState] /\ lost \in BOOLEAN
  BY DEF CloneState, TreeState
<1>5. \A c \in Callers : pc[c] = "idle" /\ job[c] = None /\ using[c] = None
  OBVIOUS
<1> QED
  BY <1>1, <1>2, <1>3, <1>4, <1>5 DEF TypeOK, Planner, Preparer

\* The store, the callers and the disk hold the values the code gives them.
THEOREM TypeCorrect == Spec => []TypeOK
  BY TypeInit, TypeStep, PTL DEF Spec

--------------------------------------------------------------------------------
(* What a step may do to the callers *)

\* A call that has loaded the copy of the task it will store.
Loaded(c) == Prepares(c) /\ pc[c] \notin {"claimed", "saved", "failing"}

Saves == {"saveAssessing", "savePlanned", "saveGate"}

\* What a planning call finds in the store before each save.
Before(l) ==
    CASE l = "saveAssessing" -> "discovered"
      [] l = "savePlanned" -> "assessing"
      [] l = "saveGate" -> "planned"

\* Between its saves a planning call holds the lock and the task is as it
\* left it.
CommitInv ==
    \A c \in Callers : pc[c] \in Saves =>
        holder = c /\ state[job[c]] = Before(pc[c])

\* The steps that touch neither the store nor its lock.
Quiet(c) ==
    \/ \E t \in Tasks : PlanLoad(c, t)
    \/ Assess(c) \/ Source(c)
    \/ InspectTree(c) \/ AddTree(c) \/ TreeAdded(c) \/ TreeBreaks(c)

\* A caller enters no section that depends on the store.
Stays(d) ==
    /\ pc'[d] \in Saves => pc'[d] = pc[d] /\ job'[d] = job[d] /\ using'[d] = using[d]
    /\ Prepares(d)' => Prepares(d) /\ job'[d] = job[d] /\ using'[d] = using[d]
    /\ Loaded(d)' => Loaded(d)
    /\ pc'[d] = "saved" => pc[d] = "saved"
    /\ pc[d] = "saved" => pc'[d] = "saved" /\ job'[d] = job[d] /\ using'[d] = using[d]

LEMMA QuietStep ==
    ASSUME TypeOK, NEW c \in Callers, Quiet(c)
    PROVE  /\ UNCHANGED <<state, contract, claim, holder>>
           /\ \A d \in Callers : Stays(d)
<1>1. \A d \in Callers \ {c} :
         /\ pc'[d] = pc[d]
         /\ job'[d] = job[d]
         /\ using'[d] = using[d]
  BY DEF Quiet, PlanLoad, Assess, Source, LookAtSource, GiveUp, CheckDestination,
         StartClone, CloneDone, CloneBreaks, RemoveClone, InspectTree, AddTree,
         TreeAdded, TreeBreaks, Goto, Return, Fail, TypeOK
<1>2. UNCHANGED <<state, contract, claim, holder>>
  BY DEF Quiet, PlanLoad, Assess, Source, LookAtSource, GiveUp, CheckDestination,
         StartClone, CloneDone, CloneBreaks, RemoveClone, InspectTree, AddTree,
         TreeAdded, TreeBreaks, storeVars
<1>3. Stays(c)
  <2>1. CASE \E t \in Tasks : PlanLoad(c, t)
    <3>1. pc[c] = "idle" /\ pc'[c] = "source" /\ using'[c] = None
      BY <2>1, NotNone, ApprovalFields DEF PlanLoad, Goto, TypeOK
    <3> QED
      BY <3>1 DEF Stays, Prepares, Loaded, Saves
  <2>2. CASE Assess(c)
    <3>1. /\ pc[c] = "ready" /\ pc'[c] = "assessed"
          /\ using'[c] = None
      BY <2>2 DEF Assess, Goto, TypeOK
    <3> QED
      BY <3>1 DEF Stays, Prepares, Loaded, Saves
  <2>3. CASE Source(c) \/ InspectTree(c) \/ AddTree(c) \/ TreeAdded(c) \/ TreeBreaks(c)
    <3>1. pc[c] \in Cloning \cup {"adding"}
      BY <2>3 DEF Source, LookAtSource, GiveUp, CheckDestination, StartClone, CloneDone,
                  CloneBreaks, RemoveClone, InspectTree, AddTree, TreeAdded, TreeBreaks,
                  Cloning
    <3>2. \/ /\ pc'[c] \in Cloning \cup {"adding", "save", "failing"}
             /\ job'[c] = job[c]
             /\ using'[c] = using[c]
          \/ pc'[c] = "idle"
      BY <2>3 DEF Source, LookAtSource, GiveUp, CheckDestination, StartClone, CloneDone,
                  CloneBreaks, RemoveClone, InspectTree, AddTree, TreeAdded, TreeBreaks,
                  Goto, Return, Fail, Cloning, TypeOK
    <3> QED
      BY <3>1, <3>2 DEF Stays, Prepares, Loaded, Saves, Cloning
  <2> QED
    BY <2>1, <2>2, <2>3 DEF Quiet
<1> QED
  BY <1>1, <1>2, <1>3 DEF Stays, Prepares, Loaded

\* The steps that do touch the store, and Restart.
LEMMA NextCases ==
    ASSUME TypeOK, [Next]_vars
    PROVE  \/ \E c \in Callers : \/ Quiet(c) \/ PlanLock(c) \/ PlanCommit(c)
                                 \/ PrepareLoad(c) \/ Save(c) \/ Complete(c)
                                 \/ \E ap \in Approvals : Authorize(c, ap)
           \/ Restart
           \/ UNCHANGED <<state, contract, claim, holder, pc, job, using, diskVars>>
  BY DEF Next, Plan, Source, Prepare, Quiet, Approve, Expire, vars, storeVars

--------------------------------------------------------------------------------
(* The claims exclude each other *)

LEMMA ExclusiveStep ==
    TypeOK /\ PreparationIsExclusive /\ [Next]_vars => PreparationIsExclusive'
<1> SUFFICES ASSUME TypeOK, PreparationIsExclusive, [Next]_vars
             PROVE  PreparationIsExclusive'
  OBVIOUS
\* Most steps make no claim and let nobody in.
<1>1. ASSUME claim' = claim,
             \A d \in Callers : Prepares(d)' =>
                 Prepares(d) /\ job'[d] = job[d] /\ using'[d] = using[d]
      PROVE  PreparationIsExclusive'
  BY <1>1 DEF PreparationIsExclusive
<1>2. ASSUME NEW c \in Callers, Quiet(c)
      PROVE  PreparationIsExclusive'
  BY <1>1, <1>2, QuietStep DEF Stays
<1>3. ASSUME NEW c \in Callers, PlanLock(c) \/ PrepareLoad(c) \/ Save(c)
      PROVE  PreparationIsExclusive'
  BY <1>1, <1>3 DEF PlanLock, PrepareLoad, Save, Goto, Return, Fail, Prepares, storeVars,
                    TypeOK
<1>4. ASSUME NEW c \in Callers, PlanCommit(c)
      PROVE  PreparationIsExclusive'
  BY <1>1, <1>4 DEF PlanCommit, PlanSaves, Goto, Return, Prepares, TypeOK
<1>5. ASSUME NEW c \in Callers, NEW ap \in Approvals, Authorize(c, ap)
      PROVE  PreparationIsExclusive'
  <2>1. /\ claim' = [claim EXCEPT ![ap] = "active"]
        /\ pc[c] = "idle"
        /\ job'[c] = ap.task /\ using'[c] = ap /\ using'[c] # None
        /\ \A bp \in Approvals : bp.task = ap.task => claim[bp] # "active"
        /\ \A d \in Callers \ {c} :
              pc'[d] = pc[d] /\ job'[d] = job[d] /\ using'[d] = using[d]
    BY <1>5, NotNone DEF Authorize, Claimable, Goto, TypeOK
  <2>2. ASSUME NEW d \in Callers \ {c}, Prepares(d)
        PROVE  /\ claim'[using[d]] = "active"
               /\ job[d] # ap.task
    BY <2>1, <2>2 DEF PreparationIsExclusive, Prepares, TypeOK
  <2>3. claim'[ap] = "active"
    BY <2>1 DEF TypeOK
  <2> QED
    BY <2>1, <2>2, <2>3 DEF PreparationIsExclusive, Prepares
<1>6. ASSUME NEW c \in Callers, Complete(c)
      PROVE  PreparationIsExclusive'
  <2>1. /\ \A ap \in Approvals : ap # using[c] => claim'[ap] = claim[ap]
        /\ pc'[c] = "idle"
        /\ \A d \in Callers \ {c} :
              pc'[d] = pc[d] /\ job'[d] = job[d] /\ using'[d] = using[d]
    BY <1>6 DEF Complete, Goto, Return, TypeOK
  <2>2. ASSUME NEW d \in Callers \ {c}, Prepares(d), using[c] # None
        PROVE  using[d] # using[c]
    BY <1>6, <2>2 DEF PreparationIsExclusive, Prepares, Complete, TypeOK
  <2> QED
    BY <2>1, <2>2 DEF PreparationIsExclusive, Prepares, TypeOK
<1>7. CASE Restart
  BY <1>7 DEF Restart, PreparationIsExclusive, Prepares
<1>8. CASE UNCHANGED <<state, contract, claim, holder, pc, job, using, diskVars>>
  BY <1>1, <1>8 DEF Prepares
<1> QED
  BY <1>2, <1>3, <1>4, <1>5, <1>6, <1>7, <1>8, NextCases

LEMMA ExclusiveInit == Init => PreparationIsExclusive
  BY DEF Init, PreparationIsExclusive, Prepares

\* Whoever is inside task.prepare holds the open claim of its approval and is
\* alone there for its task, for any number of callers and approvals.
THEOREM ExclusivePreparation == Spec => []PreparationIsExclusive
  BY ExclusiveInit, ExclusiveStep, TypeCorrect, PTL DEF Spec

--------------------------------------------------------------------------------
(* What is stored follows the lifecycle *)

LEMMA FreshIsLoaded ==
    SaveIsFresh <=> \A c \in Callers : Loaded(c) => state[job[c]] = Gate
  BY DEF SaveIsFresh, Loaded

LEMMA FreshStep ==
    TypeOK /\ PreparationIsExclusive /\ CommitInv /\ SaveIsFresh /\ [Next]_vars
        => CommitInv' /\ SaveIsFresh'
<1> SUFFICES ASSUME TypeOK, PreparationIsExclusive, CommitInv, SaveIsFresh, [Next]_vars
             PROVE  CommitInv' /\ SaveIsFresh'
  OBVIOUS
<1> DEFINE Fresh == \A c \in Callers : Loaded(c) => state[job[c]] = Gate
<1>0. Fresh /\ (Fresh' => SaveIsFresh')
  BY FreshIsLoaded DEF SaveIsFresh, Loaded
<1> SUFFICES CommitInv' /\ Fresh'
  BY <1>0
<1>1. ASSUME NEW c \in Callers, Quiet(c)
      PROVE  CommitInv' /\ Fresh'
  <2>1. /\ state' = state /\ holder' = holder
        /\ \A d \in Callers : Stays(d)
    BY <1>1, QuietStep
  <2>2. CommitInv'
    BY <2>1 DEF CommitInv, Stays
  <2>3. Fresh'
    BY <1>0, <2>1 DEF Stays, Loaded
  <2> QED
    BY <2>2, <2>3
<1>2. ASSUME NEW c \in Callers, PlanLock(c)
      PROVE  CommitInv' /\ Fresh'
  <2>1. /\ holder = None /\ state' = state /\ pc[c] = "assessed"
        /\ \A d \in Callers \ {c} :
              pc'[d] = pc[d] /\ job'[d] = job[d] /\ using'[d] = using[d]
        /\ \/ /\ pc'[c] = "saveAssessing" /\ holder' = c /\ state[job[c]] = "discovered"
              /\ job'[c] = job[c] /\ using'[c] = using[c]
           \/ pc'[c] = "idle"
    BY <1>2 DEF PlanLock, UnchangedSince, Goto, Return, TypeOK
  <2>2. \A d \in Callers : pc[d] \notin Saves
    BY <2>1, NotNone DEF CommitInv
  <2>3. using[c] = None
    BY <2>1 DEF TypeOK, Planner
  <2>4. CommitInv'
    BY <2>1, <2>2, <2>3 DEF CommitInv, Before, Saves
  <2>5. Fresh'
    BY <1>0, <2>1, <2>3 DEF Loaded, Prepares
  <2> QED
    BY <2>4, <2>5
<1>3. ASSUME NEW c \in Callers, PlanCommit(c)
      PROVE  CommitInv' /\ Fresh'
  <2>1. PICK save \in PlanSaves :
           /\ pc[c] = save[1]
           /\ state' = [state EXCEPT ![job[c]] = save[2]]
           /\ IF save[3] = "idle"
              THEN holder' = None /\ Return(c)
              ELSE Goto(c, save[3]) /\ UNCHANGED <<holder, job, using>>
    BY <1>3 DEF PlanCommit
  <2>2. /\ holder = c /\ using[c] = None /\ job[c] \in Tasks
        /\ state[job[c]] # Gate
        /\ state'[job[c]] = save[2]
        /\ \A d \in Callers \ {c} : pc[d] \notin Saves
    BY <2>1 DEF CommitInv, PlanSaves, Saves, Planner, Before, Gate, TypeOK
  <2>3. /\ \A d \in Callers \ {c} :
              pc'[d] = pc[d] /\ job'[d] = job[d] /\ using'[d] = using[d]
        /\ pc'[c] = save[3]
        /\ save[3] # "idle" => holder' = c /\ job'[c] = job[c] /\ using'[c] = None
    BY <2>1, <2>2 DEF Goto, Return, TypeOK
  <2>4. CommitInv'
    <3>1. save[3] \in Saves => save[2] = Before(save[3])
      BY DEF PlanSaves, Saves, Before
    <3>2. save[3] # "assessed" /\ "idle" \notin Saves
      BY DEF PlanSaves, Saves
    <3> QED
      BY <2>2, <2>3, <3>1, <3>2 DEF CommitInv
  <2>5. Fresh'
    <3>1. \A d \in Callers \ {c} : Loaded(d) => job[d] # job[c] /\ job[d] \in Tasks
      BY <1>0, <2>2 DEF Loaded, Prepares, TypeOK
    <3>2. \A t \in Tasks : t # job[c] => state'[t] = state[t]
      BY <2>1 DEF TypeOK
    <3>3. ~Loaded(c)'
      BY <2>3 DEF Loaded, Prepares
    <3> QED
      BY <1>0, <2>3, <3>1, <3>2, <3>3 DEF Loaded, Prepares
  <2> QED
    BY <2>4, <2>5
<1>4. ASSUME NEW c \in Callers, PrepareLoad(c)
      PROVE  CommitInv' /\ Fresh'
  <2>1. /\ UNCHANGED <<state, holder>>
        /\ \A d \in Callers \ {c} :
              pc'[d] = pc[d] /\ job'[d] = job[d] /\ using'[d] = using[d]
        /\ \/ pc'[c] = "source" /\ job'[c] = job[c] /\ state[job[c]] = Gate
           \/ pc'[c] \in {"idle", "failing"}
    BY <1>4 DEF PrepareLoad, Previewable, Goto, Return, Fail, storeVars, TypeOK
  <2>2. CommitInv'
    BY <2>1 DEF CommitInv, Saves
  <2>3. Fresh'
    BY <1>0, <2>1 DEF Loaded, Prepares
  <2> QED
    BY <2>2, <2>3
<1>5. ASSUME NEW c \in Callers, Save(c)
      PROVE  CommitInv' /\ Fresh'
  <2>1. /\ holder = None /\ pc[c] = "save"
        /\ state' = [state EXCEPT ![job[c]] = "preparing"]
        /\ pc' = [pc EXCEPT ![c] = "saved"]
        /\ UNCHANGED <<holder, job, using>>
    BY <1>5 DEF Save, Goto
  <2>2. \A d \in Callers : pc[d] \notin Saves
    BY <2>1, NotNone DEF CommitInv
  <2>3. CommitInv'
    BY <2>1, <2>2 DEF CommitInv, Saves, TypeOK
  <2>4. ASSUME NEW d \in Callers, Loaded(d)'
        PROVE  state'[job'[d]] = Gate
    <3>1. d # c /\ Loaded(d) /\ job'[d] = job[d] /\ job[d] \in Tasks
      BY <2>1, <2>4 DEF Loaded, Prepares, TypeOK
    <3>2. job[d] # job[c]
      BY <2>1, <3>1 DEF PreparationIsExclusive, Loaded, Prepares, Preparer, TypeOK
    <3> QED
      BY <1>0, <2>1, <3>1, <3>2 DEF TypeOK
  <2> QED
    BY <2>3, <2>4
<1>6. ASSUME NEW c \in Callers,
             Complete(c) \/ \E ap \in Approvals : Authorize(c, ap)
      PROVE  CommitInv' /\ Fresh'
  <2>1. /\ UNCHANGED <<state, holder>>
        /\ \A d \in Callers \ {c} :
              pc'[d] = pc[d] /\ job'[d] = job[d] /\ using'[d] = using[d]
        /\ pc'[c] \in {"idle", "claimed"}
    BY <1>6 DEF Complete, Authorize, Goto, Return, TypeOK
  <2> QED
    BY <1>0, <2>1 DEF CommitInv, Saves, Loaded, Prepares
<1>7. CASE Restart
  BY <1>7 DEF Restart, CommitInv, Saves, Loaded, Prepares
<1>8. CASE UNCHANGED <<state, contract, claim, holder, pc, job, using, diskVars>>
  BY <1>0, <1>8 DEF CommitInv, Loaded, Prepares
<1> QED
  BY <1>1, <1>2, <1>3, <1>4, <1>5, <1>6, <1>7, <1>8, NextCases

LEMMA FreshInit == Init => CommitInv /\ SaveIsFresh
  BY DEF Init, CommitInv, SaveIsFresh, Saves, Prepares

\* The copy task.prepare stores at the end is the stored task, although
\* nothing compares them.
THEOREM SavedCopyIsFresh == Spec => []SaveIsFresh
<1>1. Spec => [](CommitInv /\ SaveIsFresh)
  BY FreshInit, FreshStep, TypeCorrect, ExclusivePreparation, PTL DEF Spec
<1> QED
  BY <1>1, PTL

\* The states of the tasks change only by the saves of the two calls.
LEMMA StateChange ==
    ASSUME TypeOK, CommitInv, SaveIsFresh, [Next]_vars, NEW t \in Tasks
    PROVE  \/ state'[t] = state[t]
           \/ \E save \in PlanSaves : state[t] = Before(save[1]) /\ state'[t] = save[2]
           \/ state[t] = Gate /\ state'[t] = "preparing"
<1>1. ASSUME NEW c \in Callers, Quiet(c) \/ PlanLock(c) \/ PrepareLoad(c) \/ Complete(c)
                                \/ \E ap \in Approvals : Authorize(c, ap)
      PROVE  state' = state
  BY <1>1, QuietStep DEF PlanLock, PrepareLoad, Complete, Authorize, storeVars
<1>2. ASSUME NEW c \in Callers, PlanCommit(c)
      PROVE  \/ state'[t] = state[t]
             \/ \E save \in PlanSaves : state[t] = Before(save[1]) /\ state'[t] = save[2]
  <2>1. PICK save \in PlanSaves :
           pc[c] = save[1] /\ state' = [state EXCEPT ![job[c]] = save[2]]
    BY <1>2 DEF PlanCommit
  <2>2. state[job[c]] = Before(save[1])
    BY <2>1 DEF CommitInv, PlanSaves, Saves
  <2> QED
    BY <2>1, <2>2 DEF TypeOK
<1>3. ASSUME NEW c \in Callers, Save(c)
      PROVE  state'[t] = state[t] \/ (state[t] = Gate /\ state'[t] = "preparing")
  <2>1. state[job[c]] = Gate
    BY <1>3 DEF Save, SaveIsFresh, Prepares, Preparer, TypeOK
  <2> QED
    BY <1>3, <2>1 DEF Save, TypeOK
<1>4. CASE Restart \/ UNCHANGED <<state, contract, claim, holder, pc, job, using, diskVars>>
  BY <1>4 DEF Restart
<1> QED
  BY <1>1, <1>2, <1>3, <1>4, NextCases

\* A task follows the lifecycle from one step to the next, whoever overlaps.
THEOREM LifecycleFollowed == Spec => LifecycleOnly
<1>1. TypeOK /\ CommitInv /\ SaveIsFresh /\ [Next]_vars =>
        [\A t \in Tasks : state'[t] # state[t] => CanTransition(state[t], state'[t])]_vars
  <2> SUFFICES ASSUME TypeOK, CommitInv, SaveIsFresh, [Next]_vars,
                      NEW t \in Tasks, state'[t] # state[t]
               PROVE  CanTransition(state[t], state'[t])
    OBVIOUS
  <2>1. CASE state[t] = Gate /\ state'[t] = "preparing"
    BY <2>1 DEF CanTransition, Permits, Gate
  <2>2. CASE \E save \in PlanSaves : state[t] = Before(save[1]) /\ state'[t] = save[2]
    BY <2>2 DEF CanTransition, Permits, PlanSaves, Before, Gate
  <2> QED
    BY <2>1, <2>2, StateChange
<1>2. Spec => [](CommitInv /\ SaveIsFresh)
  BY FreshInit, FreshStep, TypeCorrect, ExclusivePreparation, PTL DEF Spec
<1> QED
  BY <1>1, <1>2, TypeCorrect, PTL DEF Spec, LifecycleOnly

--------------------------------------------------------------------------------
(* The claims *)

\* What a step may do to the claims.
LEMMA ClaimChange ==
    ASSUME TypeOK, [Next]_vars
    PROVE  \/ claim' = claim
           \/ \E c \in Callers, ap \in Approvals : Authorize(c, ap)
           \/ \E c \in Callers : Complete(c)
           \/ Restart
  BY NextCases, QuietStep DEF PlanLock, PlanCommit, PrepareLoad, Save, storeVars

\* An approval of a preparation is claimed once.
THEOREM ClaimedOnce == Spec => ApprovalIsSingleUse
<1>1. TypeOK /\ [Next]_vars =>
        [\A ap \in Approvals : claim[ap] # "none" =>
            claim'[ap] \in {claim[ap], "succeeded", "failed", "interrupted"}]_vars
  <2> SUFFICES ASSUME TypeOK, [Next]_vars, NEW ap \in Approvals, claim[ap] # "none"
               PROVE  claim'[ap] \in {claim[ap], "succeeded", "failed", "interrupted"}
    OBVIOUS
  <2>1. ASSUME NEW c \in Callers, NEW bp \in Approvals, Authorize(c, bp)
        PROVE  claim'[ap] = claim[ap]
    BY <2>1 DEF Authorize, Claimable, TypeOK
  <2>2. ASSUME NEW c \in Callers, Complete(c)
        PROVE  claim'[ap] \in {claim[ap], "succeeded", "failed"}
    BY <2>2 DEF Complete, TypeOK
  <2>3. CASE Restart
    BY <2>3 DEF Restart, Recovered
  <2> QED
    BY <2>1, <2>2, <2>3, ClaimChange
<1> QED
  BY <1>1, TypeCorrect, PTL DEF Spec, ApprovalIsSingleUse

\* A claim under which a task was prepared: completed, cut off by a restart,
\* or still open with its caller about to complete it.
Prepared(ap) ==
    \/ claim[ap] \in {"succeeded", "interrupted"}
    \/ /\ claim[ap] = "active"
       /\ \E c \in Callers : pc[c] = "saved" /\ using[c] = ap

OutcomeInv ==
    /\ \A ap \in Approvals : claim[ap] = "succeeded" =>
          /\ state[ap.task] = "preparing"
          /\ \A bp \in Approvals \ {ap} : bp.task = ap.task => claim[bp] # "succeeded"
    /\ \A c \in Callers : pc[c] = "saved" =>
          /\ state[job[c]] = "preparing"
          /\ \A ap \in Approvals : ap.task = job[c] => claim[ap] # "succeeded"
    /\ \A t \in Tasks : state[t] = "preparing" =>
          \E ap \in Approvals : ap.task = t /\ Prepared(ap)

LEMMA OutcomeStep ==
    /\ TypeOK /\ PreparationIsExclusive /\ CommitInv /\ SaveIsFresh
    /\ OutcomeInv /\ [Next]_vars
    => OutcomeInv'
<1> SUFFICES ASSUME TypeOK, PreparationIsExclusive, CommitInv, SaveIsFresh, OutcomeInv,
                    [Next]_vars
             PROVE  OutcomeInv'
  OBVIOUS
\* A step that prepares no task and leaves the claims and the callers that
\* are about to complete one alone.
<1>1. ASSUME claim' = claim,
             \A t \in Tasks : state'[t] = "preparing" <=> state[t] = "preparing",
             \A c \in Callers : (pc'[c] = "saved" \/ pc[c] = "saved") =>
                 /\ pc'[c] = pc[c] /\ job'[c] = job[c] /\ using'[c] = using[c]
      PROVE  OutcomeInv'
  <2>1. \A ap \in Approvals : Prepared(ap) => Prepared(ap)'
    BY <1>1 DEF Prepared
  <2>2. \A c \in Callers : pc[c] = "saved" => job[c] \in Tasks
    BY DEF TypeOK
  <2> QED
    BY <1>1, <2>1, <2>2, ApprovalFields DEF OutcomeInv
<1>2. ASSUME NEW c \in Callers, Quiet(c)
      PROVE  OutcomeInv'
  BY <1>1, <1>2, QuietStep DEF Stays
<1>3. ASSUME NEW c \in Callers, PlanLock(c) \/ PrepareLoad(c)
      PROVE  OutcomeInv'
  BY <1>1, <1>3 DEF PlanLock, PrepareLoad, Goto, Return, Fail, storeVars, TypeOK
<1>4. ASSUME NEW c \in Callers, PlanCommit(c)
      PROVE  OutcomeInv'
  <2>1. PICK save \in PlanSaves :
           /\ pc[c] = save[1]
           /\ state' = [state EXCEPT ![job[c]] = save[2]]
           /\ pc' = [pc EXCEPT ![c] = save[3]]
           /\ claim' = claim
           /\ \A d \in Callers \ {c} : job'[d] = job[d] /\ using'[d] = using[d]
    BY <1>4 DEF PlanCommit, Goto, Return, TypeOK
  <2>2. /\ pc[c] # "saved" /\ save[3] # "saved"
        /\ save[2] # "preparing" /\ state[job[c]] # "preparing"
    BY <2>1 DEF PlanSaves, CommitInv, Saves, Before, Gate
  <2>3. \A t \in Tasks : state'[t] = "preparing" <=> state[t] = "preparing"
    BY <2>1, <2>2 DEF TypeOK
  <2> QED
    BY <1>1, <2>1, <2>2, <2>3 DEF TypeOK
<1>5. ASSUME NEW c \in Callers, Save(c)
      PROVE  OutcomeInv'
  <2>1. /\ pc[c] = "save" /\ using[c] \in Approvals /\ using[c].task = job[c]
        /\ job[c] \in Tasks
        /\ state[job[c]] = Gate
        /\ claim[using[c]] = "active"
        /\ state' = [state EXCEPT ![job[c]] = "preparing"]
        /\ pc' = [pc EXCEPT ![c] = "saved"]
        /\ UNCHANGED <<claim, job, using>>
    BY <1>5 DEF Save, Goto, SaveIsFresh, PreparationIsExclusive, Prepares, Preparer, TypeOK
  <2>2. \A ap \in Approvals : ap.task = job[c] => claim[ap] # "succeeded"
    BY <2>1 DEF OutcomeInv, Gate
  <2>3. \A t \in Tasks : state[t] = "preparing" => state'[t] = "preparing"
    BY <2>1 DEF TypeOK
  <2>4. \A ap \in Approvals : Prepared(ap) => Prepared(ap)'
    BY <2>1 DEF Prepared, TypeOK
  <2>5. Prepared(using[c])'
    BY <2>1 DEF Prepared, TypeOK
  <2>6. \A t \in Tasks : t # job[c] => state'[t] = state[t]
    BY <2>1 DEF TypeOK
  <2>7. \A t \in Tasks : state'[t] = "preparing" =>
           \E ap \in Approvals : ap.task = t /\ Prepared(ap)'
    BY <2>1, <2>4, <2>5, <2>6 DEF OutcomeInv
  <2>8. \A d \in Callers : pc'[d] = "saved" =>
           /\ state'[job[d]] = "preparing"
           /\ \A ap \in Approvals : ap.task = job[d] => claim[ap] # "succeeded"
    BY <2>1, <2>2, <2>3 DEF OutcomeInv, TypeOK
  <2> QED
    BY <2>1, <2>3, <2>7, <2>8, ApprovalFields DEF OutcomeInv
<1>6. ASSUME NEW c \in Callers, NEW ap \in Approvals, Authorize(c, ap)
      PROVE  OutcomeInv'
  <2>1. /\ claim' = [claim EXCEPT ![ap] = "active"] /\ claim[ap] = "none"
        /\ state' = state
        /\ pc[c] = "idle" /\ pc' = [pc EXCEPT ![c] = "claimed"]
        /\ \A d \in Callers \ {c} : job'[d] = job[d] /\ using'[d] = using[d]
    BY <1>6 DEF Authorize, Claimable, Goto, TypeOK
  <2>2. \A bp \in Approvals :
           /\ bp # ap => claim'[bp] = claim[bp]
           /\ claim'[bp] = "succeeded" <=> claim[bp] = "succeeded"
    BY <2>1 DEF TypeOK
  <2>3. \A d \in Callers : (pc'[d] = "saved" \/ pc[d] = "saved") =>
           d # c /\ pc'[d] = pc[d] /\ job'[d] = job[d] /\ using'[d] = using[d]
    BY <2>1 DEF TypeOK
  <2>4. \A bp \in Approvals : Prepared(bp) => Prepared(bp)'
    BY <2>1, <2>2, <2>3 DEF Prepared
  <2> QED
    BY <2>1, <2>2, <2>3, <2>4 DEF OutcomeInv
<1>7. ASSUME NEW c \in Callers, Complete(c), NEW mine \in Approvals, using[c] = mine
      PROVE  OutcomeInv'
  <2>1. /\ mine.task = job[c] /\ claim[mine] = "active"
        /\ claim' = [claim EXCEPT ![mine] =
                        IF pc[c] = "saved" THEN "succeeded" ELSE "failed"]
        /\ state' = state
        /\ pc[c] \in {"saved", "failing"} /\ pc' = [pc EXCEPT ![c] = "idle"]
        /\ \A d \in Callers \ {c} : job'[d] = job[d] /\ using'[d] = using[d]
    BY <1>7 DEF Complete, Goto, Return, PreparationIsExclusive, Prepares, Preparer, TypeOK
  <2>2. \A ap \in Approvals : ap # mine => claim'[ap] = claim[ap]
    BY <2>1 DEF TypeOK
  <2>3. \A d \in Callers : pc'[d] = "saved" =>
           /\ d # c /\ pc[d] = "saved"
           /\ job'[d] = job[d] /\ using'[d] = using[d] /\ job[d] # job[c]
    BY <2>1 DEF PreparationIsExclusive, Prepares, Preparer, TypeOK
  <2>4. \A ap \in Approvals : ap # mine /\ Prepared(ap) => Prepared(ap)'
    BY <1>7, <2>1, <2>2 DEF Prepared, TypeOK
  <2>5. CASE pc[c] = "saved"
    <3>1. claim'[mine] = "succeeded"
      BY <2>1, <2>5 DEF TypeOK
    <3>2. Prepared(mine)'
      BY <3>1 DEF Prepared
    <3>3. /\ state[job[c]] = "preparing"
          /\ \A ap \in Approvals : ap.task = job[c] => claim[ap] # "succeeded"
      BY <2>5 DEF OutcomeInv
    <3>4. \A ap \in Approvals : claim'[ap] = "succeeded" =>
             /\ state[ap.task] = "preparing"
             /\ \A bp \in Approvals \ {ap} : bp.task = ap.task => claim'[bp] # "succeeded"
      BY <2>1, <2>2, <3>3 DEF OutcomeInv
    <3>5. \A d \in Callers : pc'[d] = "saved" =>
             /\ state[job'[d]] = "preparing"
             /\ \A ap \in Approvals : ap.task = job'[d] => claim'[ap] # "succeeded"
      BY <2>1, <2>2, <2>3 DEF OutcomeInv
    <3>6. \A t \in Tasks : state[t] = "preparing" =>
             \E ap \in Approvals : ap.task = t /\ Prepared(ap)'
      BY <2>4, <3>2 DEF OutcomeInv
    <3> QED
      BY <2>1, <3>4, <3>5, <3>6 DEF OutcomeInv
  <2>6. CASE pc[c] = "failing"
    <3>1. claim'[mine] = "failed"
      BY <2>1, <2>6 DEF TypeOK
    <3>2. ~Prepared(mine)
      <4>1. ASSUME NEW d \in Callers, pc[d] = "saved", using[d] = mine
            PROVE  FALSE
        <5>1. d # c /\ using[d] # None /\ using[c] # None /\ job[d] = job[c]
          BY <1>7, <2>1, <2>6, <4>1, NotNone DEF TypeOK
        <5> QED
          BY <2>6, <4>1, <5>1 DEF PreparationIsExclusive, Prepares
      <4> QED
        BY <2>1, <4>1 DEF Prepared
    <3>3. \A ap \in Approvals : Prepared(ap) => Prepared(ap)'
      BY <2>4, <3>2
    <3>4. \A ap \in Approvals : claim'[ap] = "succeeded" => claim[ap] = "succeeded"
      BY <2>2, <3>1
    <3> QED
      BY <2>1, <2>3, <3>3, <3>4 DEF OutcomeInv
  <2> QED
    BY <2>1, <2>5, <2>6
<1>8. CASE Restart
  <2>1. \A ap \in Approvals : Prepared(ap) => Prepared(ap)'
    BY <1>8 DEF Restart, Recovered, Prepared
  <2>2. \A ap \in Approvals : claim'[ap] = "succeeded" => claim[ap] = "succeeded"
    BY <1>8 DEF Restart, Recovered
  <2> QED
    BY <1>8, <2>1, <2>2 DEF Restart, OutcomeInv
<1>9. CASE UNCHANGED <<state, contract, claim, holder, pc, job, using, diskVars>>
  BY <1>1, <1>9
<1>10. ASSUME NEW c \in Callers, Complete(c)
       PROVE  using[c] \in Approvals
  BY <1>10 DEF Complete, Preparer, TypeOK
<1> QED
  BY <1>2, <1>3, <1>4, <1>5, <1>6, <1>7, <1>8, <1>9, <1>10, NextCases

LEMMA OutcomeInit == Init => OutcomeInv
  BY DEF Init, OutcomeInv

\* The claims say what became of the preparations, restarts included.
THEOREM ClaimsAreTrue == Spec => []ClaimsTellOutcome
<1>1. OutcomeInv => ClaimsTellOutcome
  BY DEF OutcomeInv, ClaimsTellOutcome, Prepared
<1>2. Spec => [](CommitInv /\ SaveIsFresh)
  BY FreshInit, FreshStep, TypeCorrect, ExclusivePreparation, PTL DEF Spec
<1>3. Spec => []OutcomeInv
  BY <1>2, OutcomeInit, OutcomeStep, TypeCorrect, ExclusivePreparation, PTL DEF Spec
<1> QED
  BY <1>1, <1>3, PTL

--------------------------------------------------------------------------------
(* The worktree of a prepared task *)

\* Until a completed clone is removed there is no worktree without a clone, a
\* git process that clones does so into a directory that was absent, and a
\* worktree is the business of the one caller that prepares its task.
TreeInv ==
    ~lost =>
        /\ cloner # None => clone = "partial"
        /\ clone # "present" => \A t \in Tasks : tree[t] = "absent"
        /\ \A c \in Callers :
              /\ pc[c] \in {"save", "saved"} => Usable(tree[job[c]])
              /\ pc[c] = "adding" => tree[job[c]] = "adding"
        /\ \A t \in Tasks : state[t] = "preparing" => Usable(tree[t])

LEMMA TreeStep ==
    /\ TypeOK /\ PreparationIsExclusive /\ CommitInv /\ SaveIsFresh
    /\ TreeInv /\ [Next]_vars
    => TreeInv'
<1> SUFFICES ASSUME TypeOK, PreparationIsExclusive, CommitInv, SaveIsFresh, TreeInv,
                    [Next]_vars
             PROVE  TreeInv'
  OBVIOUS
<1> DEFINE Adding == {"save", "saved", "adding"}
\* A step that leaves the disk alone, prepares no task and brings nobody to
\* the worktree.
<1>1. ASSUME UNCHANGED <<clone, cloner, tree, lost>>,
             \A t \in Tasks : state'[t] = "preparing" => state[t] = "preparing",
             \A c \in Callers : pc'[c] \in Adding =>
                 pc'[c] = pc[c] /\ job'[c] = job[c]
      PROVE  TreeInv'
  BY <1>1 DEF TreeInv, Usable
<1>2. ASSUME NEW c \in Callers,
             \/ \E t \in Tasks : PlanLoad(c, t)
             \/ Assess(c) \/ LookAtSource(c) \/ GiveUp(c) \/ CheckDestination(c)
             \/ PlanLock(c) \/ PrepareLoad(c) \/ Complete(c)
             \/ \E ap \in Approvals : Authorize(c, ap)
      PROVE  TreeInv'
  <2>1. UNCHANGED <<state, clone, cloner, tree, lost>>
    BY <1>2 DEF PlanLoad, Assess, LookAtSource, GiveUp, CheckDestination, PlanLock,
                PrepareLoad, Complete, Authorize, storeVars, diskVars
  <2>2. /\ \A d \in Callers \ {c} : pc'[d] = pc[d] /\ job'[d] = job[d]
        /\ pc'[c] \notin Adding
    BY <1>2 DEF PlanLoad, Assess, LookAtSource, GiveUp, CheckDestination, PlanLock,
                PrepareLoad, Complete, Authorize, Goto, Return, Fail, TypeOK
  <2> QED
    BY <1>1, <2>1, <2>2
\* The steps of the clone, while there is no worktree yet.
<1>3. ASSUME NEW c \in Callers, StartClone(c) \/ CloneDone(c) \/ CloneBreaks(c)
      PROVE  TreeInv'
  <2>1. /\ UNCHANGED <<state, job, tree, lost>>
        /\ pc'[c] \in {"cloning", "cloneFailed", "ready"}
        /\ \A d \in Callers \ {c} : pc'[d] = pc[d]
    BY <1>3 DEF StartClone, CloneDone, CloneBreaks, Goto, storeVars, TypeOK
  <2>2. ~lost => /\ cloner' # None => clone' = "partial"
                 /\ clone' # "present" => clone # "present"
    BY <1>3, NotNone DEF StartClone, CloneDone, CloneBreaks, TreeInv
  <2> QED
    BY <2>1, <2>2 DEF TreeInv, Usable
<1>4. ASSUME NEW c \in Callers, RemoveClone(c)
      PROVE  TreeInv'
  <2>1. /\ UNCHANGED state
        /\ cloner' = None
        /\ tree' = [t \in Tasks |-> Orphaned(tree[t])]
        /\ lost' = (lost \/ clone = "present")
        /\ pc'[c] \in {"idle", "failing"}
        /\ \A d \in Callers \ {c} : pc'[d] = pc[d] /\ job'[d] = job[d]
    BY <1>4 DEF RemoveClone, Goto, Return, Fail, storeVars, TypeOK
  <2>2. SUFFICES ASSUME ~lost, clone # "present" PROVE TreeInv'
    BY <2>1 DEF TreeInv
  <2>3. tree' = tree
    BY <2>1, <2>2 DEF TreeInv, Orphaned, TypeOK
  <2>4. \A d \in Callers : pc[d] # "idle" => tree[job[d]] = "absent"
    BY <2>2 DEF TreeInv, TypeOK
  <2> QED
    BY <2>1, <2>2, <2>3, <2>4 DEF TreeInv, Usable
<1>5. ASSUME NEW c \in Callers, PlanCommit(c)
      PROVE  TreeInv'
  <2>1. PICK save \in PlanSaves :
           /\ pc[c] = save[1]
           /\ state' = [state EXCEPT ![job[c]] = save[2]]
           /\ pc' = [pc EXCEPT ![c] = save[3]]
           /\ \A d \in Callers \ {c} : job'[d] = job[d]
           /\ UNCHANGED <<clone, cloner, tree, lost>>
    BY <1>5 DEF PlanCommit, Goto, Return, diskVars, TypeOK
  <2>2. save[2] # "preparing" /\ save[3] \notin Adding
    BY DEF PlanSaves, Gate
  <2>3. \A t \in Tasks : state'[t] = "preparing" => state[t] = "preparing"
    BY <2>1, <2>2 DEF TypeOK
  <2>4. \A d \in Callers : d # c => pc'[d] = pc[d]
    BY <2>1 DEF TypeOK
  <2>5. pc'[c] = save[3]
    BY <2>1 DEF TypeOK
  <2> QED
    BY <1>1, <2>1, <2>2, <2>3, <2>4, <2>5
<1>6. ASSUME NEW c \in Callers, InspectTree(c)
      PROVE  TreeInv'
  <2>1. /\ UNCHANGED <<state, clone, cloner, tree, lost>>
        /\ \A d \in Callers \ {c} : pc'[d] = pc[d] /\ job'[d] = job[d]
        /\ \/ pc'[c] = "save" /\ job'[c] = job[c] /\ Usable(tree[job[c]])
           \/ pc'[c] \in {"idle", "failing"}
    BY <1>6 DEF InspectTree, Goto, Return, Fail, storeVars, diskVars, TypeOK
  <2> QED
    BY <2>1 DEF TreeInv, Usable
<1>7. ASSUME NEW c \in Callers, AddTree(c)
      PROVE  TreeInv'
  <2>1. /\ UNCHANGED <<state, job, clone, cloner, lost>>
        /\ tree[job[c]] \in {"absent", "branch"}
        /\ \A d \in Callers \ {c} : pc'[d] = pc[d]
        /\ \A t \in Tasks : t # job[c] => tree'[t] = tree[t]
        /\ job[c] \in Tasks
        /\ \/ pc'[c] = "adding" /\ tree'[job[c]] = "adding" /\ clone = "present"
           \/ pc'[c] = "failing" /\ tree' = tree
    BY <1>7 DEF AddTree, Goto, storeVars, TypeOK
  <2>2. ~lost => \A d \in Callers \ {c} :
                    pc[d] \in Adding => job[d] # job[c] /\ job[d] \in Tasks
    BY <2>1 DEF TreeInv, Usable, TypeOK
  <2>3. ~lost => \A t \in Tasks : state[t] = "preparing" => t # job[c]
    BY <2>1 DEF TreeInv, Usable
  <2> QED
    BY <2>1, <2>2, <2>3 DEF TreeInv, Usable
<1>8. ASSUME NEW c \in Callers, TreeAdded(c) \/ TreeBreaks(c)
      PROVE  TreeInv'
  <2>1. /\ UNCHANGED <<state, job, clone, cloner, lost>>
        /\ pc[c] = "adding" /\ job[c] \in Tasks
        /\ \A d \in Callers \ {c} : pc'[d] = pc[d]
        /\ \A t \in Tasks : t # job[c] => tree'[t] = tree[t]
        /\ \/ pc'[c] = "save" /\ Usable(tree'[job[c]])
           \/ pc'[c] = "failing"
    BY <1>8 DEF TreeAdded, TreeBreaks, Goto, storeVars, TypeOK, Usable
  <2>2. \A d \in Callers \ {c} : pc[d] \in Adding => job[d] # job[c] /\ job[d] \in Tasks
    BY <2>1 DEF PreparationIsExclusive, Prepares, Preparer, TypeOK
  <2>3. ~lost => /\ tree[job[c]] = "adding"
                 /\ clone = "present"
                 /\ \A t \in Tasks : state[t] = "preparing" => t # job[c]
    BY <2>1 DEF TreeInv, Usable
  <2> QED
    BY <2>1, <2>2, <2>3 DEF TreeInv, Usable
<1>9. ASSUME NEW c \in Callers, Save(c)
      PROVE  TreeInv'
  <2>1. /\ pc[c] = "save" /\ job[c] \in Tasks
        /\ state' = [state EXCEPT ![job[c]] = "preparing"]
        /\ pc' = [pc EXCEPT ![c] = "saved"]
        /\ UNCHANGED <<job, clone, cloner, tree, lost>>
    BY <1>9 DEF Save, Goto, diskVars, TypeOK
  <2>2. \A t \in Tasks : state'[t] = "preparing" => state[t] = "preparing" \/ t = job[c]
    BY <2>1 DEF TypeOK
  <2>3. ~lost => Usable(tree[job[c]])
    BY <2>1 DEF TreeInv
  <2>4. \A d \in Callers : pc'[d] = pc[d] \/ (d = c /\ pc'[d] = "saved")
    BY <2>1 DEF TypeOK
  <2> QED
    BY <2>1, <2>2, <2>3, <2>4 DEF TreeInv, Usable
<1>10. CASE Restart
  <2>1. /\ UNCHANGED <<state, lost>>
        /\ cloner' = None
        /\ \A d \in Callers : pc'[d] = "idle"
        /\ cloner = None => clone' = clone
        /\ \A t \in Tasks : tree[t] # "adding" => tree'[t] = tree[t]
    BY <1>10 DEF Restart
  <2> QED
    BY <2>1 DEF TreeInv, Usable
<1>11. CASE UNCHANGED <<state, contract, claim, holder, pc, job, using, diskVars>>
  BY <1>1, <1>11 DEF diskVars
<1> QED
  BY <1>2, <1>3, <1>4, <1>5, <1>6, <1>7, <1>8, <1>9, <1>10, <1>11, NextCases DEF Quiet, Source

LEMMA TreeInit == Init => TreeInv
  BY DEF Init, TreeInv

\* Until a call removes a completed clone, a prepared task has its worktree,
\* however many calls failed, were interrupted or overlapped.
THEOREM PreparedTasksHaveTrees == Spec => []PreparedHasTree
<1>1. TreeInv => PreparedHasTree
  BY DEF TreeInv, PreparedHasTree, Usable
<1>2. Spec => [](CommitInv /\ SaveIsFresh)
  BY FreshInit, FreshStep, TypeCorrect, ExclusivePreparation, PTL DEF Spec
<1>3. Spec => []TreeInv
  BY <1>2, TreeInit, TreeStep, TypeCorrect, ExclusivePreparation, PTL DEF Spec
<1> QED
  BY <1>1, <1>3, PTL
================================================================================
