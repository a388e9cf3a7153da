-------------------------- MODULE Implementation_proofs --------------------------
(***************************************************************************)
(* Proofs about Implementation, for any number of launches, turns,         *)
(* concurrent verifications and commits.                                   *)
(***************************************************************************)
EXTENDS Implementation, SequenceTheorems, TLAPS

\* A call of codex.start, before the process enters the table.
Starting == {"launched", "connected", "entered", "created"}

\* A call that leaves the process in the table.
Calling == {"asked", "answering", "crashing"}

\* A call that has taken the process out of it.
Ending == {"crashLoaded", "crashSaved", "stopping", "stopped", "stopSaved"}

\* Who owns the newest app-server.
OwnerInv ==
    /\ gen = 0 => active = 0 /\ pc = "idle"
    /\ active # 0 => pc \in Calling \cup {"idle"}
    /\ pc \in Calling => active # 0
    /\ \A g \in Generations : codex[g] = "running" =>
          g = gen /\ (active = g \/ pc \in Starting \cup {"stopping"})

\* Whose job is still to be settled.
JobInv ==
    \A g \in Generations :
        /\ g > gen => job[g] = "none"
        /\ job[g] = "running" =>
              active = g \/ (g = gen /\ pc \in {"crashLoaded", "crashSaved"})

\* The state a call holds, and the state of a task under a process.
CopyInv ==
    /\ pc \in {"crashLoaded", "stopped"} => copy \in Stage
    /\ previous # "paused"
    /\ task = "paused" => active = 0 /\ pc \in {"idle", "stopSaved"}

\* The turn a call waits for belongs to the newest app-server; an interruption
\* that has lost its turn has read of its completion.
TurnInv ==
    /\ turn # None => home[turn] = gen /\ (active # 0 \/ pc = "stopping")
    /\ pc \in {"asked", "answering"} => waiting \in Turns /\ home[waiting] = gen
    /\ pc \in {"stopping", "stopped"} /\ waiting # None => home[waiting] = gen
    /\ pc = "stopping" /\ turn # None => waiting = turn
    /\ pc \in {"stopping", "stopped"} /\ waiting # None =>
          server[waiting] = "ended" \/ (pc = "stopping" /\ turn = waiting)
    /\ \A t \in Turns : home[t] <= gen /\ (server[t] # "none" => home[t] # 0)

\* turn/completed of a turn, whatever its status.
EndOf(t) == {<<"completed", t>>, <<"aborted", t>>}

\* The messages in the pipe are of the newest app-server.  A completion tells
\* the truth, and an approval that is asked for is new and asked for once.
PipeInv ==
    \A t \in Turns, i \in 1..Len(out) :
        /\ out[i] \in EndOf(t) => home[t] = gen /\ server[t] = "ended"
        /\ out[i] = <<"approval", t>> =>
              /\ approval[t] = "none"
              /\ \A j \in 1..Len(out) : out[j] = <<"approval", t>> => i = j

\* An approval is answered once.  One that was answered and not recorded
\* belongs to an app-server that is gone.
AnswerInv ==
    /\ pc = "answering" => approval[waiting] = "pending"
    /\ \A t \in Turns :
          /\ approval[t] = "none" => answered[t] = <<>>
          /\ approval[t] = "pending" /\ answered[t] # <<>> =>
                \/ pc = "answering" /\ waiting = t
                \/ home[t] < gen
                \/ pc = "idle" /\ active = 0
          /\ answered[t] # <<>> => home[t] # 0 /\ answered[t] = <<home[t]>>

\* A verification whose copy is still the stored task is verifying it, and one
\* that has passed the comparison of its commits found its worktree as it was.
VerifierInv ==
    \A v \in Verifiers :
        /\ verifier[v] # "idle" /\ v \notin touched => task = "verifying"
        /\ verifier[v] = "running" => (v \in moved <=> dirty \/ head # base[v])
        /\ verifier[v] = "checked" => v \notin moved

CodexInv ==
    /\ TypeOK
    /\ OwnerInv /\ JobInv /\ CopyInv /\ TurnInv /\ PipeInv
    /\ SucceededHasEnded /\ AnswerInv /\ VerifierInv

--------------------------------------------------------------------------------

\* An absent value is no state of a task.
LEMMA TaskStates == None \notin Stage
BY ImplementationAssumption DEF Stage, TaskState, Gates, Interruptions, Terminal

\* Nothing runs.
LEMMA CodexInit == Init => CodexInv
<1> SUFFICES ASSUME Init
             PROVE  CodexInv
  OBVIOUS
<1> USE DEF Init
<1>1. TypeOK
  <2>1. <<>> \in Seq(Message)
    OBVIOUS
  <2>2. answered \in [Turns -> Seq(Generations)]
    OBVIOUS
  <2>3. /\ task \in Stage
        /\ pc \in Location
        /\ job \in [Generations -> JobState]
        /\ task = "paused" <=> previous # None
    BY DEF Stage, Location, JobState
  <2>4. head \in 0..MaxCommits /\ gen \in 0..MaxStarts
    BY ImplementationAssumption
  <2>5. /\ home \in [Turns -> 0..MaxStarts]
        /\ base \in [Verifiers -> 0..MaxCommits]
    BY ImplementationAssumption
  <2> QED
    BY <2>1, <2>2, <2>3, <2>4, <2>5 DEF TypeOK
<1>2. OwnerInv
  BY DEF OwnerInv, Starting, Calling
<1>3. JobInv
  BY DEF JobInv
<1>4. CopyInv /\ VerifierInv
  BY TaskStates DEF CopyInv, VerifierInv, Stage
<1>5. TurnInv /\ PipeInv /\ SucceededHasEnded
  BY DEF TurnInv, PipeInv, SucceededHasEnded
<1>6. AnswerInv
  BY DEF AnswerInv
<1> QED
  BY <1>1, <1>2, <1>3, <1>4, <1>5, <1>6 DEF CodexInv

--------------------------------------------------------------------------------
(* The pipe *)

\* What reading a message leaves.
LEMMA HeadOfPipe ==
    ASSUME TypeOK, out # <<>>
    PROVE  /\ 1 \in 1..Len(out)
           /\ Head(out) = out[1]
           /\ Head(out) \in Message
           /\ Tail(out) \in Seq(Message)
           /\ Len(Tail(out)) = Len(out) - 1
           /\ \A i \in 1..Len(Tail(out)) : i + 1 \in 1..Len(out) /\ Tail(out)[i] = out[i + 1]
<1>1. out \in Seq(Message) /\ Len(out) \in Nat /\ Len(out) # 0
  BY EmptySeq, LenProperties DEF TypeOK
<1> QED
  BY <1>1, HeadTailProperties

\* What is left of a cut line.
LEMMA CutOfPipe ==
    ASSUME TypeOK, out # <<>>, NEW m \in Message
    PROVE  /\ <<m>> \o Tail(out) \in Seq(Message)
           /\ Len(<<m>> \o Tail(out)) = Len(out)
           /\ (<<m>> \o Tail(out))[1] = m
           /\ \A i \in 1..Len(out) : i # 1 => (<<m>> \o Tail(out))[i] = out[i]
BY HeadOfPipe DEF TypeOK

\* What writing a message adds.
LEMMA AppendToPipe ==
    ASSUME TypeOK, NEW m \in Message
    PROVE  /\ Append(out, m) \in Seq(Message)
           /\ Len(Append(out, m)) = Len(out) + 1
           /\ \A i \in 1..Len(out) : Append(out, m)[i] = out[i]
           /\ Append(out, m)[Len(out) + 1] = m
BY AppendProperties DEF TypeOK

\* What the two parts of a message tell.
LEMMA MessageParts ==
    ASSUME NEW m \in Message
    PROVE  /\ m[1] \in {"response", "completed", "aborted", "approval"} =>
                 m[2] \in Turns /\ m = <<m[1], m[2]>>
           /\ m[1] \in {"response", "completed", "aborted", "approval", "garbage"}
BY DEF Message, Ends

\* A process is launched when none is owned, and leaves its owner with its end.
LEMMA OwnerStep == TypeOK /\ OwnerInv /\ [Next]_vars => OwnerInv'
<1> SUFFICES ASSUME TypeOK, OwnerInv, [Next]_vars
             PROVE  OwnerInv'
  OBVIOUS
<1> USE ImplementationAssumption DEF TypeOK, OwnerInv, Generations, Starting, Calling,
    taskVars, storeVars, callVars, serviceVars, serverVars, treeVars, verifyVars
<1>1. CASE StartLoad
  BY <1>1 DEF StartLoad, Resume, SaveTask
<1>2. CASE Connect
  BY <1>2 DEF Connect
<1>3. CASE ConnectFails
  BY <1>3 DEF ConnectFails, Terminated
<1>4. CASE Enter
  BY <1>4 DEF Enter, EntersFrom, SaveTask, Terminated
<1>5. CASE Activate
  BY <1>5 DEF Activate, JobStep
<1>6. CASE Read
  BY <1>6 DEF Read, Refused, Persist, EndsTurn, SaveTask
<1>7. CASE CutLine
  BY <1>7 DEF CutLine
<1>8. CASE ReadFails
  BY <1>8 DEF ReadFails, Refused
<1>9. CASE CrashLoad
  BY <1>9 DEF CrashLoad, Terminated
<1>10. CASE CrashSave
  BY <1>10 DEF CrashSave, SaveTask, JobStep, CanInterrupt
<1>11. CASE TurnStarted
  BY <1>11 DEF TurnStarted
<1>12. CASE TurnFails
  BY <1>12 DEF TurnFails, Refused
<1>13. CASE SaveDecision
  BY <1>13 DEF SaveDecision
<1>14. CASE Interrupt
  BY <1>14 DEF Interrupt, JobStep
<1>15. CASE Stop
  BY <1>15 DEF Stop, Terminated
<1>16. CASE SaveStopped
  BY <1>16 DEF SaveStopped, SaveTask, JobStep, CanInterrupt, CompletedBefore
<1>17. CASE Exit
  BY <1>17 DEF Exit
<1>18. CASE Edit
  BY <1>18 DEF Edit
<1>19. CASE Deliver
  BY <1>19 DEF Deliver, SaveTask
<1>20. CASE Restart
  BY <1>20 DEF Restart, Interrupted, Terminated, Same
<1>21. ASSUME NEW t \in Turns, AskTurn(t)
      PROVE  OwnerInv'
  BY <1>21 DEF AskTurn
<1>22. ASSUME NEW t \in Turns, Answer(t)
      PROVE  OwnerInv'
  BY <1>22 DEF Answer, Answerable
<1>23. ASSUME NEW t \in Turns, Expire(t)
      PROVE  OwnerInv'
  BY <1>23 DEF Expire
<1>24. ASSUME NEW t \in Turns, Serve(t)
      PROVE  OwnerInv'
  BY <1>24 DEF Serve, Emit
<1>25. ASSUME NEW v \in Verifiers, VerifyLoad(v)
      PROVE  OwnerInv'
  BY <1>25 DEF VerifyLoad
<1>26. ASSUME NEW v \in Verifiers, VerifyInspect(v)
      PROVE  OwnerInv'
  BY <1>26 DEF VerifyInspect
<1>27. ASSUME NEW v \in Verifiers, VerifyCommands(v)
      PROVE  OwnerInv'
  BY <1>27 DEF VerifyCommands, Unmoved
<1>28. ASSUME NEW v \in Verifiers, VerifyFails(v)
      PROVE  OwnerInv'
  BY <1>28 DEF VerifyFails, VerifyEnds, Same
<1>29. ASSUME NEW v \in Verifiers, VerifySave(v)
      PROVE  OwnerInv'
  BY <1>29 DEF VerifySave, VerifyEnds, Same
<1>30. CASE UNCHANGED vars
  BY <1>30 DEF vars
<1> QED
  BY <1>1, <1>2, <1>3, <1>4, <1>5, <1>6, <1>7, <1>8, <1>9, <1>10, <1>11, <1>12, <1>13,
      <1>14, <1>15, <1>16, <1>17, <1>18, <1>19, <1>20, <1>21, <1>22, <1>23, <1>24,
      <1>25, <1>26, <1>27, <1>28, <1>29, <1>30
  DEF Next, Start, Pump, Turning, Stopping, Verify

\* A job is set running as its process enters the table.
LEMMA JobStepInv == TypeOK /\ OwnerInv /\ JobInv /\ [Next]_vars => JobInv'
<1> SUFFICES ASSUME TypeOK, OwnerInv, JobInv, [Next]_vars
             PROVE  JobInv'
  OBVIOUS
<1> USE ImplementationAssumption DEF TypeOK, OwnerInv, JobInv, Generations, Starting,
    Calling, taskVars, storeVars, callVars, serviceVars, serverVars, treeVars,
    verifyVars
<1>1. CASE StartLoad
  BY <1>1 DEF StartLoad, Resume, SaveTask
<1>2. CASE Connect
  BY <1>2 DEF Connect
<1>3. CASE ConnectFails
  BY <1>3 DEF ConnectFails, Terminated
<1>4. CASE Enter
  BY <1>4 DEF Enter, EntersFrom, SaveTask, Terminated
<1>5. CASE Activate
  BY <1>5 DEF Activate, JobStep
<1>6. CASE Read
  BY <1>6 DEF Read, Refused, Persist, EndsTurn, SaveTask
<1>7. CASE CutLine
  BY <1>7 DEF CutLine
<1>8. CASE ReadFails
  BY <1>8 DEF ReadFails, Refused
<1>9. CASE CrashLoad
  BY <1>9 DEF CrashLoad, Terminated
<1>10. CASE CrashSave
  BY <1>10 DEF CrashSave, SaveTask, JobStep, CanInterrupt
<1>11. CASE TurnStarted
  BY <1>11 DEF TurnStarted
<1>12. CASE TurnFails
  BY <1>12 DEF TurnFails, Refused
<1>13. CASE SaveDecision
  BY <1>13 DEF SaveDecision
<1>14. CASE Interrupt
  BY <1>14 DEF Interrupt, JobStep
<1>15. CASE Stop
  BY <1>15 DEF Stop, Terminated
<1>16. CASE SaveStopped
  <2>1. pc \in {"stopped", "stopSaved"} /\ UNCHANGED <<gen, active>>
    BY <1>16 DEF SaveStopped
  <2>2. \A g \in Generations : job'[g] # job[g] => job'[g] \in {"succeeded", "cancelled"} /\ job[g] = "cancelling"
    BY <1>16 DEF SaveStopped, JobStep
  <2> QED
    BY <2>1, <2>2
<1>17. CASE Exit
  BY <1>17 DEF Exit
<1>18. CASE Edit
  BY <1>18 DEF Edit
<1>19. CASE Deliver
  BY <1>19 DEF Deliver, SaveTask
<1>20. CASE Restart
  BY <1>20 DEF Restart, Interrupted, Terminated, Same
<1>21. ASSUME NEW t \in Turns, AskTurn(t)
      PROVE  JobInv'
  BY <1>21 DEF AskTurn
<1>22. ASSUME NEW t \in Turns, Answer(t)
      PROVE  JobInv'
  BY <1>22 DEF Answer, Answerable
<1>23. ASSUME NEW t \in Turns, Expire(t)
      PROVE  JobInv'
  BY <1>23 DEF Expire
<1>24. ASSUME NEW t \in Turns, Serve(t)
      PROVE  JobInv'
  BY <1>24 DEF Serve, Emit
<1>25. ASSUME NEW v \in Verifiers, VerifyLoad(v)
      PROVE  JobInv'
  BY <1>25 DEF VerifyLoad
<1>26. ASSUME NEW v \in Verifiers, VerifyInspect(v)
      PROVE  JobInv'
  BY <1>26 DEF VerifyInspect
<1>27. ASSUME NEW v \in Verifiers, VerifyCommands(v)
      PROVE  JobInv'
  BY <1>27 DEF VerifyCommands, Unmoved
<1>28. ASSUME NEW v \in Verifiers, VerifyFails(v)
      PROVE  JobInv'
  BY <1>28 DEF VerifyFails, VerifyEnds, Same
<1>29. ASSUME NEW v \in Verifiers, VerifySave(v)
      PROVE  JobInv'
  BY <1>29 DEF VerifySave, VerifyEnds, Same
<1>30. CASE UNCHANGED vars
  BY <1>30 DEF vars
<1> QED
  BY <1>1, <1>2, <1>3, <1>4, <1>5, <1>6, <1>7, <1>8, <1>9, <1>10, <1>11, <1>12, <1>13,
      <1>14, <1>15, <1>16, <1>17, <1>18, <1>19, <1>20, <1>21, <1>22, <1>23, <1>24,
      <1>25, <1>26, <1>27, <1>28, <1>29, <1>30
  DEF Next, Start, Pump, Turning, Stopping, Verify

\* No process is started for a paused task before it is resumed.
LEMMA CopyStep == TypeOK /\ OwnerInv /\ CopyInv /\ [Next]_vars => CopyInv'
<1> SUFFICES ASSUME TypeOK, OwnerInv, CopyInv, [Next]_vars
             PROVE  CopyInv'
  OBVIOUS
<1> USE TaskStates DEF TypeOK, OwnerInv, CopyInv, Stage, Interruptions, Starting,
    Calling, taskVars, storeVars, callVars, serviceVars, serverVars, treeVars,
    verifyVars
<1>1. CASE StartLoad
  BY <1>1 DEF StartLoad, Resume, SaveTask
<1>2. CASE Connect
  BY <1>2 DEF Connect
<1>3. CASE ConnectFails
  BY <1>3 DEF ConnectFails, Terminated
<1>4. CASE Enter
  BY <1>4 DEF Enter, EntersFrom, SaveTask, Terminated
<1>5. CASE Activate
  BY <1>5 DEF Activate, JobStep
<1>6. CASE Read
  BY <1>6 DEF Read, Refused, Persist, EndsTurn, SaveTask
<1>7. CASE CutLine
  BY <1>7 DEF CutLine
<1>8. CASE ReadFails
  BY <1>8 DEF ReadFails, Refused
<1>9. CASE CrashLoad
  BY <1>9 DEF CrashLoad, Terminated
<1>10. CASE CrashSave
  BY <1>10 DEF CrashSave, SaveTask, JobStep, CanInterrupt
<1>11. CASE TurnStarted
  BY <1>11 DEF TurnStarted
<1>12. CASE TurnFails
  BY <1>12 DEF TurnFails, Refused
<1>13. CASE SaveDecision
  BY <1>13 DEF SaveDecision
<1>14. CASE Interrupt
  BY <1>14 DEF Interrupt, JobStep
<1>15. CASE Stop
  BY <1>15 DEF Stop, Terminated
<1>16. CASE SaveStopped
  BY <1>16 DEF SaveStopped, SaveTask, JobStep, CanInterrupt, CompletedBefore
<1>17. CASE Exit
  BY <1>17 DEF Exit
<1>18. CASE Edit
  BY <1>18 DEF Edit
<1>19. CASE Deliver
  BY <1>19 DEF Deliver, SaveTask
<1>20. CASE Restart
  BY <1>20 DEF Restart, Interrupted, Terminated, Same
<1>21. ASSUME NEW t \in Turns, AskTurn(t)
      PROVE  CopyInv'
  BY <1>21 DEF AskTurn
<1>22. ASSUME NEW t \in Turns, Answer(t)
      PROVE  CopyInv'
  BY <1>22 DEF Answer, Answerable
<1>23. ASSUME NEW t \in Turns, Expire(t)
      PROVE  CopyInv'
  BY <1>23 DEF Expire
<1>24. ASSUME NEW t \in Turns, Serve(t)
      PROVE  CopyInv'
  BY <1>24 DEF Serve, Emit
<1>25. ASSUME NEW v \in Verifiers, VerifyLoad(v)
      PROVE  CopyInv'
  BY <1>25 DEF VerifyLoad
<1>26. ASSUME NEW v \in Verifiers, VerifyInspect(v)
      PROVE  CopyInv'
  BY <1>26 DEF VerifyInspect
<1>27. ASSUME NEW v \in Verifiers, VerifyCommands(v)
      PROVE  CopyInv'
  BY <1>27 DEF VerifyCommands, Unmoved
<1>28. ASSUME NEW v \in Verifiers, VerifyFails(v)
      PROVE  CopyInv'
  BY <1>28 DEF VerifyFails, VerifyEnds, Same
<1>29. ASSUME NEW v \in Verifiers, VerifySave(v)
      PROVE  CopyInv'
  BY <1>29 DEF VerifySave, VerifyEnds, Same
<1>30. CASE UNCHANGED vars
  BY <1>30 DEF vars
<1> QED
  BY <1>1, <1>2, <1>3, <1>4, <1>5, <1>6, <1>7, <1>8, <1>9, <1>10, <1>11, <1>12, <1>13,
      <1>14, <1>15, <1>16, <1>17, <1>18, <1>19, <1>20, <1>21, <1>22, <1>23, <1>24,
      <1>25, <1>26, <1>27, <1>28, <1>29, <1>30
  DEF Next, Start, Pump, Turning, Stopping, Verify

\* Each save of the task spoils the copies of the verifications.
LEMMA VerifierStep == TypeOK /\ VerifierInv /\ [Next]_vars => VerifierInv'
<1> SUFFICES ASSUME TypeOK, VerifierInv, [Next]_vars
             PROVE  VerifierInv'
  OBVIOUS
<1> USE ImplementationAssumption DEF TypeOK, VerifierInv, taskVars, storeVars, callVars,
    serviceVars, serverVars, treeVars, verifyVars
<1>1. CASE StartLoad
  BY <1>1 DEF StartLoad, Resume, SaveTask
<1>2. CASE Connect
  BY <1>2 DEF Connect
<1>3. CASE ConnectFails
  BY <1>3 DEF ConnectFails, Terminated
<1>4. CASE Enter
  BY <1>4 DEF Enter, EntersFrom, SaveTask, Terminated
<1>5. CASE Activate
  BY <1>5 DEF Activate, JobStep
<1>6. CASE Read
  BY <1>6 DEF Read, Refused, Persist, EndsTurn, SaveTask
<1>7. CASE CutLine
  BY <1>7 DEF CutLine
<1>8. CASE ReadFails
  BY <1>8 DEF ReadFails, Refused
<1>9. CASE CrashLoad
  BY <1>9 DEF CrashLoad, Terminated
<1>10. CASE CrashSave
  BY <1>10 DEF CrashSave, SaveTask, JobStep, CanInterrupt
<1>11. CASE TurnStarted
  BY <1>11 DEF TurnStarted
<1>12. CASE TurnFails
  BY <1>12 DEF TurnFails, Refused
<1>13. CASE SaveDecision
  BY <1>13 DEF SaveDecision
<1>14. CASE Interrupt
  BY <1>14 DEF Interrupt, JobStep
<1>15. CASE Stop
  BY <1>15 DEF Stop, Terminated
<1>16. CASE SaveStopped
  BY <1>16 DEF SaveStopped, SaveTask, JobStep, CanInterrupt, CompletedBefore
<1>17. CASE Exit
  BY <1>17 DEF Exit
<1>18. CASE Edit
  BY <1>18 DEF Edit
<1>19. CASE Deliver
  BY <1>19 DEF Deliver, SaveTask
<1>20. CASE Restart
  BY <1>20 DEF Restart, Interrupted, Terminated, Same
<1>21. ASSUME NEW t \in Turns, AskTurn(t)
      PROVE  VerifierInv'
  BY <1>21 DEF AskTurn
<1>22. ASSUME NEW t \in Turns, Answer(t)
      PROVE  VerifierInv'
  BY <1>22 DEF Answer, Answerable
<1>23. ASSUME NEW t \in Turns, Expire(t)
      PROVE  VerifierInv'
  BY <1>23 DEF Expire
<1>24. ASSUME NEW t \in Turns, Serve(t)
      PROVE  VerifierInv'
  BY <1>24 DEF Serve, Emit
<1>25. ASSUME NEW v \in Verifiers, VerifyLoad(v)
      PROVE  VerifierInv'
  BY <1>25 DEF VerifyLoad
<1>26. ASSUME NEW v \in Verifiers, VerifyInspect(v)
      PROVE  VerifierInv'
  BY <1>26 DEF VerifyInspect
<1>27. ASSUME NEW v \in Verifiers, VerifyCommands(v)
      PROVE  VerifierInv'
  BY <1>27 DEF VerifyCommands, Unmoved
<1>28. ASSUME NEW v \in Verifiers, VerifyFails(v)
      PROVE  VerifierInv'
  BY <1>28 DEF VerifyFails, VerifyEnds, Same
<1>29. ASSUME NEW v \in Verifiers, VerifySave(v)
      PROVE  VerifierInv'
  BY <1>29 DEF VerifySave, VerifyEnds, Same
<1>30. CASE UNCHANGED vars
  BY <1>30 DEF vars
<1> QED
  BY <1>1, <1>2, <1>3, <1>4, <1>5, <1>6, <1>7, <1>8, <1>9, <1>10, <1>11, <1>12, <1>13,
      <1>14, <1>15, <1>16, <1>17, <1>18, <1>19, <1>20, <1>21, <1>22, <1>23, <1>24,
      <1>25, <1>26, <1>27, <1>28, <1>29, <1>30
  DEF Next, Start, Pump, Turning, Stopping, Verify

\* A turn becomes the active one by its response, and is lost by its completion.
LEMMA TurnStep == TypeOK /\ OwnerInv /\ TurnInv /\ PipeInv /\ [Next]_vars => TurnInv'
<1> SUFFICES ASSUME TypeOK, OwnerInv, TurnInv, PipeInv, [Next]_vars
             PROVE  TurnInv'
  OBVIOUS
<1> USE ImplementationAssumption DEF TypeOK, OwnerInv, TurnInv, Generations, Starting,
    Calling, taskVars, storeVars, callVars, serviceVars, serverVars, treeVars,
    verifyVars
<1>1. CASE StartLoad
  BY <1>1 DEF StartLoad, Resume, SaveTask
<1>2. CASE Connect
  BY <1>2 DEF Connect
<1>3. CASE ConnectFails
  BY <1>3 DEF ConnectFails, Terminated
<1>4. CASE Enter
  BY <1>4 DEF Enter, EntersFrom, SaveTask, Terminated
<1>5. CASE Activate
  BY <1>5 DEF Activate, JobStep
<1>6. CASE Read

  <2>1. /\ Head(out) = out[1]
        /\ EndsTurn(Head(out)) => Head(out) \in EndOf(turn) /\ turn \in Turns
    BY <1>6, HeadOfPipe, MessageParts DEF Read, EndsTurn, Ends, EndOf
  <2>2. EndsTurn(Head(out)) => server[turn] = "ended"
    BY <2>1, <1>6, HeadOfPipe DEF Read, PipeInv
  <2>3. turn' = turn \/ (turn' = None /\ EndsTurn(Head(out)))
    BY <1>6 DEF Read, Persist
  <2>4. UNCHANGED <<callVars, gen, active, ready, server, home>>
    BY <1>6 DEF Read
  <2> QED
    BY <2>2, <2>3, <2>4
<1>7. CASE CutLine
  BY <1>7 DEF CutLine
<1>8. CASE ReadFails
  BY <1>8 DEF ReadFails, Refused
<1>9. CASE CrashLoad
  BY <1>9 DEF CrashLoad, Terminated
<1>10. CASE CrashSave
  BY <1>10 DEF CrashSave, SaveTask, JobStep, CanInterrupt
<1>11. CASE TurnStarted
  BY <1>11 DEF TurnStarted
<1>12. CASE TurnFails
  BY <1>12 DEF TurnFails, Refused
<1>13. CASE SaveDecision
  BY <1>13 DEF SaveDecision
<1>14. CASE Interrupt
  BY <1>14 DEF Interrupt, JobStep
<1>15. CASE Stop
  BY <1>15 DEF Stop, Terminated
<1>16. CASE SaveStopped
  BY <1>16 DEF SaveStopped, SaveTask, JobStep, CanInterrupt, CompletedBefore
<1>17. CASE Exit
  BY <1>17 DEF Exit
<1>18. CASE Edit
  BY <1>18 DEF Edit
<1>19. CASE Deliver
  BY <1>19 DEF Deliver, SaveTask
<1>20. CASE Restart
  BY <1>20 DEF Restart, Interrupted, Terminated, Same
<1>21. ASSUME NEW t \in Turns, AskTurn(t)
      PROVE  TurnInv'
  BY <1>21 DEF AskTurn
<1>22. ASSUME NEW t \in Turns, Answer(t)
      PROVE  TurnInv'
  BY <1>22 DEF Answer, Answerable
<1>23. ASSUME NEW t \in Turns, Expire(t)
      PROVE  TurnInv'
  BY <1>23 DEF Expire
<1>24. ASSUME NEW t \in Turns, Serve(t)
      PROVE  TurnInv'
  BY <1>24 DEF Serve, Emit
<1>25. ASSUME NEW v \in Verifiers, VerifyLoad(v)
      PROVE  TurnInv'
  BY <1>25 DEF VerifyLoad
<1>26. ASSUME NEW v \in Verifiers, VerifyInspect(v)
      PROVE  TurnInv'
  BY <1>26 DEF VerifyInspect
<1>27. ASSUME NEW v \in Verifiers, VerifyCommands(v)
      PROVE  TurnInv'
  BY <1>27 DEF VerifyCommands, Unmoved
<1>28. ASSUME NEW v \in Verifiers, VerifyFails(v)
      PROVE  TurnInv'
  BY <1>28 DEF VerifyFails, VerifyEnds, Same
<1>29. ASSUME NEW v \in Verifiers, VerifySave(v)
      PROVE  TurnInv'
  BY <1>29 DEF VerifySave, VerifyEnds, Same
<1>30. CASE UNCHANGED vars
  BY <1>30 DEF vars
<1> QED
  BY <1>1, <1>2, <1>3, <1>4, <1>5, <1>6, <1>7, <1>8, <1>9, <1>10, <1>11, <1>12, <1>13,
      <1>14, <1>15, <1>16, <1>17, <1>18, <1>19, <1>20, <1>21, <1>22, <1>23, <1>24,
      <1>25, <1>26, <1>27, <1>28, <1>29, <1>30
  DEF Next, Start, Pump, Turning, Stopping, Verify

\* Only an interruption settles a job as succeeded.
LEMMA SucceededStep == TypeOK /\ OwnerInv /\ TurnInv /\ SucceededHasEnded /\ [Next]_vars => SucceededHasEnded'
<1> SUFFICES ASSUME TypeOK, OwnerInv, TurnInv, SucceededHasEnded, [Next]_vars
             PROVE  SucceededHasEnded'
  OBVIOUS
<1> USE ImplementationAssumption DEF TypeOK, OwnerInv, TurnInv, Generations,
    SucceededHasEnded, taskVars, storeVars, callVars, serviceVars, serverVars,
    treeVars, verifyVars
<1>1. CASE StartLoad

  <2>1. UNCHANGED <<job, home, server>>
    BY <1>1 DEF StartLoad
  <2> QED
    BY <2>1
<1>2. CASE Connect
  BY <1>2 DEF Connect
<1>3. CASE ConnectFails
  BY <1>3 DEF ConnectFails, Terminated
<1>4. CASE Enter
  BY <1>4 DEF Enter, EntersFrom, SaveTask, Terminated
<1>5. CASE Activate
  BY <1>5 DEF Activate, JobStep
<1>6. CASE Read
  BY <1>6 DEF Read, Refused, Persist, EndsTurn, SaveTask
<1>7. CASE CutLine
  BY <1>7 DEF CutLine
<1>8. CASE ReadFails
  BY <1>8 DEF ReadFails, Refused
<1>9. CASE CrashLoad
  BY <1>9 DEF CrashLoad, Terminated
<1>10. CASE CrashSave
  BY <1>10 DEF CrashSave, SaveTask, JobStep, CanInterrupt
<1>11. CASE TurnStarted
  BY <1>11 DEF TurnStarted
<1>12. CASE TurnFails
  BY <1>12 DEF TurnFails, Refused
<1>13. CASE SaveDecision
  BY <1>13 DEF SaveDecision
<1>14. CASE Interrupt
  BY <1>14 DEF Interrupt, JobStep
<1>15. CASE Stop
  BY <1>15 DEF Stop, Terminated
<1>16. CASE SaveStopped

  <2>1. UNCHANGED <<home, server>>
    BY <1>16 DEF SaveStopped
  <2>2. ASSUME NEW g \in Generations, job'[g] = "succeeded", job[g] # "succeeded"
        PROVE  g = gen /\ pc = "stopped" /\ waiting # None
    BY <2>2, <1>16 DEF SaveStopped, JobStep, CompletedBefore
  <2>3. pc = "stopped" /\ waiting # None =>
           waiting \in Turns /\ home[waiting] = gen /\ server[waiting] = "ended"
    OBVIOUS
  <2> QED
    BY <2>1, <2>2, <2>3
<1>17. CASE Exit
  BY <1>17 DEF Exit
<1>18. CASE Edit
  BY <1>18 DEF Edit
<1>19. CASE Deliver
  BY <1>19 DEF Deliver, SaveTask
<1>20. CASE Restart
  BY <1>20 DEF Restart, Interrupted, Terminated, Same
<1>21. ASSUME NEW t \in Turns, AskTurn(t)
      PROVE  SucceededHasEnded'
  BY <1>21 DEF AskTurn
<1>22. ASSUME NEW t \in Turns, Answer(t)
      PROVE  SucceededHasEnded'
  BY <1>22 DEF Answer, Answerable
<1>23. ASSUME NEW t \in Turns, Expire(t)
      PROVE  SucceededHasEnded'
  BY <1>23 DEF Expire
<1>24. ASSUME NEW t \in Turns, Serve(t)
      PROVE  SucceededHasEnded'
  BY <1>24 DEF Serve, Emit
<1>25. ASSUME NEW v \in Verifiers, VerifyLoad(v)
      PROVE  SucceededHasEnded'
  BY <1>25 DEF VerifyLoad
<1>26. ASSUME NEW v \in Verifiers, VerifyInspect(v)
      PROVE  SucceededHasEnded'
  BY <1>26 DEF VerifyInspect
<1>27. ASSUME NEW v \in Verifiers, VerifyCommands(v)
      PROVE  SucceededHasEnded'
  BY <1>27 DEF VerifyCommands, Unmoved
<1>28. ASSUME NEW v \in Verifiers, VerifyFails(v)
      PROVE  SucceededHasEnded'
  BY <1>28 DEF VerifyFails, VerifyEnds, Same
<1>29. ASSUME NEW v \in Verifiers, VerifySave(v)
      PROVE  SucceededHasEnded'
  BY <1>29 DEF VerifySave, VerifyEnds, Same
<1>30. CASE UNCHANGED vars
  BY <1>30 DEF vars
<1> QED
  BY <1>1, <1>2, <1>3, <1>4, <1>5, <1>6, <1>7, <1>8, <1>9, <1>10, <1>11, <1>12, <1>13,
      <1>14, <1>15, <1>16, <1>17, <1>18, <1>19, <1>20, <1>21, <1>22, <1>23, <1>24,
      <1>25, <1>26, <1>27, <1>28, <1>29, <1>30
  DEF Next, Start, Pump, Turning, Stopping, Verify

\* An answer is written for a pending approval of the active process.
LEMMA AnswerStep == TypeOK /\ OwnerInv /\ TurnInv /\ PipeInv /\ AnswerInv /\ [Next]_vars => AnswerInv'
<1> SUFFICES ASSUME TypeOK, OwnerInv, TurnInv, PipeInv, AnswerInv, [Next]_vars
             PROVE  AnswerInv'
  OBVIOUS
<1> USE ImplementationAssumption DEF TypeOK, OwnerInv, TurnInv, AnswerInv, Generations,
    Starting, Calling, taskVars, storeVars, callVars, serviceVars, serverVars, treeVars,
    verifyVars
<1>1. CASE StartLoad
  BY <1>1 DEF StartLoad, Resume, SaveTask
<1>2. CASE Connect
  BY <1>2 DEF Connect
<1>3. CASE ConnectFails
  BY <1>3 DEF ConnectFails, Terminated
<1>4. CASE Enter
  BY <1>4 DEF Enter, EntersFrom, SaveTask, Terminated
<1>5. CASE Activate
  BY <1>5 DEF Activate, JobStep
<1>6. CASE Read

  <2>1. /\ 1 \in 1..Len(out)
        /\ Head(out) = out[1]
        /\ Head(out)[1] = "approval" => Head(out) = <<"approval", Head(out)[2]>> /\ Head(out)[2] \in Turns
    BY <1>6, HeadOfPipe, MessageParts DEF Read
  <2>2. ASSUME NEW t \in Turns, approval'[t] # approval[t]
        PROVE  approval[t] = "none" /\ approval'[t] = "pending"
    BY <2>1, <2>2, <1>6 DEF Read, Persist, PipeInv
  <2>3. UNCHANGED <<callVars, gen, active, home, answered>>
    BY <1>6 DEF Read
  <2> QED
    BY <2>2, <2>3
<1>7. CASE CutLine
  BY <1>7 DEF CutLine
<1>8. CASE ReadFails
  BY <1>8 DEF ReadFails, Refused
<1>9. CASE CrashLoad
  BY <1>9 DEF CrashLoad, Terminated
<1>10. CASE CrashSave
  BY <1>10 DEF CrashSave, SaveTask, JobStep, CanInterrupt
<1>11. CASE TurnStarted
  BY <1>11 DEF TurnStarted
<1>12. CASE TurnFails
  BY <1>12 DEF TurnFails, Refused
<1>13. CASE SaveDecision
  BY <1>13 DEF SaveDecision
<1>14. CASE Interrupt
  BY <1>14 DEF Interrupt, JobStep
<1>15. CASE Stop
  BY <1>15 DEF Stop, Terminated
<1>16. CASE SaveStopped
  BY <1>16 DEF SaveStopped, SaveTask, JobStep, CanInterrupt, CompletedBefore
<1>17. CASE Exit
  BY <1>17 DEF Exit
<1>18. CASE Edit
  BY <1>18 DEF Edit
<1>19. CASE Deliver
  BY <1>19 DEF Deliver, SaveTask
<1>20. CASE Restart
  BY <1>20 DEF Restart, Interrupted, Terminated, Same
<1>21. ASSUME NEW t \in Turns, AskTurn(t)
      PROVE  AnswerInv'
  BY <1>21 DEF AskTurn
<1>22. ASSUME NEW t \in Turns, Answer(t)
      PROVE  AnswerInv'
  <2>1. /\ pc = "idle" /\ active # 0 /\ approval[t] = "pending"
        /\ UNCHANGED <<gen, active, home>>
    BY <1>22 DEF Answer, serviceVars
  <2>2. CASE Answerable(t)
    <3>1. /\ home[t] = active /\ home[t] = gen
          /\ answered' = [answered EXCEPT ![t] = Append(@, active)]
          /\ pc' = "answering" /\ waiting' = t /\ UNCHANGED approval
      BY <1>22, <2>2 DEF Answer, Answerable
    <3>2. answered[t] = <<>>
      BY <2>1, <3>1 DEF AnswerInv, TypeOK
    <3>3. answered'[t] = <<home[t]>> /\ home[t] # 0
      <4>1. answered'[t] = Append(answered[t], active)
        BY <3>1 DEF TypeOK
      <4>2. Append(answered[t], active) = <<active>>
        BY <3>2
      <4> QED
        BY <2>1, <3>1, <4>1, <4>2
    <3>4. \A u \in Turns \ {t} : answered'[u] = answered[u]
      BY <3>1 DEF TypeOK
    <3> QED
      BY <2>1, <3>1, <3>3, <3>4 DEF AnswerInv
  <2>3. CASE ~Answerable(t)
    <3>1. /\ approval' = [approval EXCEPT ![t] = "invalidated"]
          /\ UNCHANGED <<answered, pc, waiting>>
      BY <1>22, <2>3 DEF Answer
    <3> QED
      BY <2>1, <3>1 DEF AnswerInv, TypeOK
  <2> QED
    BY <2>2, <2>3
<1>23. ASSUME NEW t \in Turns, Expire(t)
      PROVE  AnswerInv'
  BY <1>23 DEF Expire
<1>24. ASSUME NEW t \in Turns, Serve(t)
      PROVE  AnswerInv'
  BY <1>24 DEF Serve, Emit
<1>25. ASSUME NEW v \in Verifiers, VerifyLoad(v)
      PROVE  AnswerInv'
  BY <1>25 DEF VerifyLoad
<1>26. ASSUME NEW v \in Verifiers, VerifyInspect(v)
      PROVE  AnswerInv'
  BY <1>26 DEF VerifyInspect
<1>27. ASSUME NEW v \in Verifiers, VerifyCommands(v)
      PROVE  AnswerInv'
  BY <1>27 DEF VerifyCommands, Unmoved
<1>28. ASSUME NEW v \in Verifiers, VerifyFails(v)
      PROVE  AnswerInv'
  BY <1>28 DEF VerifyFails, VerifyEnds, Same
<1>29. ASSUME NEW v \in Verifiers, VerifySave(v)
      PROVE  AnswerInv'
  BY <1>29 DEF VerifySave, VerifyEnds, Same
<1>30. CASE UNCHANGED vars
  BY <1>30 DEF vars
<1> QED
  BY <1>1, <1>2, <1>3, <1>4, <1>5, <1>6, <1>7, <1>8, <1>9, <1>10, <1>11, <1>12, <1>13,
      <1>14, <1>15, <1>16, <1>17, <1>18, <1>19, <1>20, <1>21, <1>22, <1>23, <1>24,
      <1>25, <1>26, <1>27, <1>28, <1>29, <1>30
  DEF Next, Start, Pump, Turning, Stopping, Verify

\* A step that neither reads nor writes it.
LEMMA PipeKept ==
    ASSUME PipeInv, UNCHANGED <<out, gen>>,
           \A t \in Turns : home[t] = gen /\ server[t] = "ended" =>
                                home'[t] = gen /\ server'[t] = "ended",
           \A t \in Turns : approval[t] = "none" => approval'[t] = "none"
    PROVE  PipeInv'
BY DEF PipeInv

\* A message is read, and an approval that it asks for is recorded.
LEMMA PipeRead ==
    ASSUME TypeOK, PipeInv, out # <<>>, out' = Tail(out), UNCHANGED <<gen, home, server>>,
           \A t \in Turns : approval'[t] = approval[t] \/ out[1] = <<"approval", t>>
    PROVE  PipeInv'
<1>1. /\ 1 \in 1..Len(out)
      /\ \A i \in 1..Len(out') : i + 1 \in 1..Len(out) /\ i + 1 # 1 /\ out'[i] = out[i + 1]
  BY HeadOfPipe
<1>2. ASSUME NEW t \in Turns, NEW i \in 1..Len(out'), out'[i] \in EndOf(t)
      PROVE  home'[t] = gen' /\ server'[t] = "ended"
  <2>1. out[i + 1] \in EndOf(t)
    BY <1>1, <1>2
  <2> QED
    BY <1>1, <2>1 DEF PipeInv
<1>3. ASSUME NEW t \in Turns, NEW i \in 1..Len(out'), out'[i] = <<"approval", t>>
      PROVE  /\ approval'[t] = "none"
             /\ \A j \in 1..Len(out') : out'[j] = <<"approval", t>> => i = j
  <2>1. i + 1 \in 1..Len(out) /\ out[i + 1] = <<"approval", t>>
    BY <1>1, <1>3
  <2>2. /\ approval[t] = "none"
        /\ \A j \in 1..Len(out) : out[j] = <<"approval", t>> => i + 1 = j
    BY <2>1 DEF PipeInv
  <2>3. approval'[t] = "none"
    BY <1>1, <2>2
  <2>4. ASSUME NEW j \in 1..Len(out'), out'[j] = <<"approval", t>>
        PROVE  i = j
    <3>1. i + 1 = j + 1
      BY <1>1, <2>2, <2>4
    <3> QED
      BY <3>1
  <2> QED
    BY <2>3, <2>4
<1> QED
  BY <1>2, <1>3 DEF PipeInv

\* The poll that cuts a line.
LEMMA PipeCut ==
    ASSUME TypeOK, PipeInv, CutLine
    PROVE  PipeInv'
<1>1. UNCHANGED <<gen, home, server, approval>>
  BY DEF CutLine, storeVars, serviceVars
<1>2. /\ 1..Len(out') = 1..Len(out)
      /\ out'[1] = <<"garbage">>
      /\ \A i \in 1..Len(out) : i # 1 => out'[i] = out[i]
  BY CutOfPipe DEF CutLine, Message
<1>3. \A t \in Turns : <<"garbage">> \notin EndOf(t) \cup {<<"approval", t>>}
  BY DEF EndOf
<1>4. \A i \in 1..Len(out'), t \in Turns :
         out'[i] \in EndOf(t) \cup {<<"approval", t>>} => out'[i] = out[i]
  BY <1>2, <1>3
<1> QED
  BY <1>1, <1>2, <1>4 DEF PipeInv

\* The app-server writes.
LEMMA PipeServe ==
    ASSUME TypeOK, PipeInv, NEW t \in Turns, Serve(t)
    PROVE  PipeInv'
<1>1. PICK m \in Message : out' = Append(out, m)
  BY DEF Serve, Emit, Message, Ends
<1>2. /\ Len(out') = Len(out) + 1
      /\ \A i \in 1..Len(out) : out'[i] = out[i]
      /\ out'[Len(out) + 1] = m
      /\ Len(out) \in Nat
  BY <1>1, AppendToPipe, LenProperties DEF TypeOK
<1>3. UNCHANGED <<gen, home, approval>>
  BY DEF Serve, storeVars, serviceVars
<1>4. /\ home[t] = gen
      /\ \A u \in Turns : server[u] = "ended" => server'[u] = "ended"
      /\ \A u \in Turns : m \in EndOf(u) => u = t /\ server'[u] = "ended"
      /\ \A u \in Turns : m = <<"approval", u>> =>
            u = t /\ approval[t] = "none" /\ \A i \in 1..Len(out) : out[i] # <<"approval", t>>
  <2>1. CASE server[t] = "requested" /\ m = <<"response", t>>
               /\ server' = [server EXCEPT ![t] = "started"]
    BY <2>1 DEF Serve, TypeOK, EndOf
  <2>2. CASE m = <<"approval", t>> /\ UNCHANGED server /\ approval[t] = "none"
               /\ \A i \in DOMAIN out : out[i] # <<"approval", t>>
    BY <2>2, LenProperties DEF Serve, TypeOK, EndOf
  <2>3. CASE m \in EndOf(t) /\ server' = [server EXCEPT ![t] = "ended"]
    BY <2>3 DEF Serve, TypeOK, EndOf
  <2>4. \A n : Append(out, m) = Append(out, n) /\ n \in Message => m = n
    BY AppendInjective DEF TypeOK
  <2>5. {<<"response", t>>, <<"approval", t>>} \cup EndOf(t) \subseteq Message
    BY DEF Message, Ends, EndOf
  <2> QED
    BY <1>1, <2>1, <2>2, <2>3, <2>4, <2>5 DEF Serve, Emit, Ends, EndOf
<1>5. ASSUME NEW u \in Turns, NEW i \in 1..Len(out'), out'[i] \in EndOf(u)
      PROVE  home'[u] = gen' /\ server'[u] = "ended"
  <2>1. CASE i \in 1..Len(out)
    BY <1>2, <1>3, <1>4, <1>5, <2>1 DEF PipeInv
  <2>2. CASE i = Len(out) + 1
    BY <1>2, <1>3, <1>4, <1>5, <2>2
  <2> QED
    BY <1>2, <2>1, <2>2
<1>6. ASSUME NEW u \in Turns, NEW i \in 1..Len(out'), out'[i] = <<"approval", u>>
      PROVE  /\ approval'[u] = "none"
             /\ \A j \in 1..Len(out') : out'[j] = <<"approval", u>> => i = j
  <2>1. CASE m = <<"approval", u>>
    BY <1>2, <1>3, <1>4, <1>6, <2>1
  <2>2. CASE m # <<"approval", u>>
    <3>1. \A j \in 1..Len(out') : out'[j] = <<"approval", u>> =>
             j \in 1..Len(out) /\ out[j] = <<"approval", u>>
      <4> SUFFICES ASSUME NEW j \in 1..Len(out'), out'[j] = <<"approval", u>>
                   PROVE  j \in 1..Len(out) /\ out[j] = <<"approval", u>>
        OBVIOUS
      <4>1. j \in 1..Len(out) \/ j = Len(out) + 1
        BY <1>2
      <4>2. j # Len(out) + 1
        BY <1>2, <2>2
      <4> QED
        BY <1>2, <4>1, <4>2
    <3> QED
      BY <1>3, <1>6, <3>1 DEF PipeInv
  <2> QED
    BY <2>1, <2>2
<1> QED
  BY <1>5, <1>6 DEF PipeInv

\* No step breaks what the pipe tells.
LEMMA PipeStep == TypeOK /\ OwnerInv /\ TurnInv /\ AnswerInv /\ PipeInv /\ [Next]_vars => PipeInv'
<1> SUFFICES ASSUME TypeOK, OwnerInv, TurnInv, AnswerInv, PipeInv, [Next]_vars
             PROVE  PipeInv'
  OBVIOUS
<1> USE DEF taskVars, storeVars, callVars, serviceVars, serverVars, treeVars, verifyVars
<1>1. CASE out' = <<>>
  BY <1>1 DEF PipeInv
<1>2. CASE Read
  <2>1. /\ Head(out) = out[1]
        /\ Head(out)[1] = "approval" => Head(out) = <<"approval", Head(out)[2]>>
    BY <1>2, HeadOfPipe, MessageParts DEF Read
  <2>2. \A t \in Turns : approval'[t] = approval[t] \/ out[1] = <<"approval", t>>
    BY <1>2, <2>1 DEF Read, Persist, TypeOK
  <2> QED
    BY <1>2, <2>2, PipeRead DEF Read
<1>3. CASE ReadFails \/ TurnStarted \/ TurnFails
  <2>1. out' = out \/ (out # <<>> /\ out' = Tail(out))
    BY <1>3 DEF ReadFails, TurnStarted, TurnFails
  <2>2. UNCHANGED <<gen, home, server, approval>>
    BY <1>3 DEF ReadFails, TurnStarted, TurnFails
  <2> QED
    BY <2>1, <2>2, PipeKept, PipeRead
<1>4. CASE \/ ConnectFails \/ Connect \/ Enter \/ Activate \/ CrashSave \/ Interrupt \/ SaveStopped
           \/ Exit \/ Edit \/ Deliver \/ \E v \in Verifiers : Verify(v)
  <2>1. UNCHANGED <<out, gen, home, server, approval>>
    BY <1>4
    DEF ConnectFails, Connect, Enter, Activate, CrashSave, Interrupt, SaveStopped, Exit,
        Edit, Deliver,
                Verify, VerifyLoad, VerifyInspect, VerifyCommands, VerifyFails, VerifySave
  <2> QED
    BY <2>1, PipeKept
<1>5. ASSUME NEW t \in Turns, Answer(t) \/ Expire(t)
      PROVE  PipeInv'
  <2>1. \A u \in Turns : approval[u] = "none" => approval'[u] = "none"
    BY <1>5 DEF Answer, Expire, TypeOK
  <2>2. UNCHANGED <<out, gen, home, server>>
    BY <1>5 DEF Answer, Expire
  <2> QED
    BY <2>1, <2>2, PipeKept
<1>6. CASE SaveDecision
  <2>1. \A u \in Turns : approval[u] = "none" => approval'[u] = "none"
    BY <1>6 DEF SaveDecision, TypeOK, AnswerInv
  <2>2. UNCHANGED <<out, gen, home, server>>
    BY <1>6 DEF SaveDecision
  <2> QED
    BY <2>1, <2>2, PipeKept
<1>7. ASSUME NEW t \in Turns, AskTurn(t)
      PROVE  PipeInv'
  <2>1. home[t] # gen
    BY <1>7 DEF AskTurn, OwnerInv, TypeOK
  <2>2. \A u \in Turns : home[u] = gen /\ server[u] = "ended" =>
                             home'[u] = gen /\ server'[u] = "ended"
    BY <1>7, <2>1 DEF AskTurn, TypeOK
  <2>3. UNCHANGED <<out, gen, approval>>
    BY <1>7 DEF AskTurn
  <2> QED
    BY <2>2, <2>3, PipeKept
<1>8. CASE StartLoad
  <2>1. UNCHANGED <<home, server, approval>> /\ (out' = <<>> \/ UNCHANGED <<out, gen>>)
    BY <1>8 DEF StartLoad
  <2> QED
    BY <1>1, <2>1, PipeKept
<1>9. CASE UNCHANGED vars
  <2>1. UNCHANGED <<out, gen, home, server, approval>>
    BY <1>9 DEF vars
  <2> QED
    BY <2>1, PipeKept
<1>10. CASE CrashLoad \/ Stop \/ Restart
  BY <1>1, <1>10 DEF CrashLoad, Stop, Restart
<1> QED
  BY <1>2, <1>3, <1>4, <1>5, <1>6, <1>7, <1>8, <1>9, <1>10, PipeCut, PipeServe
  DEF Next, Start, Pump, Turning, Stopping

\* The pipe holds whole messages and cut ones.
LEMMA PipeType ==
    ASSUME TypeOK, [Next]_vars
    PROVE  out' \in Seq(Message)
<1> USE DEF taskVars, storeVars, callVars, serviceVars, serverVars, treeVars, verifyVars
<1>1. out \in Seq(Message)
  BY DEF TypeOK
<1>2. CASE Read \/ ReadFails \/ TurnStarted \/ TurnFails
  <2>1. out' = out \/ (out # <<>> /\ out' = Tail(out))
    BY <1>2 DEF Read, ReadFails, TurnStarted, TurnFails
  <2> QED
    BY <1>1, <2>1, HeadOfPipe
<1>3. CASE CutLine
  BY <1>3, CutOfPipe DEF CutLine, Message
<1>4. ASSUME NEW t \in Turns, Serve(t)
      PROVE  out' \in Seq(Message)
  <2>1. PICK m \in Message : out' = Append(out, m)
    BY <1>4 DEF Serve, Emit, Message
  <2> QED
    BY <2>1, AppendToPipe
<1>5. CASE StartLoad \/ CrashLoad \/ Stop \/ Restart
  <2>1. out' = out \/ out' = <<>>
    BY <1>5 DEF StartLoad, CrashLoad, Stop, Restart
  <2>2. <<>> \in Seq(Message)
    OBVIOUS
  <2> QED
    BY <1>1, <2>1, <2>2
<1>6. CASE \/ ConnectFails \/ Connect \/ Enter \/ Activate \/ CrashSave \/ Interrupt \/ SaveStopped
           \/ Exit \/ Edit \/ Deliver \/ SaveDecision
           \/ \E v \in Verifiers : Verify(v)
           \/ \E t \in Turns : AskTurn(t) \/ Answer(t) \/ Expire(t)
           \/ UNCHANGED vars
  <2>1. UNCHANGED out
    BY <1>6
    DEF ConnectFails, Connect, Enter, Activate, CrashSave, Interrupt, SaveStopped, Exit,
        Edit, Deliver,
                SaveDecision, AskTurn, Answer, Expire,
                Verify, VerifyLoad, VerifyInspect, VerifyCommands, VerifyFails, VerifySave, vars
  <2> QED
    BY <1>1, <2>1
<1> QED
  BY <1>2, <1>3, <1>4, <1>5, <1>6 DEF Next, Start, Pump, Turning, Stopping

\* What a call loads or saves of the task is a state of its stage.
TaskType ==
    /\ task \in Stage
    /\ previous \in Stage \cup {None}
    /\ task = "paused" <=> previous # None
    /\ copy \in Stage \cup {None}
    /\ touched \subseteq Verifiers

LEMMA TaskTypeStep == TypeOK /\ OwnerInv /\ CopyInv /\ VerifierInv /\ [Next]_vars => TaskType'
<1> SUFFICES ASSUME TypeOK, OwnerInv, CopyInv, VerifierInv, [Next]_vars
             PROVE  TaskType'
  OBVIOUS
<1> USE ImplementationAssumption, TaskStates DEF TypeOK, TaskType, OwnerInv, CopyInv,
    VerifierInv, Stage, Interruptions, Terminal, taskVars, storeVars, callVars,
    serviceVars, serverVars, treeVars, verifyVars
<1>1. CASE StartLoad
  BY <1>1 DEF StartLoad, Resume, SaveTask
<1>2. CASE Connect
  BY <1>2 DEF Connect
<1>3. CASE ConnectFails
  BY <1>3 DEF ConnectFails, Terminated
<1>4. CASE Enter
  BY <1>4 DEF Enter, EntersFrom, SaveTask, Terminated
<1>5. CASE Activate
  BY <1>5 DEF Activate, JobStep
<1>6. CASE Read
  BY <1>6 DEF Read, Refused, Persist, EndsTurn, SaveTask
<1>7. CASE CutLine
  BY <1>7 DEF CutLine
<1>8. CASE ReadFails
  BY <1>8 DEF ReadFails, Refused
<1>9. CASE CrashLoad
  BY <1>9 DEF CrashLoad, Terminated
<1>10. CASE CrashSave
  BY <1>10 DEF CrashSave, SaveTask, JobStep, CanInterrupt
<1>11. CASE TurnStarted
  BY <1>11 DEF TurnStarted
<1>12. CASE TurnFails
  BY <1>12 DEF TurnFails, Refused
<1>13. CASE SaveDecision
  BY <1>13 DEF SaveDecision
<1>14. CASE Interrupt
  BY <1>14 DEF Interrupt, JobStep
<1>15. CASE Stop
  BY <1>15 DEF Stop, Terminated
<1>16. CASE SaveStopped
  BY <1>16 DEF SaveStopped, SaveTask, JobStep, CanInterrupt, CompletedBefore
<1>17. CASE Exit
  BY <1>17 DEF Exit
<1>18. CASE Edit
  BY <1>18 DEF Edit
<1>19. CASE Deliver
  BY <1>19 DEF Deliver, SaveTask
<1>20. CASE Restart
  BY <1>20 DEF Restart, Interrupted, Terminated, Same
<1>21. ASSUME NEW t \in Turns, AskTurn(t)
      PROVE  TaskType'
  BY <1>21 DEF AskTurn
<1>22. ASSUME NEW t \in Turns, Answer(t)
      PROVE  TaskType'
  BY <1>22 DEF Answer, Answerable
<1>23. ASSUME NEW t \in Turns, Expire(t)
      PROVE  TaskType'
  BY <1>23 DEF Expire
<1>24. ASSUME NEW t \in Turns, Serve(t)
      PROVE  TaskType'
  BY <1>24 DEF Serve, Emit
<1>25. ASSUME NEW v \in Verifiers, VerifyLoad(v)
      PROVE  TaskType'
  BY <1>25 DEF VerifyLoad
<1>26. ASSUME NEW v \in Verifiers, VerifyInspect(v)
      PROVE  TaskType'
  BY <1>26 DEF VerifyInspect
<1>27. ASSUME NEW v \in Verifiers, VerifyCommands(v)
      PROVE  TaskType'
  BY <1>27 DEF VerifyCommands, Unmoved
<1>28. ASSUME NEW v \in Verifiers, VerifyFails(v)
      PROVE  TaskType'
  BY <1>28 DEF VerifyFails, VerifyEnds, Same
<1>29. ASSUME NEW v \in Verifiers, VerifySave(v)
      PROVE  TaskType'
  BY <1>29 DEF VerifySave, VerifyEnds, Same
<1>30. CASE UNCHANGED vars
  BY <1>30 DEF vars
<1> QED
  BY <1>1, <1>2, <1>3, <1>4, <1>5, <1>6, <1>7, <1>8, <1>9, <1>10, <1>11, <1>12, <1>13,
      <1>14, <1>15, <1>16, <1>17, <1>18, <1>19, <1>20, <1>21, <1>22, <1>23, <1>24,
      <1>25, <1>26, <1>27, <1>28, <1>29, <1>30
  DEF Next, Start, Pump, Turning, Stopping, Verify

\* The table of processes holds none or the newest.
CallType ==
    /\ thread \in BOOLEAN
    /\ pc \in Location
    /\ ready \in BOOLEAN
    /\ gen \in 0..MaxStarts
    /\ active \in {0, gen}
    /\ turn \in Turns \cup {None}
    /\ waiting \in Turns \cup {None}

LEMMA CallTypeStep == TypeOK /\ OwnerInv /\ CopyInv /\ VerifierInv /\ [Next]_vars => CallType'
<1> SUFFICES ASSUME TypeOK, OwnerInv, CopyInv, VerifierInv, [Next]_vars
             PROVE  CallType'
  OBVIOUS
<1> USE ImplementationAssumption DEF TypeOK, CallType, OwnerInv, Location, Starting,
    Calling, taskVars, storeVars, callVars, serviceVars, serverVars, treeVars,
    verifyVars
<1>1. CASE StartLoad
  BY <1>1 DEF StartLoad, Resume, SaveTask
<1>2. CASE Connect
  BY <1>2 DEF Connect
<1>3. CASE ConnectFails
  BY <1>3 DEF ConnectFails, Terminated
<1>4. CASE Enter
  BY <1>4 DEF Enter, EntersFrom, SaveTask, Terminated
<1>5. CASE Activate
  BY <1>5 DEF Activate, JobStep
<1>6. CASE Read
  BY <1>6 DEF Read, Refused, Persist, EndsTurn, SaveTask
<1>7. CASE CutLine
  BY <1>7 DEF CutLine
<1>8. CASE ReadFails
  BY <1>8 DEF ReadFails, Refused
<1>9. CASE CrashLoad
  BY <1>9 DEF CrashLoad, Terminated
<1>10. CASE CrashSave
  BY <1>10 DEF CrashSave, SaveTask, JobStep, CanInterrupt
<1>11. CASE TurnStarted
  BY <1>11 DEF TurnStarted
<1>12. CASE TurnFails
  BY <1>12 DEF TurnFails, Refused
<1>13. CASE SaveDecision
  BY <1>13 DEF SaveDecision
<1>14. CASE Interrupt
  BY <1>14 DEF Interrupt, JobStep
<1>15. CASE Stop
  BY <1>15 DEF Stop, Terminated
<1>16. CASE SaveStopped
  BY <1>16 DEF SaveStopped, SaveTask, JobStep, CanInterrupt, CompletedBefore
<1>17. CASE Exit
  BY <1>17 DEF Exit
<1>18. CASE Edit
  BY <1>18 DEF Edit
<1>19. CASE Deliver
  BY <1>19 DEF Deliver, SaveTask
<1>20. CASE Restart
  BY <1>20 DEF Restart, Interrupted, Terminated, Same
<1>21. ASSUME NEW t \in Turns, AskTurn(t)
      PROVE  CallType'
  BY <1>21 DEF AskTurn
<1>22. ASSUME NEW t \in Turns, Answer(t)
      PROVE  CallType'
  BY <1>22 DEF Answer, Answerable
<1>23. ASSUME NEW t \in Turns, Expire(t)
      PROVE  CallType'
  BY <1>23 DEF Expire
<1>24. ASSUME NEW t \in Turns, Serve(t)
      PROVE  CallType'
  BY <1>24 DEF Serve, Emit
<1>25. ASSUME NEW v \in Verifiers, VerifyLoad(v)
      PROVE  CallType'
  BY <1>25 DEF VerifyLoad
<1>26. ASSUME NEW v \in Verifiers, VerifyInspect(v)
      PROVE  CallType'
  BY <1>26 DEF VerifyInspect
<1>27. ASSUME NEW v \in Verifiers, VerifyCommands(v)
      PROVE  CallType'
  BY <1>27 DEF VerifyCommands, Unmoved
<1>28. ASSUME NEW v \in Verifiers, VerifyFails(v)
      PROVE  CallType'
  BY <1>28 DEF VerifyFails, VerifyEnds, Same
<1>29. ASSUME NEW v \in Verifiers, VerifySave(v)
      PROVE  CallType'
  BY <1>29 DEF VerifySave, VerifyEnds, Same
<1>30. CASE UNCHANGED vars
  BY <1>30 DEF vars
<1> QED
  BY <1>1, <1>2, <1>3, <1>4, <1>5, <1>6, <1>7, <1>8, <1>9, <1>10, <1>11, <1>12, <1>13,
      <1>14, <1>15, <1>16, <1>17, <1>18, <1>19, <1>20, <1>21, <1>22, <1>23, <1>24,
      <1>25, <1>26, <1>27, <1>28, <1>29, <1>30
  DEF Next, Start, Pump, Turning, Stopping, Verify

\* Jobs, approvals, app-servers and turns.
RecordType ==
    /\ job \in [Generations -> JobState]
    /\ approval \in [Turns -> {"none", "pending", "decided", "invalidated"}]
    /\ codex \in [Generations -> {"none", "running", "exited", "terminated"}]
    /\ server \in [Turns -> {"none", "requested", "started", "ended"}]
    /\ home \in [Turns -> 0..MaxStarts]
    /\ answered \in [Turns -> Seq(Generations)]

LEMMA RecordTypeStep == TypeOK /\ OwnerInv /\ CopyInv /\ VerifierInv /\ [Next]_vars => RecordType'
<1> SUFFICES ASSUME TypeOK, OwnerInv, CopyInv, VerifierInv, [Next]_vars
             PROVE  RecordType'
  OBVIOUS
<1> USE ImplementationAssumption DEF TypeOK, RecordType, Generations, JobState,
    taskVars, storeVars, callVars, serviceVars, serverVars, treeVars, verifyVars
<1>1. CASE StartLoad
  BY <1>1 DEF StartLoad, Resume, SaveTask
<1>2. CASE Connect
  BY <1>2 DEF Connect
<1>3. CASE ConnectFails
  BY <1>3 DEF ConnectFails, Terminated
<1>4. CASE Enter
  BY <1>4 DEF Enter, EntersFrom, SaveTask, Terminated
<1>5. CASE Activate
  BY <1>5 DEF Activate, JobStep
<1>6. CASE Read
  BY <1>6 DEF Read, Refused, Persist, EndsTurn, SaveTask
<1>7. CASE CutLine
  BY <1>7 DEF CutLine
<1>8. CASE ReadFails
  BY <1>8 DEF ReadFails, Refused
<1>9. CASE CrashLoad
  BY <1>9 DEF CrashLoad, Terminated
<1>10. CASE CrashSave
  BY <1>10 DEF CrashSave, SaveTask, JobStep, CanInterrupt
<1>11. CASE TurnStarted
  BY <1>11 DEF TurnStarted
<1>12. CASE TurnFails
  BY <1>12 DEF TurnFails, Refused
<1>13. CASE SaveDecision
  BY <1>13 DEF SaveDecision
<1>14. CASE Interrupt
  BY <1>14 DEF Interrupt, JobStep
<1>15. CASE Stop
  BY <1>15 DEF Stop, Terminated
<1>16. CASE SaveStopped
  BY <1>16 DEF SaveStopped, SaveTask, JobStep, CanInterrupt, CompletedBefore
<1>17. CASE Exit
  BY <1>17 DEF Exit
<1>18. CASE Edit
  BY <1>18 DEF Edit
<1>19. CASE Deliver
  BY <1>19 DEF Deliver, SaveTask
<1>20. CASE Restart
  BY <1>20 DEF Restart, Interrupted, Terminated, Same
<1>21. ASSUME NEW t \in Turns, AskTurn(t)
      PROVE  RecordType'
  BY <1>21 DEF AskTurn
<1>22. ASSUME NEW t \in Turns, Answer(t)
      PROVE  RecordType'

  <2>1. active \in Generations
    BY <1>22 DEF Answer
  <2>2. Append(answered[t], active) \in Seq(Generations)
    BY <2>1, AppendProperties
  <2>3. answered' \in [Turns -> Seq(Generations)]
    BY <2>2, <1>22 DEF Answer
  <2>4. approval' \in [Turns -> {"none", "pending", "decided", "invalidated"}]
    <3>1. approval' = approval \/ approval' = [approval EXCEPT ![t] = "invalidated"]
      BY <1>22 DEF Answer
    <3> QED
      BY <3>1
  <2>5. UNCHANGED <<job, codex, server, home>>
    BY <1>22 DEF Answer
  <2> QED
    BY <2>3, <2>4, <2>5
<1>23. ASSUME NEW t \in Turns, Expire(t)
      PROVE  RecordType'
  BY <1>23 DEF Expire
<1>24. ASSUME NEW t \in Turns, Serve(t)
      PROVE  RecordType'
  BY <1>24 DEF Serve, Emit
<1>25. ASSUME NEW v \in Verifiers, VerifyLoad(v)
      PROVE  RecordType'
  BY <1>25 DEF VerifyLoad
<1>26. ASSUME NEW v \in Verifiers, VerifyInspect(v)
      PROVE  RecordType'
  BY <1>26 DEF VerifyInspect
<1>27. ASSUME NEW v \in Verifiers, VerifyCommands(v)
      PROVE  RecordType'
  BY <1>27 DEF VerifyCommands, Unmoved
<1>28. ASSUME NEW v \in Verifiers, VerifyFails(v)
      PROVE  RecordType'
  BY <1>28 DEF VerifyFails, VerifyEnds, Same
<1>29. ASSUME NEW v \in Verifiers, VerifySave(v)
      PROVE  RecordType'
  BY <1>29 DEF VerifySave, VerifyEnds, Same
<1>30. CASE UNCHANGED vars
  BY <1>30 DEF vars
<1> QED
  BY <1>1, <1>2, <1>3, <1>4, <1>5, <1>6, <1>7, <1>8, <1>9, <1>10, <1>11, <1>12, <1>13,
      <1>14, <1>15, <1>16, <1>17, <1>18, <1>19, <1>20, <1>21, <1>22, <1>23, <1>24,
      <1>25, <1>26, <1>27, <1>28, <1>29, <1>30
  DEF Next, Start, Pump, Turning, Stopping, Verify

\* The worktree and its verifications.
TreeType ==
    /\ head \in 0..MaxCommits
    /\ dirty \in BOOLEAN
    /\ verifier \in [Verifiers -> {"idle", "entered", "running", "checked"}]
    /\ base \in [Verifiers -> 0..MaxCommits]
    /\ moved \subseteq Verifiers

LEMMA TreeTypeStep == TypeOK /\ OwnerInv /\ CopyInv /\ VerifierInv /\ [Next]_vars => TreeType'
<1> SUFFICES ASSUME TypeOK, OwnerInv, CopyInv, VerifierInv, [Next]_vars
             PROVE  TreeType'
  OBVIOUS
<1> USE ImplementationAssumption DEF TypeOK, TreeType, taskVars, storeVars, callVars,
    serviceVars, serverVars, treeVars, verifyVars
<1>1. CASE StartLoad
  BY <1>1 DEF StartLoad, Resume, SaveTask
<1>2. CASE Connect
  BY <1>2 DEF Connect
<1>3. CASE ConnectFails
  BY <1>3 DEF ConnectFails, Terminated
<1>4. CASE Enter
  BY <1>4 DEF Enter, EntersFrom, SaveTask, Terminated
<1>5. CASE Activate
  BY <1>5 DEF Activate, JobStep
<1>6. CASE Read
  BY <1>6 DEF Read, Refused, Persist, EndsTurn, SaveTask
<1>7. CASE CutLine
  BY <1>7 DEF CutLine
<1>8. CASE ReadFails
  BY <1>8 DEF ReadFails, Refused
<1>9. CASE CrashLoad
  BY <1>9 DEF CrashLoad, Terminated
<1>10. CASE CrashSave
  BY <1>10 DEF CrashSave, SaveTask, JobStep, CanInterrupt
<1>11. CASE TurnStarted
  BY <1>11 DEF TurnStarted
<1>12. CASE TurnFails
  BY <1>12 DEF TurnFails, Refused
<1>13. CASE SaveDecision
  BY <1>13 DEF SaveDecision
<1>14. CASE Interrupt
  BY <1>14 DEF Interrupt, JobStep
<1>15. CASE Stop
  BY <1>15 DEF Stop, Terminated
<1>16. CASE SaveStopped
  BY <1>16 DEF SaveStopped, SaveTask, JobStep, CanInterrupt, CompletedBefore
<1>17. CASE Exit
  BY <1>17 DEF Exit
<1>18. CASE Edit

  <2>1. head' \in 0..MaxCommits
    BY <1>18 DEF Edit
  <2>2. dirty' \in BOOLEAN
    BY <1>18 DEF Edit
  <2>3. moved' \subseteq Verifiers
    BY <1>18 DEF Edit
  <2>4. UNCHANGED <<verifier, base>>
    BY <1>18 DEF Edit
  <2> QED
    BY <2>1, <2>2, <2>3, <2>4
<1>19. CASE Deliver
  BY <1>19 DEF Deliver, SaveTask
<1>20. CASE Restart
  BY <1>20 DEF Restart, Interrupted, Terminated, Same
<1>21. ASSUME NEW t \in Turns, AskTurn(t)
      PROVE  TreeType'
  BY <1>21 DEF AskTurn
<1>22. ASSUME NEW t \in Turns, Answer(t)
      PROVE  TreeType'
  BY <1>22 DEF Answer, Answerable
<1>23. ASSUME NEW t \in Turns, Expire(t)
      PROVE  TreeType'
  BY <1>23 DEF Expire
<1>24. ASSUME NEW t \in Turns, Serve(t)
      PROVE  TreeType'
  BY <1>24 DEF Serve, Emit
<1>25. ASSUME NEW v \in Verifiers, VerifyLoad(v)
      PROVE  TreeType'
  BY <1>25 DEF VerifyLoad
<1>26. ASSUME NEW v \in Verifiers, VerifyInspect(v)
      PROVE  TreeType'
  BY <1>26 DEF VerifyInspect
<1>27. ASSUME NEW v \in Verifiers, VerifyCommands(v)
      PROVE  TreeType'
  BY <1>27 DEF VerifyCommands, Unmoved
<1>28. ASSUME NEW v \in Verifiers, VerifyFails(v)
      PROVE  TreeType'
  BY <1>28 DEF VerifyFails, VerifyEnds, Same
<1>29. ASSUME NEW v \in Verifiers, VerifySave(v)
      PROVE  TreeType'
  BY <1>29 DEF VerifySave, VerifyEnds, Same
<1>30. CASE UNCHANGED vars
  BY <1>30 DEF vars
<1> QED
  BY <1>1, <1>2, <1>3, <1>4, <1>5, <1>6, <1>7, <1>8, <1>9, <1>10, <1>11, <1>12, <1>13,
      <1>14, <1>15, <1>16, <1>17, <1>18, <1>19, <1>20, <1>21, <1>22, <1>23, <1>24,
      <1>25, <1>26, <1>27, <1>28, <1>29, <1>30
  DEF Next, Start, Pump, Turning, Stopping, Verify

\* No step leaves the types.
LEMMA TypeStep ==
    TypeOK /\ OwnerInv /\ CopyInv /\ VerifierInv /\ [Next]_vars => TypeOK'
<1> SUFFICES ASSUME TypeOK, OwnerInv, CopyInv, VerifierInv, [Next]_vars
             PROVE  TypeOK'
  OBVIOUS
<1>1. TaskType' /\ CallType' /\ RecordType' /\ TreeType'
  BY TaskTypeStep, CallTypeStep, RecordTypeStep, TreeTypeStep
<1> QED
  BY <1>1, PipeType DEF TypeOK, TaskType, CallType, RecordType, TreeType

--------------------------------------------------------------------------------
(* Theorems *)

\* The invariant is inductive.
LEMMA CodexStep == CodexInv /\ [Next]_vars => CodexInv'
BY TypeStep, OwnerStep, JobStepInv, CopyStep, TurnStep, PipeStep, SucceededStep,
    AnswerStep,
   VerifierStep DEF CodexInv

LEMMA CodexInvariant == Spec => []CodexInv
BY CodexInit, CodexStep, PTL DEF Spec

\* Every variable keeps its type, whatever the app-server writes and whenever it
\* exits.
THEOREM TypeCorrect == Spec => []TypeOK
<1>1. CodexInv => TypeOK
  BY DEF CodexInv
<1> QED
  BY <1>1, CodexInvariant, PTL

\* ActiveCodex: whatever call is cut off, refused or restarted, no app-server
\* runs without an owner.
THEOREM ProcessHasOwner == Spec => []ProcessIsOwned
<1>1. CodexInv => ProcessIsOwned
  BY DEF CodexInv, OwnerInv, Starting, ProcessIsOwned
<1> QED
  BY <1>1, CodexInvariant, PTL

\* The TaskExecution job of a task is running only for a process in the table
\* or a crash that is being recorded.
THEOREM RunningJobHasProcess == Spec => []RunningJobIsActive
<1>1. CodexInv => RunningJobIsActive
  BY DEF CodexInv, JobInv, RunningJobIsActive
<1> QED
  BY <1>1, CodexInvariant, PTL

\* resolve_approval: at most one answer is written, to the process that asked.
THEOREM AnswersOnce == Spec => []AnswerReachesAsker
<1>1. CodexInv => AnswerReachesAsker
  <2> SUFFICES ASSUME CodexInv, NEW t \in Turns
               PROVE  Len(answered[t]) <= 1 /\ \A i \in DOMAIN answered[t] : answered[t][i] = home[t]
    BY DEF AnswerReachesAsker
  <2>1. answered[t] = <<>> \/ answered[t] = <<home[t]>>
    BY DEF CodexInv, AnswerInv
  <2>2. CASE answered[t] = <<>>
    BY <2>2
  <2>3. CASE answered[t] = <<home[t]>>
    BY <2>3
  <2> QED
    BY <2>1, <2>2, <2>3
<1> QED
  BY <1>1, CodexInvariant, PTL

\* CodexService::interrupt settles a job as succeeded only for a turn whose end
\* the app-server has reported, with whatever status.
THEOREM SuccessNeedsEnd == Spec => []SucceededHasEnded
<1>1. CodexInv => SucceededHasEnded
  BY DEF CodexInv
<1> QED
  BY <1>1, CodexInvariant, PTL

\* verify_task_for_delivery: the gate of a delivery opens only by a verification
\* whose commands left the worktree clean and at the commit they found, and no
\* call that began before closes it.
THEOREM GateNeedsVerification == Spec => GateIsVerified
<1>1. CodexInv /\ [Next]_vars =>
        [LET gate == "awaitingDeliveryApproval" IN
         /\ task' = gate /\ task \notin {gate, "paused"} =>
               \E v \in Verifiers :
                   verifier[v] = "checked" /\ verifier'[v] = "idle" /\ v \notin moved
         /\ task = gate => task' \in {gate, "completed", "paused", "cancelled", "failed"}]_vars
  <2> DEFINE gate == "awaitingDeliveryApproval"
             opened == \E v \in Verifiers :
                          verifier[v] = "checked" /\ verifier'[v] = "idle" /\ v \notin moved
             left == task' \in {gate, "completed", "paused", "cancelled", "failed"}
  <2> SUFFICES ASSUME TypeOK, VerifierInv, Next
               PROVE  /\ task' = gate /\ task \notin {gate, "paused"} => opened
                      /\ task = gate => left
    BY DEF CodexInv
  <2> USE DEF taskVars, SaveTask
  <2>1. CASE task' = task
    BY <2>1
  <2>2. ASSUME NEW v \in Verifiers, VerifySave(v)
        PROVE  opened /\ task # gate
    BY <2>2 DEF VerifySave, VerifyEnds, Same, VerifierInv, TypeOK
  <2>3. CASE task # gate /\ task' # gate
    BY <2>3
  <2>4. CASE StartLoad
    BY <2>4, <2>1 DEF StartLoad, Resume
  <2>5. CASE Enter \/ Read
    BY <2>5, <2>1, <2>3 DEF Enter, EntersFrom, Read, Persist
  <2>6. CASE CrashSave \/ SaveStopped \/ Deliver
    BY <2>6 DEF CrashSave, SaveStopped, Deliver
  <2>7. ASSUME NEW v \in Verifiers, VerifyLoad(v)
        PROVE  task # gate /\ task' # gate
    BY <2>7 DEF VerifyLoad
  <2>8. CASE Restart
    BY <2>8, <2>1 DEF Restart, Same, VerifierInv
  <2>9. CASE \/ Connect \/ ConnectFails \/ Activate \/ CutLine \/ ReadFails \/ CrashLoad
             \/ Turning \/ Interrupt \/ Stop \/ (\E t \in Turns : Serve(t)) \/ Exit \/ Edit
             \/ \E v \in Verifiers : VerifyInspect(v) \/ VerifyCommands(v) \/ VerifyFails(v)
    BY <2>9, <2>1
    DEF Connect, ConnectFails, Activate, CutLine, ReadFails, CrashLoad, Turning,
        AskTurn, Answer,
        Expire, TurnStarted, TurnFails, SaveDecision, Interrupt, Stop, Serve, Exit, Edit,
        VerifyInspect, VerifyCommands, VerifyFails
  <2> QED
    BY <2>2, <2>3, <2>4, <2>5, <2>6, <2>7, <2>8, <2>9
    DEF Next, Start, Pump, Stopping, Verify
<1> QED
  BY <1>1, CodexInvariant, PTL DEF Spec, GateIsVerified
================================================================================
