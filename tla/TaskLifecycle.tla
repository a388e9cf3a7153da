----------------------------- MODULE TaskLifecycle -----------------------------
(***************************************************************************)
(* The state machine of a task, as every engine handler uses it: the       *)
(* lifecycle edges, the interruption states and what may be interrupted or *)
(* resumed.  Constant-level operators only; the modules that keep a task   *)
(* extend this one.                                                        *)
(***************************************************************************)

Gates == {"awaitingPreparationApproval", "awaitingDeliveryApproval",
          "awaitingMergeApproval"}

Interruptions == {"paused", "blocked", "failed", "cancelled"}

Terminal == {"completed", "failed", "cancelled"}

TaskState ==
    {"discovered", "assessing", "planned", "preparing", "implementing",
     "verifying", "reviewing", "delivering", "monitoring", "merging"}
    \cup Gates \cup Interruptions \cup Terminal

\* The lifecycle edges that Task::transition accepts.
Permits ==
    {<<"discovered", "assessing">>,
     <<"assessing", "planned">>,
     <<"planned", "awaitingPreparationApproval">>,
     <<"awaitingPreparationApproval", "preparing">>,
     <<"preparing", "implementing">>,
     <<"implementing", "verifying">>,
     <<"verifying", "reviewing">>,
     <<"reviewing", "awaitingDeliveryApproval">>,
     <<"awaitingDeliveryApproval", "delivering">>,
     <<"delivering", "monitoring">>,
     <<"awaitingMergeApproval", "merging">>}
    \cup ({"monitoring", "merging"} \X {"completed", "awaitingMergeApproval"})

\* Task::transition
CanTransition(s, next) == <<s, next>> \in Permits

\* Task::interrupt refuses a terminal task and one already interrupted.
CanInterrupt(s) == s \notin Terminal \cup Interruptions

================================================================================
