------------------------------ MODULE WebhookRelay ------------------------------
(***************************************************************************)
(* From GitHub's delivery to a woken monitor: the relay's durable inbox,   *)
(* its forwarder, the call to the engine and the engine's own record of    *)
(* the deliveries.                                                         *)
(*                                                                         *)
(* The relay promises a delivery once it has answered 202.  It forwards it *)
(* at least once: an answer may be late or lost, and relay and engine may  *)
(* stop at any point.  The engine acts on it once.  GitHub may deliver the *)
(* same delivery again, also long after the relay has forgotten it.        *)
(***************************************************************************)
EXTENDS Naturals, FiniteSets, Sequences

CONSTANTS
    Deliveries,         \* records: an id, a repository, a number (0: none)
    Monitors,           \* pending ones: an id, a repository, a number
    QueueCapacity,      \* queue_capacity
    RetentionCapacity,  \* forwarded_retention_capacity
    BatchSize,          \* FORWARD_BATCH_SIZE
    MaxStops            \* bound: how often relay and engine stop

ASSUME WebhookAssumption ==
    /\ QueueCapacity \in Nat
    /\ RetentionCapacity \in Nat
    /\ BatchSize \in Nat \ {0}
    /\ MaxStops \in Nat

VARIABLES
    \* the relay's database
    row,       \* "none", "pending" (forwarded_at IS NULL) or "forwarded"
    older,     \* the order of received_at: which rows were received before which
    due,       \* pending rows whose next_attempt_at is over
    \* the relay's forwarder
    pc,        \* where it is with the head of its batch
    batch,     \* what is left of the batch
    \* the socket and the engine
    late,      \* requests the relay no longer waits for, not yet handled
    up,        \* does the engine listen?
    ingested,  \* github_webhook_deliveries
    wakes,     \* history: how often a delivery woke its monitors
    accepted,  \* history: deliveries answered with 202
    stops

relayVars == <<row, older, due>>
forwarderVars == <<pc, batch>>
engineVars == <<up, ingested, wakes>>
vars == <<relayVars, forwarderVars, late, engineVars, accepted, stops>>

Rows(s) == {d \in Deliveries : row[d] = s}
Pending == Rows("pending")
Forwarded == Rows("forwarded")
Contents(q) == {q[i] : i \in DOMAIN q}

\* The inbox stays within its two capacities at all times, and received_at
\* orders its rows.
TypeOK ==
    /\ row \in [Deliveries -> {"none", "pending", "forwarded"}]
    /\ older \subseteq (Pending \cup Forwarded) \X (Pending \cup Forwarded)
    /\ \A a, b \in Pending \cup Forwarded :
          <<a, b>> \in older <=> a # b /\ <<b, a>> \notin older
    /\ Cardinality(Pending) <= QueueCapacity
    /\ Cardinality(Forwarded) <= RetentionCapacity
    /\ due \subseteq Pending
    /\ pc \in {"polling", "sending", "waiting", "handled", "answered", "failed"}
    /\ batch \in Seq(Deliveries)
    /\ pc = "polling" <=> batch = <<>>
    /\ late \subseteq Deliveries
    /\ up \in BOOLEAN
    /\ ingested \subseteq Deliveries
    /\ wakes \in [Deliveries -> Nat]
    /\ accepted \subseteq Deliveries
    /\ stops \in 0..MaxStops

Init ==
    /\ row = [d \in Deliveries |-> "none"]
    /\ older = {}
    /\ due = {}
    /\ pc = "polling"
    /\ batch = <<>>
    /\ late = {}
    /\ up = TRUE
    /\ ingested = {}
    /\ wakes = [d \in Deliveries |-> 0]
    /\ accepted = {}
    /\ stops = 0

--------------------------------------------------------------------------------
(* The inbox *)

\* What prune_forwarded_deliveries may delete of the forwarded rows, given the
\* status of each: the oldest ones, those beyond the three days and as many
\* more as exceed the cap.
Prunable(rows) ==
    LET forwarded == {d \in Deliveries : rows[d] = "forwarded"}
    IN  {old \in SUBSET forwarded :
            /\ Cardinality(forwarded \ old) <= RetentionCapacity
            /\ \A a \in old, b \in forwarded \ old : <<a, b>> \in older}

\* The status of the rows, and their order, without the deliveries in old.
Pruned(rows, old) == [d \in Deliveries |-> IF d \in old THEN "none" ELSE rows[d]]

Kept(old) == {p \in older : p[1] \notin old /\ p[2] \notin old}

\* Mutated form: a full queue overwrites its bound.
HasRoom_Always(rows) == TRUE

HasRoom(rows) ==
    Cardinality({d \in Deliveries : rows[d] = "pending"}) < QueueCapacity

\* POST /webhooks/github with a verified event: RelayState::record prunes,
\* looks for the delivery, then for room.  A full inbox refuses with 503 and
\* keeps nothing.
Post(d) ==
    /\ \E old \in Prunable(row) :
          LET rows == Pruned(row, old)
          IN  IF rows[d] = "none" /\ HasRoom(rows)
              THEN /\ row' = [rows EXCEPT ![d] = "pending"]
                   /\ older' = Kept(old) \cup {e \in Deliveries : rows[e] # "none"} \X {d}
                   /\ due' = due \cup {d}
                   /\ accepted' = accepted \cup {d}
              ELSE /\ row' = rows
                   /\ older' = Kept(old)
                   /\ UNCHANGED <<due, accepted>>
    /\ UNCHANGED <<forwarderVars, late, engineVars, stops>>

--------------------------------------------------------------------------------
(* The forwarder: run_forwarder_until, forward_pending_once *)

\* due_deliveries: the oldest of the due rows, in order.
Poll ==
    LET size == IF Cardinality(due) < BatchSize THEN Cardinality(due) ELSE BatchSize
    IN  /\ pc = "polling"
        /\ due # {}
        /\ \E q \in [1..size -> due] :
              /\ \A i \in 1..size, d \in due :
                    <<d, q[i]>> \in older <=> \E j \in 1..(i - 1) : q[j] = d
              /\ batch' = q
        /\ pc' = "sending"
        /\ UNCHANGED <<relayVars, late, engineVars, accepted, stops>>

\* forward_delivery connects and writes the request.
Send ==
    /\ pc = "sending"
    /\ pc' = IF up THEN "waiting" ELSE "failed"
    /\ UNCHANGED <<relayVars, batch, late, engineVars, accepted, stops>>

\* The engine's result arrives within the five seconds ...
Answer(d) ==
    /\ pc = "handled"
    /\ Head(batch) = d
    /\ pc' = "answered"
    /\ UNCHANGED <<relayVars, batch, late, engineVars, accepted, stops>>

\* Mutated form: a request that was written counts as delivered.
CallFailed_Optimistic == "answered"

\* The result of a call that timed out, was cut off or answered an error.
CallFailed == "failed"

\* ... or does not: the relay hangs up; what it wrote may still be handled.
TimeOut ==
    /\ pc \in {"waiting", "handled"}
    /\ pc' = CallFailed
    /\ \/ pc = "waiting" /\ late' = late \cup {Head(batch)}
       \/ UNCHANGED late
    /\ UNCHANGED <<relayVars, batch, engineVars, accepted, stops>>

\* Mutated form: the loop over the batch stays at its row.
Advance_Stays ==
    /\ UNCHANGED batch
    /\ pc' = "sending"

\* On to the rest of the batch.
Advance ==
    /\ batch' = Tail(batch)
    /\ pc' = IF Tail(batch) = <<>> THEN "polling" ELSE "sending"

\* mark_forwarded; it fails when the row is not pending, which would end the
\* forwarder and with it the relay.
Mark ==
    LET d == Head(batch)
        rows == [row EXCEPT ![d] = "forwarded"]
    IN  /\ pc = "answered"
        /\ row[d] = "pending"
        /\ \E old \in Prunable(rows) : row' = Pruned(rows, old) /\ older' = Kept(old)
        /\ due' = due \ {d}
        /\ Advance
        /\ UNCHANGED <<late, engineVars, accepted, stops>>

\* defer_delivery
Defer ==
    LET d == Head(batch)
    IN  /\ pc = "failed"
        /\ row[d] = "pending"
        /\ due' = due \ {d}
        /\ Advance
        /\ UNCHANGED <<row, older, late, engineVars, accepted, stops>>

\* Mutated form: a delivery that failed is not tried again.
BackoffEnds_Never(d) == d # d /\ UNCHANGED vars

\* The back-off of a pending delivery is over.
BackoffEnds(d) ==
    /\ row[d] = "pending"
    /\ d \notin due
    /\ due' = due \cup {d}
    /\ UNCHANGED <<row, older, forwarderVars, late, engineVars, accepted, stops>>

\* The relay stops and starts; initialize_inbox prunes.
RelayRestart ==
    /\ stops < MaxStops
    /\ stops' = stops + 1
    /\ pc' = "polling"
    /\ batch' = <<>>
    /\ late' \in {late} \cup (IF pc = "waiting" THEN {late \cup {Head(batch)}} ELSE {})
    /\ \E old \in Prunable(row) : row' = Pruned(row, old) /\ older' = Kept(old)
    /\ UNCHANGED <<due, engineVars, accepted>>

--------------------------------------------------------------------------------
(* The engine *)

\* The pending monitors github.webhook.ingest selects and wakes.
Concerned(d) ==
    {m \in Monitors : /\ m.repository = d.repository
                      /\ d.number \in {0, m.number}}

\* Mutated form: the delivery is recorded after the monitors are woken.
IsNew_Always(d) == TRUE

\* INSERT OR IGNORE inserts a row.
IsNew(d) == d \notin ingested

\* ingest_github_webhook: one transaction records the delivery and wakes its
\* monitors; a known delivery is answered without a change.
Ingest(d) ==
    /\ up
    /\ IF IsNew(d)
       THEN /\ ingested' = ingested \cup {d}
            /\ wakes' = [wakes EXCEPT ![d] = IF Concerned(d) = {} THEN @ ELSE @ + 1]
       ELSE UNCHANGED <<ingested, wakes>>
    /\ UNCHANGED <<relayVars, batch, up, accepted, stops>>

\* The engine handles the request the relay waits for ...
Handle(d) ==
    /\ pc = "waiting"
    /\ Head(batch) = d
    /\ pc' = "handled"
    /\ Ingest(d)
    /\ UNCHANGED late

\* ... or one whose answer goes nowhere,
HandleLate(d) ==
    /\ d \in late
    /\ late' = late \ {d}
    /\ Ingest(d)
    /\ UNCHANGED pc

\* which may also be lost with its connection.
Lose(d) ==
    /\ d \in late
    /\ late' = late \ {d}
    /\ UNCHANGED <<relayVars, forwarderVars, engineVars, accepted, stops>>

EngineStop ==
    /\ up
    /\ stops < MaxStops
    /\ stops' = stops + 1
    /\ up' = FALSE
    /\ late' = {}
    /\ pc' = IF pc = "waiting" THEN CallFailed ELSE pc
    /\ UNCHANGED <<relayVars, batch, ingested, wakes, accepted>>

EngineStart ==
    /\ ~up
    /\ up' = TRUE
    /\ UNCHANGED <<relayVars, forwarderVars, late, ingested, wakes, accepted, stops>>

--------------------------------------------------------------------------------

Forward == Poll \/ Send \/ Mark \/ Defer

Next ==
    \/ \E d \in Deliveries :
          \/ Post(d) \/ BackoffEnds(d) \/ Answer(d)
          \/ Handle(d) \/ HandleLate(d) \/ Lose(d)
    \/ Forward \/ TimeOut
    \/ RelayRestart \/ EngineStop \/ EngineStart

Spec == Init /\ [][Next]_vars

\* The forwarder works while its process lives, back-offs end and a stopped
\* engine is started again.  Calls may fail time and again; a delivery that is
\* sent again and again is at last handled, and at last answered in time.
Fairness ==
    /\ WF_vars(Forward) /\ WF_vars(TimeOut) /\ WF_vars(EngineStart)
    /\ \A d \in Deliveries :
          WF_vars(BackoffEnds(d)) /\ SF_vars(Handle(d)) /\ SF_vars(Answer(d))

FairSpec == Spec /\ Fairness

--------------------------------------------------------------------------------
(* Properties *)

\* What was answered with 202 is in the engine or pending in the durable
\* inbox, whatever is pruned, lost, answered late or restarted in between
\* (docs/security.md:10): GitHub will not send it again by itself.
AcceptedIsKept == accepted \subseteq ingested \cup Pending

\* A delivery wakes its monitors once, although the relay forwards it again
\* after a lost answer, a restart or when GitHub redelivers what the relay has
\* pruned (webhook.rs:901).
WakesOnce == \A d \in Deliveries : wakes[d] <= 1

\* The rows of the batch were read before its calls; they are all still
\* pending when their turn comes, so mark_forwarded and defer_delivery never
\* fail with "pending relay delivery disappeared", which would stop the relay.
BatchIsPending ==
    /\ Contents(batch) \subseteq Pending
    /\ Cardinality(Contents(batch)) = Len(batch)

\* The outbox drains: every accepted delivery is at last acknowledged by the
\* engine, without GitHub's help and in spite of what fails in between.
PendingIsForwarded == \A d \in Deliveries : d \in Pending ~> d \notin Pending
================================================================================
