---------------------------- MODULE WebhookRelay_proofs ----------------------------
(***************************************************************************)
(* Proofs about WebhookRelay, for any deliveries and monitors, capacities, *)
(* batch size and number of stops.                                         *)
(***************************************************************************)
EXTENDS WebhookRelay, FiniteSetTheorems, SequenceTheorems, TLAPS

Status == {"none", "pending", "forwarded"}

\* The relay's inbox: its rows are few, within the capacities, and ordered.
InboxInv ==
    /\ row \in [Deliveries -> Status]
    /\ IsFiniteSet(Pending) /\ Cardinality(Pending) <= QueueCapacity
    /\ IsFiniteSet(Forwarded) /\ Cardinality(Forwarded) <= RetentionCapacity
    /\ older \subseteq (Pending \cup Forwarded) \X (Pending \cup Forwarded)
    /\ \A a, b \in Pending \cup Forwarded :
          <<a, b>> \in older <=> a # b /\ <<b, a>> \notin older
    /\ due \subseteq Pending

\* The forwarder: what is left of its batch are distinct pending rows, and an
\* answer is one for the head of the batch.
BatchInv ==
    /\ batch \in Seq(Deliveries)
    /\ pc \in {"polling", "sending", "waiting", "handled", "answered", "failed"}
    /\ pc = "polling" <=> batch = <<>>
    /\ \A i \in 1..Len(batch) : row[batch[i]] = "pending"
    /\ \A i, j \in 1..Len(batch) : batch[i] = batch[j] => i = j
    /\ pc \in {"handled", "answered"} => Head(batch) \in ingested

\* The engine: it woke nobody for a delivery that it does not know.
EngineInv ==
    /\ late \subseteq Deliveries
    /\ up \in BOOLEAN
    /\ ingested \subseteq Deliveries
    /\ wakes \in [Deliveries -> Nat]
    /\ \A d \in Deliveries : wakes[d] <= 1 /\ (d \notin ingested => wakes[d] = 0)
    /\ accepted \subseteq Deliveries
    /\ stops \in 0..MaxStops

RelayInv == InboxInv /\ BatchInv /\ EngineInv /\ AcceptedIsKept

--------------------------------------------------------------------------------
(* The inbox *)

\* Pruning deletes forwarded rows only, and leaves no more than the retention
\* capacity.
LEMMA PrunedRows ==
    ASSUME NEW rows \in [Deliveries -> Status], NEW old \in Prunable(rows)
    PROVE  /\ Pruned(rows, old) \in [Deliveries -> Status]
           /\ \A d \in Deliveries :
                 /\ Pruned(rows, old)[d] = "pending" <=> rows[d] = "pending"
                 /\ Pruned(rows, old)[d] = "forwarded" <=> rows[d] = "forwarded" /\ d \notin old
                 /\ d \in old => rows[d] = "forwarded"
           /\ Cardinality({d \in Deliveries : rows[d] = "forwarded"} \ old) <= RetentionCapacity
BY DEF Prunable, Pruned, Status

\* The rows that stay keep their order.
LEMMA KeptOrder ==
    ASSUME InboxInv, NEW old
    PROVE  /\ Kept(old) \subseteq ((Pending \cup Forwarded) \ old) \X ((Pending \cup Forwarded) \ old)
           /\ \A a, b \in (Pending \cup Forwarded) \ old :
                 <<a, b>> \in Kept(old) <=> <<a, b>> \in older
BY DEF Kept, InboxInv

\* After a pruning: Post of a known or refused delivery, RelayRestart, and Mark,
\* whose row has become a forwarded one.
LEMMA InboxAfterPruning ==
    ASSUME InboxInv, NEW rows \in [Deliveries -> Status], NEW old \in Prunable(rows),
           \A d \in Deliveries : /\ rows[d] = "none" <=> row[d] = "none"
                                 /\ rows[d] = "pending" => row[d] = "pending",
           row' = Pruned(rows, old), older' = Kept(old),
           IsFiniteSet({d \in Deliveries : rows[d] = "forwarded"}),
           due' \subseteq {d \in Deliveries : rows[d] = "pending"}
    PROVE  InboxInv'
<1>1. /\ row' \in [Deliveries -> Status]
      /\ Pending' = {d \in Deliveries : rows[d] = "pending"}
      /\ Forwarded' = {d \in Deliveries : rows[d] = "forwarded"} \ old
      /\ Cardinality(Forwarded') <= RetentionCapacity
  <2>1. /\ row' \in [Deliveries -> Status]
        /\ Cardinality({d \in Deliveries : rows[d] = "forwarded"} \ old) <= RetentionCapacity
        /\ \A d \in Deliveries :
              /\ row'[d] = "pending" <=> rows[d] = "pending"
              /\ row'[d] = "forwarded" <=> rows[d] = "forwarded" /\ d \notin old
    BY PrunedRows
  <2>2. Pending' = {d \in Deliveries : rows[d] = "pending"}
    BY <2>1 DEF Pending, Rows
  <2>3. Forwarded' = {d \in Deliveries : rows[d] = "forwarded"} \ old
    BY <2>1 DEF Forwarded, Rows
  <2> QED
    BY <2>1, <2>2, <2>3
<1>2. Pending' \subseteq Pending
  BY <1>1 DEF Pending, Rows
<1>3. IsFiniteSet(Pending') /\ Cardinality(Pending') <= QueueCapacity
  <2>1. /\ IsFiniteSet(Pending')
        /\ Cardinality(Pending') <= Cardinality(Pending)
        /\ Cardinality(Pending') \in Nat /\ Cardinality(Pending) \in Nat
    BY <1>2, FS_Subset, FS_CardinalityType DEF InboxInv
  <2> QED
    BY <2>1, WebhookAssumption DEF InboxInv
<1>4. IsFiniteSet(Forwarded')
  BY <1>1, FS_Subset
<1>5. Pending' \cup Forwarded' = (Pending \cup Forwarded) \ old
  BY <1>1, PrunedRows DEF Pending, Forwarded, Rows, Status, InboxInv
<1>6. /\ older' \subseteq (Pending' \cup Forwarded') \X (Pending' \cup Forwarded')
      /\ \A a, b \in Pending' \cup Forwarded' :
            <<a, b>> \in older' <=> a # b /\ <<b, a>> \notin older'
  BY <1>5, KeptOrder DEF InboxInv
<1>7. due' \subseteq Pending'
  BY <1>1
<1> QED
  BY <1>1, <1>3, <1>4, <1>6, <1>7 DEF InboxInv

\* A new delivery takes a free place of the queue and is the newest row.
LEMMA InboxAfterInsert ==
    ASSUME InboxInv, NEW old \in Prunable(row), NEW d \in Deliveries,
           Pruned(row, old)[d] = "none", HasRoom(Pruned(row, old)),
           row' = [Pruned(row, old) EXCEPT ![d] = "pending"],
           older' = Kept(old) \cup {e \in Deliveries : Pruned(row, old)[e] # "none"} \X {d},
           due' = due \cup {d}
    PROVE  InboxInv'
<1> DEFINE rows == Pruned(row, old)
<1>1. /\ rows \in [Deliveries -> Status]
      /\ Pending = {e \in Deliveries : rows[e] = "pending"}
      /\ {e \in Deliveries : rows[e] = "forwarded"} = Forwarded \ old
      /\ Cardinality(Forwarded \ old) <= RetentionCapacity
      /\ rows[d] = "none"
      /\ HasRoom(rows)
  BY PrunedRows DEF Pending, Forwarded, Rows, InboxInv
<1>2. /\ row' = [rows EXCEPT ![d] = "pending"]
      /\ older' = Kept(old) \cup {e \in Deliveries : rows[e] # "none"} \X {d}
  OBVIOUS
<1> HIDE DEF rows
<1>3. row' \in [Deliveries -> Status]
  BY <1>1, <1>2 DEF Status
<1>4. Pending' = Pending \cup {d} /\ d \notin Pending
  BY <1>1, <1>2 DEF Pending, Rows
<1>5. Forwarded' = Forwarded \ old /\ d \notin Forwarded'
  BY <1>1, <1>2 DEF Forwarded, Rows
<1>6. IsFiniteSet(Pending') /\ Cardinality(Pending') <= QueueCapacity
  <2>1. /\ IsFiniteSet(Pending')
        /\ Cardinality(Pending') = Cardinality(Pending) + 1
        /\ Cardinality(Pending) \in Nat
    BY <1>4, FS_AddElement, FS_CardinalityType DEF InboxInv
  <2>2. Cardinality(Pending) < QueueCapacity
    BY <1>1 DEF HasRoom
  <2> QED
    BY <2>1, <2>2, WebhookAssumption
<1>7. IsFiniteSet(Forwarded') /\ Cardinality(Forwarded') <= RetentionCapacity
  BY <1>1, <1>5, FS_Subset DEF InboxInv
<1>8. {e \in Deliveries : rows[e] # "none"} = (Pending \cup Forwarded) \ old
  <2>1. \A e \in old : row[e] = "forwarded"
    BY PrunedRows DEF InboxInv, Prunable
  <2> QED
    BY <1>1, <2>1 DEF Pending, Forwarded, Rows, Status, InboxInv
<1>9. /\ Pending' \cup Forwarded' = ((Pending \cup Forwarded) \ old) \cup {d}
      /\ d \notin (Pending \cup Forwarded) \ old
  <2>1. Pending \cap old = {}
    BY DEF Prunable, Pending, Rows
  <2> QED
    BY <1>1, <1>4, <1>5, <1>8, <2>1
<1>10. /\ older' \subseteq (Pending' \cup Forwarded') \X (Pending' \cup Forwarded')
       /\ \A a, b \in Pending' \cup Forwarded' :
             <<a, b>> \in older' <=> a # b /\ <<b, a>> \notin older'
  <2> DEFINE kept == (Pending \cup Forwarded) \ old
  <2>1. older' = Kept(old) \cup kept \X {d}
    BY <1>2, <1>8
  <2>2. /\ Kept(old) \subseteq kept \X kept
        /\ \A a, b \in kept : <<a, b>> \in Kept(old) <=> a # b /\ <<b, a>> \notin Kept(old)
    BY KeptOrder DEF InboxInv
  <2>3. Pending' \cup Forwarded' = kept \cup {d} /\ d \notin kept
    BY <1>9
  <2> HIDE DEF kept
  <2> QED
    BY <2>1, <2>2, <2>3
<1>11. due' \subseteq Pending'
  BY <1>4 DEF InboxInv
<1> QED
  BY <1>3, <1>6, <1>7, <1>10, <1>11 DEF InboxInv

\* The steps that leave the table alone.
LEMMA InboxQuiet ==
    ASSUME InboxInv, UNCHANGED <<row, older>>, due' \subseteq Pending
    PROVE  InboxInv'
BY DEF InboxInv, Pending, Forwarded, Rows

LEMMA InboxStep == InboxInv /\ [Next]_vars => InboxInv'
<1> SUFFICES ASSUME InboxInv, [Next]_vars
             PROVE  InboxInv'
  OBVIOUS
<1>0. /\ due \subseteq Pending
      /\ row \in [Deliveries -> Status]
      /\ IsFiniteSet(Forwarded)
  BY DEF InboxInv
<1> USE DEF relayVars, forwarderVars, engineVars
<1>1. ASSUME NEW d \in Deliveries, Post(d)
      PROVE  InboxInv'
  <2> PICK old \in Prunable(row) :
              IF Pruned(row, old)[d] = "none" /\ HasRoom(Pruned(row, old))
              THEN /\ row' = [Pruned(row, old) EXCEPT ![d] = "pending"]
                   /\ older' = Kept(old) \cup
                          {e \in Deliveries : Pruned(row, old)[e] # "none"} \X {d}
                   /\ due' = due \cup {d}
              ELSE /\ row' = Pruned(row, old)
                   /\ older' = Kept(old)
                   /\ UNCHANGED due
    BY <1>1 DEF Post
  <2>1. CASE Pruned(row, old)[d] = "none" /\ HasRoom(Pruned(row, old))
    BY <2>1, InboxAfterInsert
  <2>2. CASE ~(Pruned(row, old)[d] = "none" /\ HasRoom(Pruned(row, old)))
    BY <1>0, <2>2, InboxAfterPruning DEF Pending, Forwarded, Rows
  <2> QED
    BY <2>1, <2>2
<1>2. ASSUME NEW d \in Deliveries, BackoffEnds(d)
      PROVE  InboxInv'
  BY <1>0, <1>2, InboxQuiet DEF BackoffEnds, Pending, Rows
<1>3. ASSUME NEW d \in Deliveries, Answer(d)
      PROVE  InboxInv'
  BY <1>0, <1>3, InboxQuiet DEF Answer
<1>4. ASSUME NEW d \in Deliveries, Handle(d)
      PROVE  InboxInv'
  BY <1>0, <1>4, InboxQuiet DEF Handle, Ingest
<1>5. ASSUME NEW d \in Deliveries, HandleLate(d)
      PROVE  InboxInv'
  BY <1>0, <1>5, InboxQuiet DEF HandleLate, Ingest
<1>6. ASSUME NEW d \in Deliveries, Lose(d)
      PROVE  InboxInv'
  BY <1>0, <1>6, InboxQuiet DEF Lose
<1>7. CASE Poll
  BY <1>0, <1>7, InboxQuiet DEF Poll
<1>8. CASE Send
  BY <1>0, <1>8, InboxQuiet DEF Send
<1>9. CASE Mark
  <2> DEFINE d == Head(batch)
             rows == [row EXCEPT ![d] = "forwarded"]
  <2>1. row[d] = "pending" /\ due' = due \ {d}
    BY <1>9 DEF Mark
  <2> PICK old \in Prunable(rows) : row' = Pruned(rows, old) /\ older' = Kept(old)
    BY <1>9 DEF Mark
  <2> HIDE DEF d
  <2>2. /\ rows \in [Deliveries -> Status]
        /\ \A e \in Deliveries : /\ rows[e] = "none" <=> row[e] = "none"
                                 /\ rows[e] = "pending" <=> row[e] = "pending" /\ e # d
    BY <1>0, <2>1 DEF Status
  <2>3. IsFiniteSet({e \in Deliveries : rows[e] = "forwarded"})
    <3>1. {e \in Deliveries : rows[e] = "forwarded"} \subseteq Forwarded \cup {d}
      BY <1>0 DEF Forwarded, Rows
    <3>2. IsFiniteSet(Forwarded \cup {d})
      BY <1>0, FS_AddElement
    <3> QED
      BY <3>1, <3>2, FS_Subset
  <2>4. due' \subseteq {e \in Deliveries : rows[e] = "pending"}
    BY <1>0, <2>1, <2>2 DEF Pending, Rows
  <2> HIDE DEF rows
  <2> QED
    BY <2>2, <2>3, <2>4, InboxAfterPruning
<1>10. CASE Defer
  BY <1>0, <1>10, InboxQuiet DEF Defer
<1>11. CASE TimeOut
  BY <1>0, <1>11, InboxQuiet DEF TimeOut
<1>12. CASE RelayRestart
  <2> PICK old \in Prunable(row) : row' = Pruned(row, old) /\ older' = Kept(old)
    BY <1>12 DEF RelayRestart
  <2>1. UNCHANGED due
    BY <1>12 DEF RelayRestart
  <2> QED
    BY <1>0, <2>1, InboxAfterPruning DEF Pending, Forwarded, Rows
<1>13. CASE EngineStop
  BY <1>0, <1>13, InboxQuiet DEF EngineStop
<1>14. CASE EngineStart
  BY <1>0, <1>14, InboxQuiet DEF EngineStart
<1>15. CASE UNCHANGED vars
  BY <1>0, <1>15, InboxQuiet DEF vars
<1> QED
  BY <1>1, <1>2, <1>3, <1>4, <1>5, <1>6, <1>7, <1>8,
     <1>9, <1>10, <1>11, <1>12, <1>13, <1>14, <1>15 DEF Next, Forward

--------------------------------------------------------------------------------
(* The forwarder *)

LEMMA TailOfBatch ==
    ASSUME NEW q \in Seq(Deliveries), q # <<>>
    PROVE  /\ Head(q) \in Deliveries /\ Head(q) = q[1]
           /\ Tail(q) \in Seq(Deliveries)
           /\ Len(q) \in Nat \ {0}
           /\ Len(Tail(q)) = Len(q) - 1
           /\ \A i \in 1..Len(Tail(q)) : Tail(q)[i] = q[i + 1]
BY HeadTailProperties, EmptySeq, LenProperties

\* The rest of a batch of distinct rows are distinct rows, other than its head.
LEMMA RestOfBatch ==
    ASSUME NEW q \in Seq(Deliveries), q # <<>>, NEW rows,
           \A i \in 1..Len(q) : rows[q[i]] = "pending",
           \A i, j \in 1..Len(q) : q[i] = q[j] => i = j
    PROVE  /\ \A i \in 1..Len(Tail(q)) : rows[Tail(q)[i]] = "pending" /\ Tail(q)[i] # Head(q)
           /\ \A i, j \in 1..Len(Tail(q)) : Tail(q)[i] = Tail(q)[j] => i = j
BY TailOfBatch

\* No step but the acknowledgement of the head of the batch takes a row from the
\* pending ones.
LEMMA PendingStays ==
    ASSUME InboxInv, BatchInv, [Next]_vars, NEW d \in Deliveries, row[d] = "pending"
    PROVE  row'[d] = "pending" \/ (Mark /\ d = Head(batch))
<1>1. \A old \in Prunable(row) : Pruned(row, old)[d] = "pending"
  BY PrunedRows DEF InboxInv
<1>2. ASSUME NEW e \in Deliveries, Post(e)
      PROVE  row'[d] = "pending"
  BY <1>1, <1>2 DEF Post, Pruned
<1>3. ASSUME RelayRestart
      PROVE  row'[d] = "pending"
  BY <1>1, <1>3 DEF RelayRestart
<1>4. ASSUME Mark, d # Head(batch)
      PROVE  row'[d] = "pending"
  <2> DEFINE rows == [row EXCEPT ![Head(batch)] = "forwarded"]
  <2>1. rows \in [Deliveries -> Status] /\ rows[d] = "pending"
    BY <1>4 DEF InboxInv, Status
  <2>2. PICK old \in Prunable(rows) : row' = Pruned(rows, old)
    BY <1>4 DEF Mark
  <2> HIDE DEF rows
  <2> QED
    BY <2>1, <2>2, PrunedRows
<1>5. ASSUME \/ \E e \in Deliveries : \/ BackoffEnds(e) \/ Answer(e) \/ Handle(e)
                                      \/ HandleLate(e) \/ Lose(e)
             \/ Poll \/ Send \/ Defer \/ TimeOut \/ EngineStop \/ EngineStart
             \/ UNCHANGED vars
      PROVE  UNCHANGED row
  BY <1>5
  DEF BackoffEnds, Answer, Handle, HandleLate, Lose, Ingest, Poll, Send, Defer, TimeOut,
      EngineStop, EngineStart, vars, relayVars
<1> QED
  BY <1>2, <1>3, <1>4, <1>5 DEF Next, Forward

\* What the engine knows it does not forget.
LEMMA IngestedGrows ==
    ASSUME [Next]_vars
    PROVE  ingested \subseteq ingested'
BY DEF Next, Forward, Post, BackoffEnds, Answer, Handle, HandleLate, Lose, Ingest, Poll, Send,
       Mark, Defer, TimeOut, RelayRestart, EngineStop, EngineStart, vars, engineVars

\* due_deliveries returns distinct pending rows, at least one.
LEMMA PolledBatch ==
    ASSUME InboxInv, Poll
    PROVE  /\ batch' \in Seq(Deliveries)
           /\ batch' # <<>>
           /\ \A i \in 1..Len(batch') : row[batch'[i]] = "pending"
           /\ \A i, j \in 1..Len(batch') : batch'[i] = batch'[j] => i = j
<1> DEFINE size == IF Cardinality(due) < BatchSize THEN Cardinality(due) ELSE BatchSize
<1>1. due \subseteq Deliveries /\ due # {} /\ \A d \in due : row[d] = "pending"
  BY DEF InboxInv, Pending, Rows, Poll
<1>2. Cardinality(due) \in Nat \ {0}
  BY <1>1, FS_Subset, FS_CardinalityType, FS_EmptySet DEF InboxInv
<1>3. size \in Nat \ {0}
  BY <1>2, WebhookAssumption
<1>4. PICK q \in [1..size -> due] :
             /\ \A i \in 1..size, d \in due :
                   <<d, q[i]>> \in older <=> \E j \in 1..(i - 1) : q[j] = d
             /\ batch' = q
  BY DEF Poll
<1> HIDE DEF size
<1>5. q \in Seq(Deliveries) /\ Len(q) = size
  <2>1. q \in Seq(due)
    BY <1>3, IsASeq
  <2>2. Len(q) = size
    BY <1>3, <2>1, LenProperties
  <2> QED
    BY <1>1, <2>1, <2>2, SeqMonotonic
<1>6. \A d \in due : <<d, d>> \notin older
  BY DEF InboxInv
<1>7. \A i, j \in 1..size : i < j => q[i] # q[j]
  <2> SUFFICES ASSUME NEW i \in 1..size, NEW j \in 1..size, i < j
               PROVE  q[i] # q[j]
    OBVIOUS
  <2>1. q[i] \in due /\ i \in 1..(j - 1)
    BY <1>3
  <2>2. <<q[i], q[j]>> \in older
    BY <1>4, <2>1
  <2> QED
    BY <1>6, <2>1, <2>2
<1>8. \A i, j \in 1..size : q[i] = q[j] => i = j
  BY <1>3, <1>7
<1>9. q # <<>>
  BY <1>3, <1>5, EmptySeq
<1> QED
  BY <1>1, <1>4, <1>5, <1>8, <1>9

LEMMA BatchStep == InboxInv /\ BatchInv /\ [Next]_vars => BatchInv'
<1> SUFFICES ASSUME InboxInv, BatchInv, [Next]_vars
             PROVE  BatchInv'
  OBVIOUS
<1>0. ingested \subseteq ingested'
  BY IngestedGrows
<1>1. \A i \in 1..Len(batch) : batch[i] \in Deliveries /\ row[batch[i]] = "pending"
  BY LenProperties, ElementOfSeq DEF BatchInv
<1>2. ASSUME ~Mark
      PROVE  \A i \in 1..Len(batch) : row'[batch[i]] = "pending"
  BY <1>1, <1>2, PendingStays
\* The steps of the call for the head of the batch.
<1>4. ASSUME UNCHANGED batch, ~Mark, pc # "polling",
             \/ pc' \in {"sending", "waiting", "failed"}
             \/ pc' = "handled" /\ Head(batch) \in ingested'
             \/ pc' = "answered" /\ pc = "handled"
      PROVE  BatchInv'
  BY <1>0, <1>2, <1>4 DEF BatchInv
<1>5. CASE Poll
  <2>1. ~Mark /\ pc' = "sending" /\ UNCHANGED row
    BY <1>5 DEF Poll, Mark, relayVars
  <2> QED
    BY <1>5, <2>1, PolledBatch DEF BatchInv
<1>6. CASE Mark \/ Defer
  <2>1. /\ batch # <<>>
        /\ batch' = Tail(batch)
        /\ pc' = IF Tail(batch) = <<>> THEN "polling" ELSE "sending"
    BY <1>6 DEF Mark, Defer, Advance, BatchInv
  <2>2. /\ batch' \in Seq(Deliveries)
        /\ \A i \in 1..Len(batch') :
              /\ batch'[i] \in Deliveries
              /\ row[batch'[i]] = "pending"
              /\ batch'[i] # Head(batch)
        /\ \A i, j \in 1..Len(batch') : batch'[i] = batch'[j] => i = j
    BY <2>1, TailOfBatch, RestOfBatch, ElementOfSeq DEF BatchInv
  <2>3. \A i \in 1..Len(batch') : row'[batch'[i]] = "pending"
    BY <2>2, PendingStays
  <2> QED
    BY <2>1, <2>2, <2>3 DEF BatchInv
<1>7. CASE RelayRestart
  <2>1. batch' = <<>> /\ pc' = "polling"
    BY <1>7 DEF RelayRestart
  <2>2. <<>> \in Seq(Deliveries) /\ Len(<<>>) = 0
    BY EmptySeq
  <2> QED
    BY <2>1, <2>2 DEF BatchInv
<1>8. CASE Send \/ TimeOut
  BY <1>4, <1>8 DEF Send, TimeOut, Mark, CallFailed
<1>9. ASSUME NEW d \in Deliveries, Answer(d)
      PROVE  BatchInv'
  BY <1>4, <1>9 DEF Answer, Mark
<1>10. ASSUME NEW d \in Deliveries, Handle(d)
       PROVE  BatchInv'
  BY <1>4, <1>10 DEF Handle, Ingest, IsNew, Mark
<1>11. CASE EngineStop
  <2>1. CASE pc = "waiting"
    BY <1>4, <1>11, <2>1 DEF EngineStop, Mark, CallFailed
  <2>2. CASE pc # "waiting"
    <3>1. UNCHANGED <<forwarderVars, row, ingested>>
      BY <1>11, <2>2 DEF EngineStop, forwarderVars, relayVars
    <3> QED
      BY <3>1 DEF BatchInv, forwarderVars
  <2> QED
    BY <2>1, <2>2
<1>12. ASSUME \/ \E d \in Deliveries : BackoffEnds(d) \/ HandleLate(d) \/ Lose(d)
              \/ EngineStart \/ UNCHANGED vars
       PROVE  UNCHANGED <<forwarderVars, row>> /\ ingested \subseteq ingested'
  BY <1>0, <1>12
  DEF BackoffEnds, HandleLate, Lose, Ingest, EngineStart, vars, forwarderVars, relayVars
<1>13. ASSUME UNCHANGED <<forwarderVars, row>>
       PROVE  BatchInv'
  BY <1>0, <1>13 DEF BatchInv, forwarderVars
<1>14. ASSUME NEW d \in Deliveries, Post(d)
       PROVE  BatchInv'
  <2>1. UNCHANGED <<forwarderVars, ingested>>
    BY <1>14 DEF Post, forwarderVars, engineVars
  <2>2. \A i \in 1..Len(batch) : row'[batch[i]] = "pending"
    <3>1. \A e \in Deliveries : row[e] = "pending" => row'[e] = "pending"
      <4>1. \A old \in Prunable(row), e \in Deliveries :
               row[e] = "pending" => Pruned(row, old)[e] = "pending"
        BY PrunedRows DEF InboxInv
      <4> QED
        BY <1>14, <4>1 DEF Post, Pruned
    <3> QED
      BY <1>1, <3>1
  <2> QED
    BY <2>1, <2>2 DEF BatchInv, forwarderVars
<1> QED
  BY <1>5, <1>6, <1>7, <1>8, <1>9, <1>10, <1>11, <1>12, <1>13, <1>14 DEF Next, Forward

--------------------------------------------------------------------------------
(* The engine *)

\* What a request does to the engine's record, whichever call it came from.
LEMMA IngestKeeps ==
    ASSUME EngineInv, NEW d \in Deliveries, Ingest(d)
    PROVE  /\ ingested' \subseteq Deliveries
           /\ wakes' \in [Deliveries -> Nat]
           /\ \A e \in Deliveries : wakes'[e] <= 1 /\ (e \notin ingested' => wakes'[e] = 0)
<1>1. CASE IsNew(d)
  <2>1. /\ ingested' = ingested \cup {d}
        /\ wakes' = [wakes EXCEPT ![d] = IF Concerned(d) = {} THEN @ ELSE @ + 1]
    BY <1>1 DEF Ingest
  <2>2. wakes[d] = 0
    BY <1>1 DEF IsNew, EngineInv
  <2> QED
    BY <2>1, <2>2 DEF EngineInv
<1>2. CASE ~IsNew(d)
  BY <1>2 DEF Ingest, EngineInv
<1> QED
  BY <1>1, <1>2

LEMMA EngineStep == BatchInv /\ EngineInv /\ [Next]_vars => EngineInv'
<1> SUFFICES ASSUME BatchInv, EngineInv, [Next]_vars
             PROVE  EngineInv'
  OBVIOUS
<1>0. batch # <<>> => Head(batch) \in Deliveries
  BY TailOfBatch DEF BatchInv
<1> USE DEF engineVars
<1>1. ASSUME NEW d \in Deliveries, Handle(d) \/ HandleLate(d)
      PROVE  EngineInv'
  <2>1. late' \subseteq late /\ UNCHANGED <<up, accepted, stops>> /\ Ingest(d)
    BY <1>1 DEF Handle, HandleLate, Ingest
  <2> QED
    BY <2>1, IngestKeeps DEF EngineInv
<1>2. ASSUME NEW d \in Deliveries, Post(d)
      PROVE  EngineInv'
  <2>1. accepted' \subseteq accepted \cup {d} /\ UNCHANGED <<late, engineVars, stops>>
    BY <1>2 DEF Post
  <2> QED
    BY <2>1 DEF EngineInv
<1>3. CASE RelayRestart
  <2>1. /\ stops < MaxStops /\ stops' = stops + 1
        /\ UNCHANGED <<engineVars, accepted>>
        /\ late' \subseteq late \cup (IF pc = "waiting" THEN {Head(batch)} ELSE {})
    BY <1>3 DEF RelayRestart
  <2> QED
    BY <1>0, <2>1, WebhookAssumption DEF EngineInv, BatchInv
<1>4. CASE TimeOut
  <2>1. /\ UNCHANGED <<engineVars, accepted, stops>>
        /\ late' \subseteq late \cup {Head(batch)}
        /\ batch # <<>>
    BY <1>4 DEF TimeOut, BatchInv
  <2> QED
    BY <1>0, <2>1 DEF EngineInv
<1>5. CASE EngineStop
  <2>1. /\ stops < MaxStops /\ stops' = stops + 1
        /\ up' = FALSE /\ late' = {}
        /\ UNCHANGED <<ingested, wakes, accepted>>
    BY <1>5 DEF EngineStop
  <2>2. stops' \in 0..MaxStops
    BY <2>1, WebhookAssumption DEF EngineInv
  <2> QED
    BY <2>1, <2>2 DEF EngineInv
<1>6. CASE EngineStart
  BY <1>6 DEF EngineStart, EngineInv
<1>7. ASSUME NEW d \in Deliveries, BackoffEnds(d) \/ Answer(d) \/ Lose(d)
      PROVE  EngineInv'
  BY <1>7 DEF BackoffEnds, Answer, Lose, EngineInv
<1>8. CASE Forward \/ UNCHANGED vars
  BY <1>8 DEF Forward, Poll, Send, Mark, Defer, vars, EngineInv
<1> QED
  BY <1>1, <1>2, <1>3, <1>4, <1>5, <1>6, <1>7, <1>8 DEF Next

--------------------------------------------------------------------------------
(* The promise of a 202 *)

\* A delivery leaves the pending rows only when the engine has answered for it.
LEMMA AcceptedStep ==
    RelayInv /\ [Next]_vars => AcceptedIsKept'
<1> SUFFICES ASSUME RelayInv, [Next]_vars, NEW d \in accepted'
             PROVE  d \in ingested' \cup Pending'
  BY DEF AcceptedIsKept
<1>1. d \in Deliveries
  BY EngineStep DEF RelayInv, EngineInv
<1>2. CASE d \in ingested
  BY <1>2, IngestedGrows
<1>3. CASE row[d] = "pending"
  <2>1. CASE Mark /\ d = Head(batch)
    BY <2>1, IngestedGrows DEF Mark, RelayInv, BatchInv
  <2> QED
    BY <1>1, <1>3, <2>1, PendingStays DEF RelayInv, Pending, Rows
<1>4. CASE d \notin accepted
  <2>1. Post(d)
    BY <1>4
    DEF Next, Forward, Post, BackoffEnds, Answer, Handle, HandleLate, Lose, Ingest, Poll, Send,
        Mark, Defer, TimeOut, RelayRestart, EngineStop, EngineStart, vars
  <2>2. PICK old \in Prunable(row) : row' = [Pruned(row, old) EXCEPT ![d] = "pending"]
    BY <1>4, <2>1 DEF Post
  <2> QED
    BY <1>1, <2>2 DEF Pruned, Pending, Rows
<1> QED
  BY <1>2, <1>3, <1>4 DEF RelayInv, AcceptedIsKept, Pending, Rows

--------------------------------------------------------------------------------
(* The theorems *)

LEMMA RelayInit == Init => RelayInv
<1> SUFFICES ASSUME Init
             PROVE  RelayInv
  OBVIOUS
<1>1. Pending = {} /\ Forwarded = {}
  BY DEF Init, Pending, Forwarded, Rows
<1>2. InboxInv
  BY <1>1, FS_EmptySet, WebhookAssumption DEF Init, InboxInv, Status
<1>3. BatchInv
  BY EmptySeq DEF Init, BatchInv
<1>4. EngineInv
  BY WebhookAssumption DEF Init, EngineInv
<1> QED
  BY <1>2, <1>3, <1>4 DEF RelayInv, AcceptedIsKept, Init

LEMMA RelayInvariant == Spec => []RelayInv
<1>1. RelayInv /\ [Next]_vars => RelayInv'
  BY InboxStep, BatchStep, EngineStep, AcceptedStep DEF RelayInv
<1> QED
  BY <1>1, RelayInit, PTL DEF Spec

\* Every reachable state has its type: the inbox never exceeds the capacity of
\* its queue nor that of its forwarded rows (webhook.rs:119, :901), and
\* received_at orders its rows.
THEOREM TypeCorrect == Spec => []TypeOK
<1>1. RelayInv => TypeOK
  BY DEF RelayInv, InboxInv, BatchInv, EngineInv, TypeOK, Status
<1> QED
  BY <1>1, RelayInvariant, PTL

\* What the relay answered with 202 is in the engine's record or pending in the
\* durable inbox (webhook.rs:154, :448).
THEOREM AcceptedIsNeverLost == Spec => []AcceptedIsKept
<1>1. RelayInv => AcceptedIsKept
  BY DEF RelayInv
<1> QED
  BY <1>1, RelayInvariant, PTL

\* A delivery wakes its monitors at most once, however often the relay forwards
\* it and GitHub delivers it (ingest_github_webhook).
THEOREM DeliveryWakesOnce == Spec => []WakesOnce
<1>1. RelayInv => WakesOnce
  BY DEF RelayInv, EngineInv, WakesOnce
<1> QED
  BY <1>1, RelayInvariant, PTL

\* The rows of the forwarder's batch are distinct and pending until their turn
\* comes: mark_forwarded and defer_delivery find theirs (webhook.rs:255).
THEOREM ForwarderFindsItsRow == Spec => []BatchIsPending
<1>1. ASSUME BatchInv
      PROVE  BatchIsPending
  <2> DEFINE n == Len(batch)
  <2>1. n \in Nat /\ DOMAIN batch = 1..n /\ batch \in [1..n -> Deliveries]
    BY <1>1, LenProperties DEF BatchInv
  <2>2. Contents(batch) \subseteq Pending
    BY <1>1, <2>1 DEF BatchInv, Contents, Pending, Rows
  <2>3. batch \in Bijection(1..n, Contents(batch))
    <3>1. batch \in [1..n -> Contents(batch)]
      BY <2>1 DEF Contents
    <3>2. batch \in Injection(1..n, Contents(batch))
      BY <1>1, <3>1 DEF BatchInv, Injection, IsInjective
    <3>3. batch \in Surjection(1..n, Contents(batch))
      BY <2>1, <3>1 DEF Surjection, Contents
    <3> QED
      BY <3>2, <3>3 DEF Bijection
  <2>4. IsFiniteSet(1..n) /\ Cardinality(1..n) = n
    BY <2>1, FS_Interval
  <2>5. Cardinality(Contents(batch)) = n
    BY <2>3, <2>4, FS_Bijection DEF ExistsBijection
  <2> QED
    BY <2>2, <2>5 DEF BatchIsPending
<1>2. RelayInv => BatchIsPending
  BY <1>1 DEF RelayInv
<1> QED
  BY <1>2, RelayInvariant, PTL
================================================================================
