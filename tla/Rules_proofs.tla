------------------------------ MODULE Rules_proofs ------------------------------
(* Theorems about the rules that decide what a person is asked and shown:   *)
(* those of Policy, the order of Sorting, and the queue of Triage with the  *)
(* snapshots it is made from, for every subject, moment, record, set of     *)
(* pull requests and budget.                                                *)
EXTENDS Policy, Triage, FiniteSetTheorems, SequenceTheorems, TLAPS

S == INSTANCE Sorting

--------------------------------------------------------------------------------
(* Policy *)

USE DEF Local, Guarded, Merging, Writing, Free

\* The two tables of policy.rs agree: an action that is not free needs exactly
\* the class whose approvals may be given for it, so it can be approved, and by
\* no other class; reading and the bypass of rules cannot be approved.
THEOREM ClassesAgree ==
    ASSUME NEW c \in Capability, NEW class \in ApprovalClass
    PROVE  class_supports(class, c) <=>
               class = required_class(c) /\ c \notin {"readRepository", "administratorBypass"}
<1> USE DEF Capability, ApprovalClass
<1>1. CASE class = "preparation"  BY <1>1 DEF class_supports, required_class
<1>2. CASE class = "codexRuntime"  BY <1>2 DEF class_supports, required_class
<1>3. CASE class = "localCapability"  BY <1>3 DEF class_supports, required_class
<1>4. CASE class = "gitHubDelivery"  BY <1>4 DEF class_supports, required_class
<1>5. CASE class = "merge"  BY <1>5 DEF class_supports, required_class
<1> QED  BY <1>1, <1>2, <1>3, <1>4, <1>5

\* Policy::authorize allows an action that is not free only with an approval of
\* this very fingerprint and of its class, given less than half an hour ago;
\* and nothing but reading while automation is disabled.
THEOREM AllowedIsApproved ==
    ASSUME NEW disabled \in BOOLEAN, NEW c \in Capability, NEW f \in ActionFingerprint,
           NEW approval \in SUBSET Approval, NEW now \in Int,
           authorize(disabled, c, f, approval, now) = "allowed"
    PROVE  /\ disabled => c = "readRepository"
           /\ c \notin Free =>
                 \E a \in approval : /\ a.fingerprint = f
                                     /\ a.class = required_class(c)
                                     /\ 0 <= now - a.approved_at
                                     /\ now - a.approved_at < MAX_APPROVAL_DURATION
<1>1. disabled => c = "readRepository"
  BY DEF authorize
<1>2. ASSUME c \notin Free
      PROVE  \E a \in approval : is_valid_for(a, required_class(c), c, f, now)
  BY <1>2 DEF authorize
<1>3. ASSUME NEW a \in approval, is_valid_for(a, required_class(c), c, f, now)
      PROVE  /\ a.fingerprint = f
             /\ a.class = required_class(c)
             /\ 0 <= now - a.approved_at
             /\ now - a.approved_at < MAX_APPROVAL_DURATION
  <2>1. /\ a.approved_at \in Int /\ a.expires_at \in Int
        /\ a.expires_at - a.approved_at <= MAX_APPROVAL_DURATION
    BY DEF Approval
  <2>2. a.approved_at <= now /\ now < a.expires_at
    BY <1>3 DEF is_valid_for
  <2> QED  BY <1>3, <2>1, <2>2 DEF is_valid_for, MAX_APPROVAL_DURATION
<1> QED  BY <1>1, <1>2, <1>3

\* An approval authorizes one action: what it is given for, at any moment of
\* its life, and whatever else is asked with it is refused.
THEOREM ApprovalIsForOneAction ==
    ASSUME NEW a \in Approval, NEW now \in Int,
           a.approved_at <= now, now < a.expires_at,
           NEW c \in Capability \ Free, NEW f \in ActionFingerprint
    PROVE  authorize(FALSE, c, f, {a}, now) = "allowed" <=>
               c = a.capability /\ f = a.fingerprint
<1>1. /\ a.class \in ApprovalClass /\ a.capability \in Capability
      /\ class_supports(a.class, a.capability)
      /\ a.fingerprint.action_kind = a.capability
  BY DEF Approval
<1>2. /\ a.class = required_class(a.capability)
      /\ a.capability # "administratorBypass"
  BY <1>1, ClassesAgree
<1>4. ASSUME authorize(FALSE, c, f, {a}, now) = "allowed"
      PROVE  c = a.capability /\ f = a.fingerprint
  BY <1>4 DEF authorize, is_valid_for
<1>5. ASSUME c = a.capability, f = a.fingerprint
      PROVE  authorize(FALSE, c, f, {a}, now) = "allowed"
  <2>1. is_valid_for(a, required_class(c), c, f, now)
    BY <1>2, <1>5 DEF is_valid_for
  <2> QED  BY <1>1, <1>2, <1>5, <2>1 DEF authorize
<1> QED  BY <1>4, <1>5

\* Every GitHub action has a capability that needs an approval, of the merge
\* class exactly for what lands a pull request, and the installation token
\* (InstallationPermissions::delivery) may write what the action writes.
THEOREM ActionsAreGated ==
    ASSUME NEW action \in GitHubAction
    PROVE  /\ capability(action) \in Capability \ Free
           /\ required_class(capability(action)) =
                 IF action \in {"enqueuePullRequest", "mergePullRequest"}
                 THEN "merge" ELSE "gitHubDelivery"
           /\ permissions_for(action) \in delivery
<1>1. capability(action) \in Writing \cup Merging
  BY DEF GitHubAction, capability
<1>2. capability(action) \in Merging <=>
          action \in {"enqueuePullRequest", "mergePullRequest"}
  BY DEF GitHubAction, capability
<1>3. capability(action) \in Capability \ Free
  BY <1>1 DEF Capability
<1>4. required_class(capability(action)) =
          IF capability(action) \in Merging THEN "merge" ELSE "gitHubDelivery"
  <2> DEFINE c == capability(action)
  <2>1. CASE c \in Merging
    BY <2>1 DEF required_class
  <2>2. CASE c \in Writing
    BY <2>2 DEF required_class
  <2> QED  BY <1>1, <2>1, <2>2
<1>5. permissions_for(action) \in delivery
  BY DEF GitHubAction, permissions_for, delivery
<1> QED  BY <1>2, <1>3, <1>4, <1>5

--------------------------------------------------------------------------------
(* Sorting *)

\* The comparison of a sort key is a strict order on known and unknown values.
LEMMA KeysAreOrdered ==
    ASSUME NEW d \in S!Direction,
           NEW x \in S!Optional, NEW y \in S!Optional, NEW z \in S!Optional
    PROVE  /\ ~S!Precedes(x, x, d)
           /\ S!Precedes(x, y, d) /\ S!Precedes(y, z, d) => S!Precedes(x, z, d)
           /\ S!Precedes(x, y, d) \/ S!Precedes(y, x, d) \/ x = y
<1> USE DEF S!Direction, S!Precedes, S!apply_direction
<1>1. ASSUME NEW u \in S!Optional
      PROVE  u = {} \/ \E n \in Int : u = {n}
  BY DEF S!Optional
<1>2. ~S!Precedes(x, x, d)
  BY <1>1
<1>3. S!Precedes(x, y, d) /\ S!Precedes(y, z, d) => S!Precedes(x, z, d)
  <2>1. CASE x = {}
    BY <2>1
  <2>2. CASE y = {}
    BY <2>2
  <2>3. CASE z = {} /\ x # {}
    BY <2>3
  <2>4. CASE x # {} /\ y # {} /\ z # {}
    <3>1. PICK a \in Int, b \in Int, c \in Int : x = {a} /\ y = {b} /\ z = {c}
      BY <1>1, <2>4
    <3> QED  BY <3>1
  <2> QED  BY <2>1, <2>2, <2>3, <2>4
<1>4. S!Precedes(x, y, d) \/ S!Precedes(y, x, d) \/ x = y
  <2>1. CASE x = {} \/ y = {}
    BY <2>1
  <2>2. CASE x # {} /\ y # {}
    <3>1. PICK a \in Int, b \in Int : x = {a} /\ y = {b}
      BY <1>1, <2>2
    <3> QED  BY <3>1
  <2> QED  BY <2>1, <2>2
<1> QED  BY <1>2, <1>3, <1>4

\* The comparison that sort_pull_requests and sort_repositories hand to sort_by
\* is a strict total order, for every key and direction and with values that are
\* unknown: the result does not depend on the order of the input, and sort_by
\* meets no contradiction.
THEOREM SortIsTotal ==
    ASSUME NEW d \in S!Direction,
           NEW r \in S!SortRecord, NEW s \in S!SortRecord, NEW t \in S!SortRecord
    PROVE  /\ ~S!Before(r, r, d)
           /\ S!Before(r, s, d) /\ S!Before(s, t, d) => S!Before(r, t, d)
           /\ r # s => S!Before(r, s, d) \/ S!Before(s, r, d)
<1>1. ASSUME NEW u \in S!SortRecord
      PROVE  /\ u.key \in S!Optional /\ u.number \in Int /\ u.id \in Int
             /\ u = [key |-> u.key, number |-> u.number, id |-> u.id]
  BY DEF S!SortRecord
<1>2. ~S!Before(r, r, d)
  BY <1>1, KeysAreOrdered DEF S!Before
<1>3. S!Before(r, s, d) /\ S!Before(s, t, d) => S!Before(r, t, d)
  <2>1. S!Precedes(r.key, s.key, d) /\ S!Precedes(s.key, t.key, d)
            => S!Precedes(r.key, t.key, d)
    BY <1>1, KeysAreOrdered
  <2> QED  BY <1>1, <2>1 DEF S!Before
<1>4. ASSUME r # s
      PROVE  S!Before(r, s, d) \/ S!Before(s, r, d)
  <2>1. S!Precedes(r.key, s.key, d) \/ S!Precedes(s.key, r.key, d) \/ r.key = s.key
    BY <1>1, KeysAreOrdered
  <2>2. r.key # s.key \/ r.number # s.number \/ r.id # s.id
    BY <1>1, <1>4
  <2> QED  BY <1>1, <2>1, <2>2 DEF S!Before
<1> QED  BY <1>2, <1>3, <1>4

\* A record whose value is unknown comes after every one whose value is known,
\* in both directions: compare_optional does not reverse it.
THEOREM UnknownIsLast ==
    ASSUME NEW d \in S!Direction,
           NEW r \in S!SortRecord, NEW s \in S!SortRecord, s.key = {}, r.key # {}
    PROVE  S!Before(r, s, d) /\ ~S!Before(s, r, d)
BY DEF S!Before, S!Precedes

--------------------------------------------------------------------------------
(* Triage: what is derived from the lists of a snapshot *)

HIDE DEF Local, Guarded, Merging, Writing, Free

Tier == {"critical", "ready", "repair", "review", "draft", "stale", "blocked"}
Reviews == {s \in Seq([by : Reviewers, state : States]) : Len(s) <= MaxList}
Checks == {s \in Seq(Runs) : Len(s) <= MaxList}

\* An item of a snapshot whose health and review decision are those of the lists
\* that are stored with it.
IsDerived(item) ==
    /\ item.detail \in Details
    /\ item.reviews \in Reviews
    /\ item.checks.read \in Checks
    /\ item.ciHealth = ci_health(item.checks.read)
    /\ item.reviewDecision = review_decision(item.reviews)

\* "Passing" takes a check run that was read, and no other kind of run.
LEMMA PassingRuns ==
    ASSUME NEW checks \in Checks, ci_health(checks) = "passing"
    PROVE  checks # <<>> /\ \A i \in DOMAIN checks : checks[i] = "passing"
<1>1. \A i \in DOMAIN checks : checks[i] \in Runs
  BY LenProperties, ElementOfSeq DEF Checks
<1>2. /\ checks # <<>>
      /\ ~Has(checks, "running") /\ ~Has(checks, "failing") /\ ~Has(checks, "other")
  BY DEF ci_health
<1> QED
  BY <1>1, <1>2 DEF Has, Runs

\* "Approved" takes an approval that is its author's last word, and nobody whose
\* last word is a request for changes.
LEMMA ApprovedReviews ==
    ASSUME NEW reviews \in Reviews, review_decision(reviews) = "approved"
    PROVE  LET lastWord(i) == \A j \in DOMAIN reviews :
                                  reviews[j].by = reviews[i].by => j <= i
           IN  /\ \E i \in DOMAIN reviews : reviews[i].state = "approved" /\ lastWord(i)
               /\ \A i \in DOMAIN reviews : lastWord(i) => reviews[i].state # "changes_requested"
<1> DEFINE lastWord(i) == \A j \in DOMAIN reviews : reviews[j].by = reviews[i].by => j <= i
<1>1. \A i \in DOMAIN reviews : i \in Nat
  BY LenProperties DEF Reviews
<1>2. "approved" \in Latest(reviews) /\ "changes_requested" \notin Latest(reviews)
  BY DEF review_decision
<1>3. Latest(reviews) = {reviews[i].state : i \in {i \in DOMAIN reviews : lastWord(i)}}
  BY <1>1 DEF Latest
<1> QED
  BY <1>2, <1>3

\* A candidate is ready only when it is not blocked and its item is as ready
\* demands.
LEMMA ReadyItem ==
    ASSUME NEW items, NEW p, NEW preset, NEW old,
           IsDerived(items[p]), Assessed(items, p, preset, old).tier = "ready"
    PROVE  /\ items[p].reviewDecision = "approved"
           /\ items[p].ciHealth = "passing"
           /\ items[p].detail.conflicts = "no"
           /\ ~items[p].detail.draft
<1>1. Graded(items[p]).tier = "ready"
  BY DEF Assessed
<1>2. items[p].detail.conflicts \in Conflicts
  BY DEF IsDerived, Details
<1> QED
  BY <1>1, <1>2 DEF Graded, Unknown, Conflicts

\* What an assessment gives has a tier and a score.
LEMMA AssessedType ==
    ASSUME NEW items, DOMAIN items \subseteq Pulls, NEW p, NEW preset, NEW old
    PROVE  /\ Assessed(items, p, preset, old).tier \in Tier
           /\ Assessed(items, p, preset, old).score \in Int
<1>1. IsFiniteSet(Blockers(items, p))
  <2>1. Blockers(items, p) \subseteq Pulls
    BY DEF Blockers, Candidates
  <2> QED
    BY <2>1, FS_Subset, TriageAssumption
<1>2. Cardinality(Blockers(items, p)) \in Nat
  BY <1>1, FS_CardinalityType
<1>3. Graded(items[p]).tier \in Tier /\ Graded(items[p]).score \in Int
  BY DEF Graded, Tier
<1> QED
  BY <1>2, <1>3 DEF Assessed, Tier

\* The comparison of two decisions is a strict total order: tier, score, repository
\* and number leave no tie between two candidates (assess_queue in queue.rs).
THEOREM QueueIsTotal ==
    ASSUME NEW table, DOMAIN table \subseteq Pulls,
           \A p \in DOMAIN table : table[p].tier \in Tier /\ table[p].score \in Int,
           NEW p \in DOMAIN table, NEW q \in DOMAIN table, NEW r \in DOMAIN table
    PROVE  /\ ~Before(table, p, p)
           /\ Before(table, p, q) /\ Before(table, q, r) => Before(table, p, r)
           /\ Before(table, p, q) \/ Before(table, q, p) \/ p = q
<1>1. \A x \in DOMAIN table : /\ TierRank[table[x].tier] \in Nat
                              /\ table[x].score \in Int
                              /\ x[1] \in Nat /\ x[2] \in Nat /\ x = <<x[1], x[2]>>
  <2> SUFFICES ASSUME NEW x \in DOMAIN table
               PROVE  /\ TierRank[table[x].tier] \in Nat
                      /\ table[x].score \in Int
                      /\ x[1] \in Nat /\ x[2] \in Nat /\ x = <<x[1], x[2]>>
    OBVIOUS
  <2>1. TierRank[table[x].tier] \in Nat
    BY DEF TierRank, Tier
  <2>2. x \in Nat \X Nat
    BY TriageAssumption
  <2> QED
    BY <2>1, <2>2
<1> HIDE DEF TierRank
<1>2. ~Before(table, p, p)
  BY <1>1 DEF Before
<1>3. Before(table, p, q) /\ Before(table, q, r) => Before(table, p, r)
  BY <1>1 DEF Before
<1>4. Before(table, p, q) \/ Before(table, q, p) \/ p = q
  BY <1>1 DEF Before
<1> QED
  BY <1>2, <1>3, <1>4

\* The position of a decision is smaller than that of every one it stands before.
LEMMA Positions ==
    ASSUME NEW table, DOMAIN table \subseteq Pulls,
           \A p \in DOMAIN table : table[p].tier \in Tier /\ table[p].score \in Int,
           NEW p \in DOMAIN table, NEW q \in DOMAIN table, Before(table, q, p)
    PROVE  Ranked(table)[q].position < Ranked(table)[p].position
<1> DEFINE ahead(x) == {y \in DOMAIN table : Before(table, y, x)}
<1>1. IsFiniteSet(DOMAIN table)
  BY FS_Subset, TriageAssumption
<1>2. /\ IsFiniteSet(ahead(p)) /\ Cardinality(ahead(p)) \in Nat
      /\ IsFiniteSet(ahead(q)) /\ Cardinality(ahead(q)) \in Nat
  <2>1. ahead(p) \subseteq DOMAIN table /\ ahead(q) \subseteq DOMAIN table
    OBVIOUS
  <2> QED
    BY <1>1, <2>1, FS_Subset, FS_CardinalityType
<1>3. ahead(q) \subseteq ahead(p)
  BY QueueIsTotal
<1>4. q \in ahead(p) /\ q \notin ahead(q)
  BY QueueIsTotal
<1>5. Cardinality(ahead(q)) < Cardinality(ahead(p))
  BY <1>2, <1>3, <1>4, FS_Subset
<1>6. /\ Ranked(table)[q].position = Cardinality(ahead(q))
      /\ Ranked(table)[p].position = Cardinality(ahead(p))
  BY DEF Ranked
<1> QED
  BY <1>5, <1>6

--------------------------------------------------------------------------------
(* The queue *)

\* What an assessment of the items gives, before it is ranked.
Table(items, preset, old) ==
    [p \in Candidates(items) |-> Assessed(items, p, preset, p \in old)]

\* The stored decisions are what an assessment made of items whose health and
\* review decision are derived from the lists that are stored with them.
DecisionInv ==
    /\ DOMAIN basis \subseteq Pulls
    /\ \A p \in DOMAIN basis : IsDerived(basis[p])
    /\ decisions = <<>> \/ \E preset, old : decisions = Ranked(Table(basis, preset, old))

LEMMA TableType ==
    ASSUME NEW items, DOMAIN items \subseteq Pulls, NEW preset, NEW old
    PROVE  /\ DOMAIN Table(items, preset, old) = Candidates(items)
           /\ Candidates(items) \subseteq DOMAIN items
           /\ Candidates(items) \subseteq Pulls
           /\ \A p \in Candidates(items) :
                 /\ Table(items, preset, old)[p] = Assessed(items, p, preset, p \in old)
                 /\ Table(items, preset, old)[p].tier \in Tier
                 /\ Table(items, preset, old)[p].score \in Int
BY AssessedType DEF Table, Candidates

LEMMA RankedType ==
    ASSUME NEW table
    PROVE  /\ DOMAIN Ranked(table) = DOMAIN table
           /\ \A p \in DOMAIN table : Ranked(table)[p].tier = table[p].tier
BY DEF Ranked

LEMMA DependencyIsFirst == DecisionInv => DependencyFirst
<1> SUFFICES ASSUME DecisionInv, NEW p \in DOMAIN decisions, NEW q \in DOMAIN decisions,
                    p[1] = q[1], q[2] \in basis[p].detail.deps
             PROVE  /\ decisions[p].tier = "blocked"
                    /\ decisions[q].tier # "blocked" =>
                          decisions[q].position < decisions[p].position
  BY DEF DependencyFirst
<1> PICK preset, old : decisions = Ranked(Table(basis, preset, old))
  BY DEF DecisionInv
<1> DEFINE table == Table(basis, preset, old)
<1>1. DOMAIN basis \subseteq Pulls
  BY DEF DecisionInv
<1>2. /\ DOMAIN table = Candidates(basis) /\ DOMAIN table \subseteq Pulls
      /\ \A c \in DOMAIN table : table[c].tier \in Tier /\ table[c].score \in Int
      /\ p \in DOMAIN table /\ q \in DOMAIN table
      /\ decisions[p].tier = table[p].tier /\ decisions[q].tier = table[q].tier
      /\ table[p] = Assessed(basis, p, preset, p \in old)
  BY <1>1, TableType, RankedType
<1>3. q \in Blockers(basis, p)
  BY <1>2 DEF Blockers
<1>4. decisions[p].tier = "blocked"
  BY <1>2, <1>3 DEF Assessed
<1>5. decisions = Ranked(table)
  OBVIOUS
<1> HIDE DEF table
<1>6. ASSUME decisions[q].tier # "blocked"
      PROVE  Before(table, q, p)
  BY <1>2, <1>4, <1>6 DEF Before, Tier, TierRank
<1> QED
  BY <1>2, <1>4, <1>5, <1>6, Positions

LEMMA ReadyHasEvidence == DecisionInv => ReadyIsEvidenced
<1> SUFFICES ASSUME DecisionInv, NEW p \in DOMAIN decisions, decisions[p].tier = "ready"
             PROVE  LET reviews == basis[p].reviews
                        lastWord(i) == \A j \in DOMAIN reviews :
                                           reviews[j].by = reviews[i].by => j <= i
                    IN  /\ basis[p].checks.read # <<>>
                        /\ \A i \in DOMAIN basis[p].checks.read :
                              basis[p].checks.read[i] = "passing"
                        /\ \E i \in DOMAIN reviews :
                              reviews[i].state = "approved" /\ lastWord(i)
                        /\ \A i \in DOMAIN reviews :
                              lastWord(i) => reviews[i].state # "changes_requested"
                        /\ basis[p].detail.conflicts = "no" /\ ~basis[p].detail.draft
  BY DEF ReadyIsEvidenced
<1> PICK preset, old : decisions = Ranked(Table(basis, preset, old))
  BY DEF DecisionInv
<1>1. /\ p \in DOMAIN basis
      /\ Assessed(basis, p, preset, p \in old).tier = "ready"
  BY TableType, RankedType DEF DecisionInv
<1>2. IsDerived(basis[p])
  BY <1>1 DEF DecisionInv
<1>3. /\ basis[p].reviewDecision = "approved" /\ basis[p].ciHealth = "passing"
      /\ basis[p].detail.conflicts = "no" /\ ~basis[p].detail.draft
  BY <1>1, <1>2, ReadyItem
<1>4. /\ basis[p].checks.read \in Checks /\ ci_health(basis[p].checks.read) = "passing"
      /\ basis[p].reviews \in Reviews /\ review_decision(basis[p].reviews) = "approved"
  BY <1>2, <1>3 DEF IsDerived
<1> QED
  BY <1>3, <1>4, PassingRuns, ApprovedReviews

--------------------------------------------------------------------------------
(* GitHub *)

\* The contents of a pull request, its lists within the bound.
Content == {c \in Contents : c.reviews \in Reviews /\ c.checks \in Checks}

GitHubInv == github \in [Pulls -> Content]

\* A list that is appended to below the bound, or changed in place.
LEMMA ListChange ==
    ASSUME NEW T, NEW list \in {s \in Seq(T) : Len(s) <= MaxList}, NEW e \in T
    PROVE  /\ Len(list) < MaxList => Append(list, e) \in {s \in Seq(T) : Len(s) <= MaxList}
           /\ \A i \in DOMAIN list :
                 /\ list[i] \in T
                 /\ [list EXCEPT ![i] = e] \in {s \in Seq(T) : Len(s) <= MaxList}
<1>1. list \in Seq(T) /\ Len(list) <= MaxList /\ DOMAIN list = 1..Len(list) /\ Len(list) \in Nat
  BY LenProperties
<1>2. /\ Append(list, e) \in Seq(T) /\ Len(Append(list, e)) = Len(list) + 1
      /\ \A i \in 1..Len(list) : /\ list[i] \in T
                                 /\ [list EXCEPT ![i] = e] \in Seq(T)
                                 /\ Len([list EXCEPT ![i] = e]) = Len(list)
  BY <1>1, AppendProperties, ExceptSeq, ElementOfSeq
<1> QED
  BY <1>1, <1>2, TriageAssumption

LEMMA ChangeKeeps ==
    ASSUME GitHubInv, NEW p \in Pulls, NEW c \in Content, Change(p, c)
    PROVE  GitHubInv'
BY DEF GitHubInv, Change

LEMMA GitHubStep == GitHubInv /\ [Next]_vars => GitHubInv'
<1> SUFFICES ASSUME GitHubInv, [Next]_vars
             PROVE  GitHubInv'
  OBVIOUS
<1>1. ASSUME NEW p \in Pulls
      PROVE  /\ github[p] \in [open : BOOLEAN, draft : BOOLEAN, conflicts : Conflicts,
                                labels : SUBSET Labels, deps : SUBSET {q[2] : q \in Pulls},
                                reviews : Reviews, checks : Checks]
             /\ github[p].reviews \in Seq([by : Reviewers, state : States])
             /\ github[p].checks \in Seq(Runs)
             /\ Len(github[p].reviews) \in Nat /\ Len(github[p].checks) \in Nat
             /\ DOMAIN github[p].reviews = 1..Len(github[p].reviews)
             /\ DOMAIN github[p].checks = 1..Len(github[p].checks)
  BY <1>1, LenProperties DEF GitHubInv, Content, Contents, Reviews, Checks
<1>2. ASSUME NEW c \in [open : BOOLEAN, draft : BOOLEAN, conflicts : Conflicts,
                        labels : SUBSET Labels, deps : SUBSET {q[2] : q \in Pulls},
                        reviews : Reviews, checks : Checks]
      PROVE  c \in Content
  BY <1>2 DEF Content, Contents, Reviews, Checks
<1>3. ASSUME NEW p \in Pulls, NEW by \in Reviewers, NEW s \in States, Review(p, by, s)
      PROVE  GitHubInv'
  <2> DEFINE review == [by |-> by, state |-> s]
             reviews == Append(github[p].reviews, review)
             c == [github[p] EXCEPT !.reviews = reviews]
  <2>1. reviews \in Reviews
    <3>1. review \in [by : Reviewers, state : States]
      OBVIOUS
    <3>2. Len(github[p].reviews) < MaxList
      BY <1>3 DEF Review
    <3>3. github[p].reviews \in Reviews
      BY <1>1
    <3> HIDE DEF review
    <3> QED
      BY <3>1, <3>2, <3>3, ListChange DEF Reviews
  <2>2. c \in Content
    BY <1>1, <1>2, <2>1
  <2>3. Change(p, c)
    BY <1>3 DEF Review
  <2> QED
    BY <2>2, <2>3, ChangeKeeps
<1>4. ASSUME NEW p \in Pulls, NEW i \in DOMAIN github[p].reviews, Dismiss(p, i)
      PROVE  GitHubInv'
  <2> DEFINE review == [github[p].reviews[i] EXCEPT !.state = "dismissed"]
             reviews == [github[p].reviews EXCEPT ![i] = review]
             c == [github[p] EXCEPT !.reviews = reviews]
  <2>1. review \in [by : Reviewers, state : States]
    <3>1. github[p].reviews[i] \in [by : Reviewers, state : States]
      BY <1>1, ElementOfSeq
    <3> QED
      BY <3>1 DEF States
  <2>2. reviews \in Reviews
    <3> HIDE DEF review
    <3> QED
      BY <1>1, <2>1, ListChange DEF Reviews
  <2>3. c \in Content
    BY <1>1, <1>2, <2>2
  <2>4. Change(p, c)
    BY <1>4 DEF Dismiss
  <2> QED
    BY <2>3, <2>4, ChangeKeeps
<1>5. ASSUME NEW p \in Pulls, StartRun(p)
      PROVE  GitHubInv'
  <2> DEFINE checks == Append(github[p].checks, "running")
             c == [github[p] EXCEPT !.checks = checks]
  <2>1. checks \in Checks
    BY <1>1, <1>5, AppendProperties, TriageAssumption DEF StartRun, Checks, Runs
  <2>2. c \in Content
    BY <1>1, <1>2, <2>1
  <2>3. Change(p, c)
    BY <1>5 DEF StartRun
  <2> QED
    BY <2>2, <2>3, ChangeKeeps
<1>6. ASSUME NEW p \in Pulls, NEW i \in DOMAIN github[p].checks, NEW o \in Runs,
             FinishRun(p, i, o)
      PROVE  GitHubInv'
  <2> DEFINE checks == [github[p].checks EXCEPT ![i] = o]
             c == [github[p] EXCEPT !.checks = checks]
  <2>1. checks \in Checks
    BY <1>1, ExceptSeq DEF Checks
  <2>2. c \in Content
    BY <1>1, <1>2, <2>1
  <2>3. Change(p, c)
    BY <1>6 DEF FinishRun
  <2> QED
    BY <2>2, <2>3, ChangeKeeps
<1>7. ASSUME NEW p \in Pulls, NEW q \in Pulls, DependOn(p, q)
      PROVE  GitHubInv'
  <2>1. [github[p] EXCEPT !.deps = @ \union {q[2]}] \in Content
    BY <1>1, <1>2
  <2> QED
    BY <1>7, <2>1, ChangeKeeps DEF DependOn
<1>8. ASSUME NEW p \in Pulls, NEW l \in Labels, Label(p, l)
      PROVE  GitHubInv'
  <2>1. [github[p] EXCEPT !.labels = @ \union {l}] \in Content
    BY <1>1, <1>2
  <2> QED
    BY <1>8, <2>1, ChangeKeeps DEF Label
<1>9. ASSUME NEW p \in Pulls, NEW c \in Conflicts, MergeState(p, c)
      PROVE  GitHubInv'
  <2>1. [github[p] EXCEPT !.conflicts = c] \in Content
    BY <1>1, <1>2
  <2> QED
    BY <1>9, <2>1, ChangeKeeps DEF MergeState
<1>10. ASSUME NEW p \in Pulls, Draft(p) \/ Close(p)
       PROVE  GitHubInv'
  <2>1. /\ [github[p] EXCEPT !.draft = ~@] \in Content
        /\ [github[p] EXCEPT !.open = ~@] \in Content
    BY <1>1, <1>2
  <2> QED
    BY <1>10, <2>1, ChangeKeeps DEF Draft, Close
<1>11. ASSUME ~GitHubChanges
       PROVE  UNCHANGED github
  BY <1>11 DEF Next, ListPulls, ReadReviews, ReadChecks, SyncFails, StoreSnapshot, Assess, vars
<1>12. ASSUME UNCHANGED github
       PROVE  GitHubInv'
  BY <1>12 DEF GitHubInv
<1> QED
  BY <1>3, <1>4, <1>5, <1>6, <1>7, <1>8, <1>9, <1>10, <1>11, <1>12 DEF GitHubChanges

--------------------------------------------------------------------------------
(* The budget of a snapshot *)

\* The newest pull requests of a repository, as many as the budget allows: the
\* number of newer ones tells them apart.
LEMMA ListedFits ==
    ASSUME NEW r
    PROVE  /\ Listed(r) \subseteq Of(r) /\ IsFiniteSet(Listed(r))
           /\ Cardinality(Listed(r)) <= Limit
<1> DEFINE newer(p) == {q \in Of(r) : q[2] > p[2]}
           rank == [p \in Listed(r) |-> Cardinality(newer(p))]
<1>1. /\ IsFiniteSet(Of(r)) /\ IsFiniteSet(Listed(r)) /\ Listed(r) \subseteq Of(r)
      /\ \A p \in Of(r) : p[1] = r /\ p[2] \in Nat /\ p = <<r, p[2]>>
  <2>1. Listed(r) \subseteq Of(r) /\ Of(r) \subseteq Pulls
    BY DEF Listed, Of
  <2>2. \A p \in Of(r) : p[1] = r /\ p \in Nat \X Nat
    BY TriageAssumption DEF Of
  <2> QED
    BY <2>1, <2>2, FS_Subset, TriageAssumption
<1>2. \A p \in Of(r) : IsFiniteSet(newer(p)) /\ Cardinality(newer(p)) \in Nat
  <2>1. \A p \in Of(r) : newer(p) \subseteq Of(r)
    OBVIOUS
  <2> QED
    BY <1>1, <2>1, FS_Subset, FS_CardinalityType
<1>3. ASSUME NEW p \in Of(r), NEW q \in Of(r), p[2] < q[2]
      PROVE  Cardinality(newer(q)) < Cardinality(newer(p))
  <2>1. newer(q) \subseteq newer(p) /\ q \in newer(p) /\ q \notin newer(q)
    BY <1>1, <1>3
  <2>2. /\ Cardinality(newer(q)) <= Cardinality(newer(p))
        /\ Cardinality(newer(q)) # Cardinality(newer(p))
    BY <1>2, <2>1, FS_Subset
  <2> QED
    BY <1>2, <2>2
<1>4. rank \in Injection(Listed(r), 0..(Limit - 1))
  <2>1. \A p \in Listed(r) : rank[p] \in 0..(Limit - 1)
    <3>1. \A p \in Listed(r) : rank[p] = Cardinality(newer(p)) /\ rank[p] < Limit
      BY DEF Listed
    <3>2. \A p \in Listed(r) : rank[p] \in Nat
      BY <1>1, <1>2
    <3>3. \A k \in Nat : k < Limit => k \in 0..(Limit - 1)
      BY TriageAssumption
    <3> HIDE DEF rank
    <3> QED
      BY <3>1, <3>2, <3>3
  <2>2. \A p, q \in Listed(r) : rank[p] = rank[q] => p = q
    <3> SUFFICES ASSUME NEW p \in Listed(r), NEW q \in Listed(r), rank[p] = rank[q]
                 PROVE  p = q
      OBVIOUS
    <3>1. p \in Of(r) /\ q \in Of(r) /\ Cardinality(newer(p)) = Cardinality(newer(q))
      BY <1>1
    <3>2. ~(p[2] < q[2]) /\ ~(q[2] < p[2])
      <4> HIDE DEF newer
      <4> QED
        BY <1>2, <1>3, <3>1
    <3> QED
      BY <1>1, <3>1, <3>2
  <2> HIDE DEF rank
  <2>3. rank \in [Listed(r) -> 0..(Limit - 1)]
    BY <2>1 DEF rank
  <2> QED
    BY <2>2, <2>3 DEF Injection, IsInjective
<1>5. IsFiniteSet(0..(Limit - 1)) /\ Cardinality(0..(Limit - 1)) = Limit
  BY FS_Interval, TriageAssumption
<1> QED
  BY <1>1, <1>4, <1>5, FS_Injection

\* The share of each pull request: what is read of all of them exceeds the budget
\* by less than the rounding.
LEMMA PerPullFits ==
    ASSUME NEW n \in Nat
    PROVE  /\ PerPull(n) \in Nat
           /\ \A k \in Nat : n # 0 /\ k <= PerPull(n) => n * (k - 1) < Limit
<1>1. CASE n = 0
  BY <1>1, TriageAssumption DEF PerPull
<1>2. CASE n # 0
  <2> DEFINE share == (Limit + n - 1) \div n
  <2>1. share \in Nat /\ n * share <= Limit + n - 1
    BY <1>2, TriageAssumption
  <2>2. ASSUME NEW k \in Nat, k <= share
        PROVE  n * (k - 1) < Limit
    <3> HIDE DEF share
    <3>1. n * k <= n * share
      BY <2>1, <2>2
    <3>2. n * (k - 1) = n * k - n
      BY <2>2
    <3> QED
      BY <2>1, <2>2, <3>1, <3>2, TriageAssumption
  <2> QED
    BY <1>2, <2>1, <2>2 DEF PerPull
<1> QED
  BY <1>1, <1>2

LEMMA AtMostFits ==
    ASSUME NEW T, NEW list \in {s \in Seq(T) : Len(s) <= MaxList}, NEW n \in Nat
    PROVE  /\ AtMost(n, list) \in {s \in Seq(T) : Len(s) <= MaxList}
           /\ Len(AtMost(n, list)) <= n
<1> DEFINE k == IF Len(list) < n THEN Len(list) ELSE n
<1>1. k \in Nat /\ k <= Len(list) /\ k <= n /\ Len(list) \in Nat /\ Len(list) <= MaxList
  BY LenProperties
<1> HIDE DEF k
<1>2. \A i \in 1..k : list[i] \in T
  BY <1>1, ElementOfSeq
<1>3. /\ SubSeq(list, 1, k) \in Seq(T)
      /\ Len(SubSeq(list, 1, k)) = k
  BY <1>1, <1>2, SubSeqProperties
<1> QED
  BY <1>1, <1>3, TriageAssumption DEF AtMost, k

--------------------------------------------------------------------------------
(* The snapshot that is being fetched, and the stored one *)

\* What a fetch of repository r has read so far.
IsFetch(r, F) ==
    /\ DOMAIN F = {"phase", "items", "reviews", "checks"}
    /\ F.phase \in {"idle", "reviews", "checks"}
    /\ DOMAIN F.items \subseteq Of(r) /\ Cardinality(DOMAIN F.items) <= Limit
    /\ \A p \in DOMAIN F.items : F.items[p] \in Details
    /\ DOMAIN F.reviews \subseteq DOMAIN F.items
    /\ \A p \in DOMAIN F.reviews :
          F.reviews[p] \in Reviews /\ Len(F.reviews[p]) <= PerPull(Cardinality(DOMAIN F.items))
    /\ F.phase = "checks" => DOMAIN F.reviews = DOMAIN F.items
    /\ DOMAIN F.checks \subseteq DOMAIN F.items
    /\ \A p \in DOMAIN F.checks :
          /\ F.checks[p].read \in Checks
          /\ Len(F.checks[p].read) <= PerPull(Cardinality(DOMAIN F.items))

FetchInv ==
    /\ fetch = [r \in Repositories |-> fetch[r]]
    /\ \A r \in Repositories : IsFetch(r, fetch[r])

\* The items of a snapshot of repository r.
IsSnapshot(r, items) ==
    /\ DOMAIN items \subseteq Of(r) /\ Cardinality(DOMAIN items) <= Limit
    /\ \A p \in DOMAIN items :
          /\ IsDerived(items[p])
          /\ Len(items[p].reviews) <= PerPull(Cardinality(DOMAIN items))
          /\ Len(items[p].checks.read) <= PerPull(Cardinality(DOMAIN items))

SnapshotInv ==
    /\ snapshot = [r \in Repositories |-> snapshot[r]]
    /\ \A r \in Repositories : IsSnapshot(r, snapshot[r].items)

LEMMA NothingFetched ==
    ASSUME NEW r
    PROVE  IsFetch(r, NotFetching) /\ IsSnapshot(r, NoSnapshot.items)
BY FS_EmptySet, TriageAssumption DEF IsFetch, IsSnapshot, NotFetching, NoSnapshot

LEMMA FetchMoves ==
    ASSUME FetchInv, NEW r \in Repositories, NEW F, IsFetch(r, F),
           fetch' = [fetch EXCEPT ![r] = F]
    PROVE  FetchInv'
BY DEF FetchInv

\* What is read of a pull request in one request.
LEMMA ReadOf ==
    ASSUME GitHubInv, NEW p \in Pulls, NEW n \in Nat
    PROVE  /\ AtMost(PerPull(n), github[p].reviews) \in Reviews
           /\ Len(AtMost(PerPull(n), github[p].reviews)) <= PerPull(n)
           /\ AtMost(PerPull(n), github[p].checks) \in Checks
           /\ Len(AtMost(PerPull(n), github[p].checks)) <= PerPull(n)
<1>1. github[p].reviews \in Reviews /\ github[p].checks \in Checks
  BY DEF GitHubInv, Content
<1>2. PerPull(n) \in Nat
  BY PerPullFits
<1> QED
  BY <1>1, <1>2, AtMostFits DEF Reviews, Checks

LEMMA FetchStep == GitHubInv /\ FetchInv /\ [Next]_vars => FetchInv'
<1> SUFFICES ASSUME GitHubInv, FetchInv, [Next]_vars
             PROVE  FetchInv'
  OBVIOUS
<1>1. ASSUME NEW r \in Repositories, ListPulls(r)
      PROVE  FetchInv'
  <2> DEFINE items == [p \in Listed(r) |->
                          [open |-> github[p].open, draft |-> github[p].draft,
                           conflicts |-> github[p].conflicts,
                           labels |-> github[p].labels, deps |-> github[p].deps]]
             F == [phase |-> "reviews", reviews |-> <<>>, checks |-> <<>>, items |-> items]
  <2>1. \A p \in Listed(r) : items[p] \in Details
    BY DEF GitHubInv, Content, Contents, Details, Listed, Of
  <2>2. DOMAIN items = Listed(r)
    OBVIOUS
  <2>3. fetch' = [fetch EXCEPT ![r] = F]
    BY <1>1 DEF ListPulls
  <2> HIDE DEF items
  <2>4. IsFetch(r, F)
    BY <2>1, <2>2, ListedFits DEF IsFetch
  <2> QED
    BY <2>3, <2>4, FetchMoves
<1>2. ASSUME NEW p \in Pulls
      PROVE  p[1] \in Repositories /\ IsFetch(p[1], fetch[p[1]])
  BY <1>2 DEF FetchInv, Repositories
<1>3. ASSUME NEW r \in Repositories
      PROVE  Cardinality(DOMAIN fetch[r].items) \in Nat
  <2>1. DOMAIN fetch[r].items \subseteq Pulls
    BY <1>3 DEF FetchInv, IsFetch, Of
  <2> QED
    BY <2>1, FS_Subset, FS_CardinalityType, TriageAssumption
<1>4. ASSUME NEW p \in Pulls, ReadReviews(p)
      PROVE  FetchInv'
  <2> DEFINE r == p[1]
             F == fetch[r]
             n == Cardinality(DOMAIN F.items)
             list == AtMost(PerPull(n), github[p].reviews)
             reviews == With(F.reviews, p, list)
             phase == IF DOMAIN reviews = DOMAIN F.items THEN "checks" ELSE "reviews"
             G == [F EXCEPT !.reviews = reviews, !.phase = phase]
  <2>1. r \in Repositories /\ IsFetch(r, F) /\ n \in Nat
    BY <1>2, <1>3
  <2>2. list \in Reviews /\ Len(list) <= PerPull(n)
    BY <2>1, ReadOf
  <2>3. fetch' = [fetch EXCEPT ![r] = G]
    BY <1>4, <2>1 DEF ReadReviews, FetchInv
  <2>4. p \in DOMAIN F.items
    BY <1>4 DEF ReadReviews
  <2> HIDE DEF list
  <2>5. /\ DOMAIN reviews = DOMAIN F.reviews \union {p}
        /\ \A q \in DOMAIN reviews : reviews[q] = IF q = p THEN list ELSE F.reviews[q]
    BY DEF With
  <2> HIDE DEF reviews
  <2>8. DOMAIN F = {"phase", "items", "reviews", "checks"}
    BY <2>1 DEF IsFetch
  <2>9. phase = IF DOMAIN reviews = DOMAIN F.items THEN "checks" ELSE "reviews"
    OBVIOUS
  <2> HIDE DEF F, phase
  <2>6. /\ DOMAIN G = {"phase", "items", "reviews", "checks"}
        /\ G.items = F.items /\ G.checks = F.checks /\ G.reviews = reviews
        /\ G.phase = phase
    BY <2>8
  <2> HIDE DEF G
  <2>7. IsFetch(r, G)
    BY <2>1, <2>2, <2>4, <2>5, <2>6, <2>9 DEF IsFetch
  <2> QED
    BY <2>1, <2>3, <2>7, FetchMoves
<1>5. ASSUME NEW p \in Pulls, ReadChecks(p)
      PROVE  FetchInv'
  <2> DEFINE r == p[1]
             F == fetch[r]
             n == Cardinality(DOMAIN F.items)
             list == AtMost(PerPull(n), github[p].checks)
             checks == With(F.checks, p, [read |-> list, all |-> github[p].checks])
             G == [F EXCEPT !.checks = checks]
  <2>1. r \in Repositories /\ IsFetch(r, F) /\ n \in Nat
    BY <1>2, <1>3
  <2>2. list \in Checks /\ Len(list) <= PerPull(n)
    BY <2>1, ReadOf
  <2>3. fetch' = [fetch EXCEPT ![r] = G]
    BY <1>5, <2>1 DEF ReadChecks, FetchInv
  <2>4. p \in DOMAIN F.items
    BY <1>5 DEF ReadChecks
  <2> HIDE DEF list
  <2>5. /\ DOMAIN checks = DOMAIN F.checks \union {p}
        /\ \A q \in DOMAIN checks :
              checks[q].read = IF q = p THEN list ELSE F.checks[q].read
    BY DEF With
  <2> HIDE DEF checks
  <2>6. /\ DOMAIN G = {"phase", "items", "reviews", "checks"}
        /\ G.items = F.items /\ G.checks = checks /\ G.reviews = F.reviews
        /\ G.phase = F.phase
    BY <2>1 DEF IsFetch
  <2> HIDE DEF F, G
  <2>7. IsFetch(r, G)
    BY <2>1, <2>2, <2>4, <2>5, <2>6 DEF IsFetch
  <2> QED
    BY <2>1, <2>3, <2>7, FetchMoves
<1>6. ASSUME NEW r \in Repositories, SyncFails(r) \/ StoreSnapshot(r)
      PROVE  FetchInv'
  <2>1. fetch' = [fetch EXCEPT ![r] = NotFetching]
    BY <1>6 DEF SyncFails, StoreSnapshot
  <2> QED
    BY <2>1, FetchMoves, NothingFetched
<1>7. ASSUME \/ GitHubChanges \/ UNCHANGED vars
             \/ \E preset \in Presets, old \in SUBSET Candidates(Stored) : Assess(preset, old)
      PROVE  UNCHANGED fetch
  BY <1>7
  DEF GitHubChanges, Change, Review, Dismiss, StartRun, FinishRun, Label, DependOn, MergeState,
      Draft, Close, Assess, vars
<1>8. ASSUME UNCHANGED fetch
      PROVE  FetchInv'
  BY <1>8 DEF FetchInv
<1> QED
  BY <1>1, <1>4, <1>5, <1>6, <1>7, <1>8 DEF Next

LEMMA SnapshotStep == FetchInv /\ SnapshotInv /\ [Next]_vars => SnapshotInv'
<1> SUFFICES ASSUME FetchInv, SnapshotInv, [Next]_vars
             PROVE  SnapshotInv'
  OBVIOUS
<1>1. ASSUME NEW r \in Repositories, StoreSnapshot(r)
      PROVE  SnapshotInv'
  <2> DEFINE F == fetch[r]
             items == [p \in DOMAIN F.items |-> Item(F, p)]
  <2>1. IsFetch(r, F) /\ F.phase = "checks" /\ DOMAIN F.checks = DOMAIN F.items
    BY <1>1 DEF FetchInv, StoreSnapshot
  <2>2. snapshot' = [snapshot EXCEPT ![r] = [items |-> items, failing |-> FailingCount(items)]]
    BY <1>1 DEF StoreSnapshot
  <2>3. /\ DOMAIN items = DOMAIN F.items
        /\ \A p \in DOMAIN items : items[p] = Item(F, p)
    OBVIOUS
  <2> HIDE DEF F, items
  <2>4. IsSnapshot(r, items)
    <3>1. ASSUME NEW p \in DOMAIN items
          PROVE  /\ IsDerived(items[p])
                 /\ Len(items[p].reviews) <= PerPull(Cardinality(DOMAIN items))
                 /\ Len(items[p].checks.read) <= PerPull(Cardinality(DOMAIN items))
      <4>1. /\ F.items[p] \in Details /\ F.reviews[p] \in Reviews
            /\ F.checks[p].read \in Checks
            /\ Len(F.reviews[p]) <= PerPull(Cardinality(DOMAIN items))
            /\ Len(F.checks[p].read) <= PerPull(Cardinality(DOMAIN items))
        BY <2>1, <2>3 DEF IsFetch
      <4>2. /\ items[p].detail = F.items[p]
            /\ items[p].reviews = F.reviews[p]
            /\ items[p].checks = F.checks[p]
            /\ items[p].ciHealth = ci_health(F.checks[p].read)
            /\ items[p].reviewDecision = review_decision(F.reviews[p])
        <5>1. items[p] = Item(F, p)
          BY <2>3
        <5> QED
          BY <5>1 DEF Item
      <4> QED
        BY <4>1, <4>2 DEF IsDerived
    <3> QED
      BY <2>1, <2>3, <3>1 DEF IsSnapshot, IsFetch
  <2> QED
    BY <2>2, <2>4 DEF SnapshotInv
<1>2. ASSUME \/ GitHubChanges \/ UNCHANGED vars
             \/ \E r \in Repositories : ListPulls(r) \/ SyncFails(r)
             \/ \E p \in Pulls : ReadReviews(p) \/ ReadChecks(p)
             \/ \E preset \in Presets, old \in SUBSET Candidates(Stored) : Assess(preset, old)
      PROVE  UNCHANGED snapshot
  BY <1>2
  DEF GitHubChanges, Change, Review, Dismiss, StartRun, FinishRun, Label, DependOn, MergeState,
      Draft, Close, ListPulls, SyncFails, ReadReviews, ReadChecks, Assess, vars
<1>3. ASSUME UNCHANGED snapshot
      PROVE  SnapshotInv'
  BY <1>3 DEF SnapshotInv
<1> QED
  BY <1>1, <1>2, <1>3 DEF Next

--------------------------------------------------------------------------------
(* The queue that is assessed from the stored snapshots *)

LEMMA StoredType ==
    ASSUME SnapshotInv
    PROVE  DOMAIN Stored \subseteq Pulls /\ \A p \in DOMAIN Stored : IsDerived(Stored[p])
<1>1. \A p \in DOMAIN Stored : \E r \in Repositories : p \in DOMAIN snapshot[r].items
  BY DEF Stored
<1>2. \A r \in Repositories : \A p \in DOMAIN snapshot[r].items :
         p \in Pulls /\ p[1] = r /\ IsDerived(snapshot[r].items[p])
  BY DEF SnapshotInv, IsSnapshot, Of
<1>3. \A p \in DOMAIN Stored : Stored[p] = snapshot[p[1]].items[p]
  BY DEF Stored
<1> QED
  BY <1>1, <1>2, <1>3

LEMMA DecisionStep == SnapshotInv /\ DecisionInv /\ [Next]_vars => DecisionInv'
<1> SUFFICES ASSUME SnapshotInv, DecisionInv, [Next]_vars
             PROVE  DecisionInv'
  OBVIOUS
<1>1. ASSUME NEW preset \in Presets, NEW old, Assess(preset, old)
      PROVE  DecisionInv'
  <2>1. basis' = Stored /\ decisions' = Ranked(Table(basis', preset, old))
    BY <1>1 DEF Assess, Table
  <2> QED
    BY <2>1, StoredType DEF DecisionInv
<1>2. ASSUME \/ GitHubChanges \/ UNCHANGED vars
             \/ \E r \in Repositories : ListPulls(r) \/ SyncFails(r) \/ StoreSnapshot(r)
             \/ \E p \in Pulls : ReadReviews(p) \/ ReadChecks(p)
      PROVE  UNCHANGED <<decisions, basis>>
  BY <1>2
  DEF GitHubChanges, Change, Review, Dismiss, StartRun, FinishRun, Label, DependOn, MergeState,
      Draft, Close, ListPulls, SyncFails, StoreSnapshot, ReadReviews, ReadChecks, vars
<1>3. ASSUME UNCHANGED <<decisions, basis>>
      PROVE  DecisionInv'
  BY <1>3 DEF DecisionInv
<1> QED
  BY <1>1, <1>2, <1>3 DEF Next

Bounds == changes \in 0..MaxChanges /\ syncs \in 0..MaxSyncs

LEMMA BoundsStep == Bounds /\ [Next]_vars => Bounds'
<1> SUFFICES ASSUME Bounds, [Next]_vars
             PROVE  Bounds'
  OBVIOUS
<1>1. ASSUME GitHubChanges
      PROVE  changes < MaxChanges /\ changes' = changes + 1 /\ UNCHANGED syncs
  BY <1>1
  DEF GitHubChanges, Change, Review, Dismiss, StartRun, FinishRun, Label, DependOn, MergeState,
      Draft, Close
<1>2. ASSUME NEW r \in Repositories, ListPulls(r)
      PROVE  syncs < MaxSyncs /\ syncs' = syncs + 1 /\ UNCHANGED changes
  BY <1>2 DEF ListPulls
<1>3. ASSUME \/ \E r \in Repositories : SyncFails(r) \/ StoreSnapshot(r)
             \/ \E p \in Pulls : ReadReviews(p) \/ ReadChecks(p)
             \/ \E preset \in Presets, old \in SUBSET Candidates(Stored) : Assess(preset, old)
             \/ UNCHANGED vars
      PROVE  UNCHANGED <<changes, syncs>>
  BY <1>3 DEF SyncFails, StoreSnapshot, ReadReviews, ReadChecks, Assess, vars
<1>4. \/ changes < MaxChanges /\ changes' = changes + 1 /\ UNCHANGED syncs
      \/ syncs < MaxSyncs /\ syncs' = syncs + 1 /\ UNCHANGED changes
      \/ UNCHANGED <<changes, syncs>>
  BY <1>1, <1>2, <1>3 DEF Next
<1> QED
  BY <1>4, TriageAssumption DEF Bounds

TriageInv == GitHubInv /\ FetchInv /\ SnapshotInv /\ DecisionInv /\ Bounds

LEMMA TriageInit == Init => TriageInv
<1> SUFFICES ASSUME Init
             PROVE  TriageInv
  OBVIOUS
<1>1. GitHubInv
  <2>1. \A o \in Openings : o.reviews \in Reviews /\ o.checks \in Checks
    BY TriageAssumption DEF Contents, Reviews, Checks
  <2>2. Openings \subseteq Content
    BY <2>1, TriageAssumption DEF Content
  <2> QED
    BY <2>2 DEF Init, GitHubInv
<1>2. FetchInv /\ SnapshotInv
  BY NothingFetched DEF Init, FetchInv, SnapshotInv
<1>3. DecisionInv /\ Bounds
  BY TriageAssumption DEF Init, DecisionInv, Bounds
<1> QED
  BY <1>1, <1>2, <1>3 DEF TriageInv

LEMMA TriageInvariant == Spec => []TriageInv
<1>1. TriageInv /\ [Next]_vars => TriageInv'
  BY GitHubStep, FetchStep, SnapshotStep, DecisionStep, BoundsStep DEF TriageInv
<1> QED
  BY <1>1, TriageInit, PTL DEF Spec

\* Every state of the queue has its type; no list that is read exceeds the budget
\* of its snapshot, which holds no more pull requests than the budget
\* (bounded_snapshot_limits and paginated in github.rs).
THEOREM TriageTypeCorrect == Spec => []TypeOK
<1>1. ASSUME TriageInv
      PROVE  TypeOK
  <2>1. \A p \in Pulls : IsReviews(github[p].reviews) /\ IsRuns(github[p].checks)
    BY <1>1, LenProperties, ElementOfSeq
    DEF TriageInv, GitHubInv, Content, Reviews, Checks, IsReviews, IsRuns
  <2>2. ASSUME NEW r \in Repositories
        PROVE  /\ fetch[r].phase \in {"idle", "reviews", "checks"}
               /\ DOMAIN fetch[r].reviews \subseteq DOMAIN fetch[r].items
               /\ DOMAIN fetch[r].checks \subseteq DOMAIN fetch[r].items
    BY <1>1, <2>2 DEF TriageInv, FetchInv, IsFetch
  <2>3. ASSUME NEW r \in Repositories
        PROVE  LET items == snapshot[r].items IN
               /\ DOMAIN items \subseteq Of(r) /\ Cardinality(DOMAIN items) <= Limit
               /\ \A p \in DOMAIN items : IsItem(items[p], Cardinality(DOMAIN items))
    <3> DEFINE items == snapshot[r].items
               n == Cardinality(DOMAIN items)
    <3>1. IsSnapshot(r, items)
      BY <1>1, <2>3 DEF TriageInv, SnapshotInv
    <3> SUFFICES ASSUME NEW p \in DOMAIN items
                 PROVE  IsItem(items[p], n)
      BY <3>1 DEF IsSnapshot
    <3>2. n \in Nat /\ n # 0
      <4>1. IsFiniteSet(DOMAIN items)
        BY <3>1, FS_Subset, TriageAssumption DEF IsSnapshot, Of
      <4> QED
        BY <4>1, FS_CardinalityType, FS_EmptySet
    <3>3. /\ IsDerived(items[p])
          /\ Len(items[p].reviews) <= PerPull(n) /\ Len(items[p].checks.read) <= PerPull(n)
      BY <3>1 DEF IsSnapshot
    <3> HIDE DEF items, n
    <3>4. items[p].reviews \in Reviews /\ items[p].checks.read \in Checks
      BY <3>3 DEF IsDerived
    <3>5. /\ Len(items[p].reviews) \in Nat /\ Len(items[p].checks.read) \in Nat
          /\ IsReviews(items[p].reviews) /\ IsRuns(items[p].checks.read)
      BY <3>4, LenProperties, ElementOfSeq DEF Reviews, Checks, IsReviews, IsRuns
    <3>6. /\ n * (Len(items[p].reviews) - 1) < Limit
          /\ n * (Len(items[p].checks.read) - 1) < Limit
      BY <3>2, <3>3, <3>5, PerPullFits
    <3>7. /\ items[p].ciHealth \in {"unknown", "pending", "failing", "passing"}
          /\ items[p].reviewDecision \in
                {"none", "reviewRequired", "approved", "changesRequested"}
      BY <3>3 DEF IsDerived, ci_health, review_decision
    <3>8. items[p].detail \in Details
      BY <3>3 DEF IsDerived
    <3> QED
      BY <3>5, <3>6, <3>7, <3>8 DEF IsItem
  <2>4. /\ DOMAIN decisions \subseteq DOMAIN basis
        /\ \A p \in DOMAIN decisions : decisions[p].tier \in DOMAIN TierRank
    <3>1. CASE decisions = <<>>
      BY <3>1
    <3>2. CASE decisions # <<>>
      <4>1. DOMAIN basis \subseteq Pulls
        BY <1>1 DEF TriageInv, DecisionInv
      <4>2. PICK preset, old : decisions = Ranked(Table(basis, preset, old))
        BY <1>1, <3>2 DEF TriageInv, DecisionInv
      <4>3. /\ DOMAIN decisions \subseteq DOMAIN basis
            /\ \A p \in DOMAIN decisions : decisions[p].tier \in Tier
        BY <4>1, <4>2, TableType, RankedType
      <4> QED
        BY <4>3 DEF Tier, TierRank
    <3> QED
      BY <3>1, <3>2
  <2> QED
    BY <1>1, <2>1, <2>2, <2>3, <2>4 DEF TriageInv, Bounds, TypeOK
<1> QED
  BY <1>1, TriageInvariant, PTL

\* A pull request that depends on another candidate of its repository is blocked,
\* and stands behind it unless that one is blocked too; two blocked ones are
\* ordered by score (assess_candidate in queue.rs).
THEOREM DependenciesComeFirst == Spec => []DependencyFirst
<1>1. TriageInv => DependencyFirst
  BY DependencyIsFirst DEF TriageInv
<1> QED
  BY <1>1, TriageInvariant, PTL

\* What is shown as ready has passing check runs, an approval that stands and
\* nobody's request for changes (ci_health and review_decision in github.rs).
THEOREM ReadyNeedsEvidence == Spec => []ReadyIsEvidenced
<1>1. TriageInv => ReadyIsEvidenced
  BY ReadyHasEvidence DEF TriageInv
<1> QED
  BY <1>1, TriageInvariant, PTL
================================================================================
