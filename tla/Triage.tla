------------------------------- MODULE Triage -------------------------------
(***************************************************************************)
(* What the person is shown to work on next: repository snapshots fetched   *)
(* from GitHub request by request (patchwright-engine/src/github.rs), stored *)
(* whole, and ranked into the pull request queue (patchwright-core/src/      *)
(* queue.rs) by the githubQueueAssess method of rpc.rs.                      *)
(*                                                                         *)
(* A snapshot is read within a budget: Limit pull requests of a repository  *)
(* and, for each, the first PerPull reviews and check runs.  GitHub changes *)
(* between any two of the requests.  Commits do not move in this module     *)
(* (Monitor has pushes); titles, bodies, comments, review threads and       *)
(* workflow runs are stored and read by no decision, so they are left out.  *)
(*                                                                         *)
(* Repositories are numbered in the order of their names.                   *)
(***************************************************************************)
EXTENDS Integers, FiniteSets, Sequences

CONSTANTS
    Pulls,        \* the pull requests, as <<repository, number>>
    Limit,        \* the budget of a snapshot (MAX_SNAPSHOT_RESOURCES or less)
    Reviewers,
    Presets,      \* the workflow presets a person assesses with
    Openings,     \* what a pull request may hold at the start
    MaxOld,       \* bound: candidates that turn 30 days old before an assessment
    MaxList,      \* bound: reviews or check runs of one pull request
    MaxChanges,   \* bound: changes of the contents of GitHub
    MaxSyncs      \* bound: snapshots that are begun

VARIABLES
    github,       \* [Pulls -> contents] as GitHub holds them
    fetch,        \* [Repositories -> what an unfinished snapshot has read]
    snapshot,     \* [Repositories -> the stored snapshot: items, failing count]
    decisions,    \* the queue_decisions table: [pull -> decision]
    basis,        \* history: the items the stored decisions were made from
    changes, syncs

vars == <<github, fetch, snapshot, decisions, basis, changes, syncs>>

Repositories == {p[1] : p \in Pulls}
Of(r) == {p \in Pulls : p[1] = r}

(* A check run, by what ci_health tells apart: not completed, completed with *)
(* a failing conclusion, with one that passes (success, neutral, skipped),   *)
(* or with any other.                                                        *)
Runs == {"running", "failing", "passing", "other"}
States == {"approved", "changes_requested", "commented", "dismissed"}
Labels == {"security", "release", "post-merge"}
Conflicts == {"yes", "no", "unknown"}

(* What GitHub holds of a pull request, as far as a snapshot reads it.       *)
Contents == [open : BOOLEAN, draft : BOOLEAN, conflicts : Conflicts,
             labels : SUBSET Labels, deps : SUBSET {p[2] : p \in Pulls},
             reviews : Seq([by : Reviewers, state : States]), checks : Seq(Runs)]

ASSUME TriageAssumption ==
    /\ IsFiniteSet(Pulls) /\ Pulls \subseteq Nat \X Nat
    /\ Limit \in Nat \ {0}
    /\ MaxList \in Nat /\ MaxChanges \in Nat /\ MaxSyncs \in Nat
    /\ Openings \subseteq Contents
    /\ \A o \in Openings : Len(o.reviews) <= MaxList /\ Len(o.checks) <= MaxList

NotFetching == [phase |-> "idle", items |-> <<>>, reviews |-> <<>>, checks |-> <<>>]
NoSnapshot == [items |-> <<>>, failing |-> 0]

Init ==
    /\ github \in [Pulls -> Openings]
    /\ fetch = [r \in Repositories |-> NotFetching]
    /\ snapshot = [r \in Repositories |-> NoSnapshot]
    /\ decisions = <<>>
    /\ basis = <<>>
    /\ changes = 0
    /\ syncs = 0

-----------------------------------------------------------------------------
(* GitHub.  Anyone may change a pull request at any time.                    *)

Change(p, contents) ==
    /\ changes < MaxChanges
    /\ contents # github[p]
    /\ changes' = changes + 1
    /\ github' = [github EXCEPT ![p] = contents]
    /\ UNCHANGED <<fetch, snapshot, decisions, basis, syncs>>

Review(p, by, state) ==
    /\ Len(github[p].reviews) < MaxList
    /\ Change(p, [github[p] EXCEPT !.reviews = Append(@, [by |-> by, state |-> state])])

(* A dismissed review stays in its place in the list. *)
Dismiss(p, i) ==
    Change(p, [github[p] EXCEPT !.reviews[i].state = "dismissed"])

StartRun(p) ==
    /\ Len(github[p].checks) < MaxList
    /\ Change(p, [github[p] EXCEPT !.checks = Append(@, "running")])

FinishRun(p, i, outcome) ==
    /\ github[p].checks[i] = "running"
    /\ Change(p, [github[p] EXCEPT !.checks[i] = outcome])

Label(p, label) ==
    Change(p, [github[p] EXCEPT !.labels = @ \union {label}])

(* The label depends-on:#number, which dependency_labels parses. *)
DependOn(p, q) ==
    Change(p, [github[p] EXCEPT !.deps = @ \union {q[2]}])

MergeState(p, c) == Change(p, [github[p] EXCEPT !.conflicts = c])
Draft(p) == Change(p, [github[p] EXCEPT !.draft = ~@])
Close(p) == Change(p, [github[p] EXCEPT !.open = ~@])

GitHubChanges ==
    \E p \in Pulls :
        \/ \E by \in Reviewers, s \in States \ {"dismissed"} : Review(p, by, s)
        \/ \E i \in DOMAIN github[p].reviews : Dismiss(p, i)
        \/ StartRun(p)
        \/ \E i \in DOMAIN github[p].checks, o \in Runs \ {"running"} : FinishRun(p, i, o)
        \/ \E l \in Labels : Label(p, l)
        \/ \E q \in Pulls : DependOn(p, q)
        \/ \E c \in Conflicts : MergeState(p, c)
        \/ Draft(p)
        \/ Close(p)

-----------------------------------------------------------------------------
(* The snapshot of one repository.                                           *)

AtMost(limit, list) == SubSeq(list, 1, IF Len(list) < limit THEN Len(list) ELSE limit)

(* bounded_snapshot_limits: the budget is divided over the pull requests,    *)
(* rounded up, and never below one.                                          *)
PerPull(n) == IF n = 0 THEN Limit ELSE (Limit + n - 1) \div n

(* The list of pull requests holds closed ones too, the newest first. *)
Listed(r) == {p \in Of(r) : Cardinality({q \in Of(r) : q[2] > p[2]}) < Limit}

(* The list, then the detail of each listed pull request: what later steps   *)
(* use of both is the detail.                                                *)
ListPulls(r) ==
    /\ fetch[r].phase = "idle"
    /\ syncs < MaxSyncs
    /\ syncs' = syncs + 1
    /\ fetch' = [fetch EXCEPT ![r] =
          [phase |-> "reviews", reviews |-> <<>>, checks |-> <<>>,
           items |-> [p \in Listed(r) |->
                        [open |-> github[p].open, draft |-> github[p].draft,
                         conflicts |-> github[p].conflicts,
                         labels |-> github[p].labels, deps |-> github[p].deps]]]]
    /\ UNCHANGED <<github, snapshot, decisions, basis, changes>>

With(f, p, value) == [q \in DOMAIN f \union {p} |-> IF q = p THEN value ELSE f[q]]

(* The reviews of the pull requests are requested concurrently; the check    *)
(* runs only when every list of reviews has come.                            *)
ReadReviews(p) ==
    LET r == p[1]  F == fetch[r] IN
    /\ F.phase = "reviews"
    /\ p \in DOMAIN F.items \ DOMAIN F.reviews
    /\ LET reviews == With(F.reviews, p,
                           AtMost(PerPull(Cardinality(DOMAIN F.items)), github[p].reviews))
       IN  fetch' = [fetch EXCEPT ![r].reviews = reviews,
                                  ![r].phase = IF DOMAIN reviews = DOMAIN F.items
                                               THEN "checks" ELSE "reviews"]
    /\ UNCHANGED <<github, snapshot, decisions, basis, changes, syncs>>

(* `all' is history: the list as GitHub has it when it is read. *)
ReadChecks(p) ==
    LET r == p[1]  F == fetch[r] IN
    /\ F.phase = "checks"
    /\ p \in DOMAIN F.items \ DOMAIN F.checks
    /\ fetch' = [fetch EXCEPT ![r].checks =
          With(F.checks, p,
               [read |-> AtMost(PerPull(Cardinality(DOMAIN F.items)), github[p].checks),
                all |-> github[p].checks])]
    /\ UNCHANGED <<github, snapshot, decisions, basis, changes, syncs>>

(* A request that fails ends the snapshot; nothing of it is stored. *)
SyncFails(r) ==
    /\ fetch[r].phase # "idle"
    /\ fetch' = [fetch EXCEPT ![r] = NotFetching]
    /\ UNCHANGED <<github, snapshot, decisions, basis, changes, syncs>>

-----------------------------------------------------------------------------
(* What is derived from the lists that were read.                            *)

Has(list, value) == \E i \in DOMAIN list : list[i] = value

ci_health(checks) ==
    IF checks = <<>> THEN "unknown"
    ELSE IF Has(checks, "running") THEN "pending"
    ELSE IF Has(checks, "failing") THEN "failing"
    ELSE IF Has(checks, "other") THEN "unknown"
    ELSE "passing"

(* The state of the last review of each reviewer that is in the list.        *)
Latest(reviews) ==
    {reviews[i].state : i \in {i \in DOMAIN reviews :
        \A j \in DOMAIN reviews : j > i => reviews[j].by # reviews[i].by}}

(* Mutant: an approval outweighs a request for changes. *)
review_decision_ApprovalWins(reviews) ==
    IF "approved" \in Latest(reviews) THEN "approved"
    ELSE IF "changes_requested" \in Latest(reviews) THEN "changesRequested"
    ELSE IF reviews = <<>> THEN "none" ELSE "reviewRequired"

review_decision(reviews) ==
    LET states == Latest(reviews) IN
    IF "changes_requested" \in states THEN "changesRequested"
    ELSE IF "approved" \in states THEN "approved"
    ELSE IF states = {} THEN "none" ELSE "reviewRequired"

(* One item of the snapshot, with the lists it was derived from (the         *)
(* snapshot stores them too, as its discussions and checks).                 *)
Item(F, p) ==
    [detail |-> F.items[p], reviews |-> F.reviews[p], checks |-> F.checks[p],
     ciHealth |-> ci_health(F.checks[p].read),
     reviewDecision |-> review_decision(F.reviews[p])]

(* failing_check_count of the repository: the failing runs that were read of *)
(* its open pull requests, whatever the other runs of them do.               *)
FailingCount(items) ==
    LET open == {p \in DOMAIN items : items[p].detail.open} IN
    Cardinality({run \in open \X (1..MaxList) :
        LET read == items[run[1]].checks.read
        IN  run[2] \in DOMAIN read /\ read[run[2]] = "failing"})

StoreSnapshot(r) ==
    LET F == fetch[r]
        items == [p \in DOMAIN F.items |-> Item(F, p)]
    IN
    /\ F.phase = "checks"
    /\ DOMAIN F.checks = DOMAIN F.items
    /\ snapshot' = [snapshot EXCEPT ![r] = [items |-> items, failing |-> FailingCount(items)]]
    /\ fetch' = [fetch EXCEPT ![r] = NotFetching]
    /\ UNCHANGED <<github, decisions, basis, changes, syncs>>

-----------------------------------------------------------------------------
(* The queue.                                                                *)

Candidates(items) == {p \in DOMAIN items : items[p].detail.open}

(* Every stored snapshot, as one function from pull requests to items. *)
Stored ==
    [p \in UNION {DOMAIN snapshot[r].items : r \in Repositories} |->
        snapshot[p[1]].items[p]]

(* validate_candidates: one candidate that depends on its own number refuses *)
(* the whole assessment.                                                     *)
Valid(items) == \A p \in Candidates(items) : p[2] \notin items[p].detail.deps

Unknown(item) == item.reviewDecision = "none" \/ item.detail.conflicts = "unknown"

(* The first condition that holds decides the tier and its score. *)
Graded(item) ==
    LET is(tier, score) == [tier |-> tier, score |-> score] IN
    IF "security" \in item.detail.labels THEN is("critical", 1000)
    ELSE IF Unknown(item) THEN is("blocked", 0)
    ELSE IF item.detail.conflicts = "yes" THEN is("repair", 820)
    ELSE IF item.ciHealth = "failing" THEN is("repair", 800)
    ELSE IF item.reviewDecision = "changesRequested" THEN is("review", 700)
    ELSE IF item.detail.draft THEN is("draft", 400)
    ELSE IF item.reviewDecision = "approved" /\ item.ciHealth = "passing" THEN is("ready", 900)
    ELSE is("review", 600)

(* apply_preset.  No candidate has changed paths here, so the preset for     *)
(* duplicates matches none.                                                  *)
Matched(preset, item, old) ==
    \/ preset = "quickWins" /\ ~item.detail.draft /\ item.ciHealth # "failing"
          /\ item.detail.conflicts # "yes"
    \/ preset = "ciRescue" /\ item.ciHealth = "failing"
    \/ preset \in {"reviewClosure", "reviewLoadBalancing"}
          /\ item.reviewDecision = "changesRequested"
    \/ preset = "conflictRecovery" /\ item.detail.conflicts = "yes"
    \/ preset = "dependencyChain" /\ item.detail.deps # {}
    \/ preset = "securityFirst" /\ "security" \in item.detail.labels
    \/ preset = "releaseTrain" /\ "release" \in item.detail.labels
    \/ preset = "stalePullRequestTriage" /\ old
    \/ preset = "draftCompletion" /\ item.detail.draft
    \/ preset = "postMergeWatch" /\ "post-merge" \in item.detail.labels

(* The dependencies of p that are candidates of the same repository. *)
Blockers(items, p) ==
    {q \in Candidates(items) : q[1] = p[1] /\ q[2] \in items[p].detail.deps}

(* Mutant: staleness is decided after the dependencies. *)
Assessed_StaleLast(items, p, preset, old) ==
    LET graded == Graded(items[p]) IN
    [tier  |-> IF old /\ graded.tier # "blocked" THEN "stale"
               ELSE IF Blockers(items, p) # {} THEN "blocked" ELSE graded.tier,
     score |-> graded.score - 500 * Cardinality(Blockers(items, p))]

(* assess_candidate: a candidate not updated for 30 days is stale, unless it *)
(* is blocked; one that waits for another candidate is blocked.              *)
Assessed(items, p, preset, old) ==
    LET graded == Graded(items[p])
        aged == IF old /\ graded.tier # "blocked" THEN "stale" ELSE graded.tier
    IN  [tier  |-> IF Blockers(items, p) # {} THEN "blocked" ELSE aged,
         score |-> graded.score + (IF Matched(preset, items[p], old) THEN 250 ELSE 0)
                   - 500 * Cardinality(Blockers(items, p))]

TierRank == [critical |-> 1, ready |-> 2, repair |-> 3, review |-> 4,
             draft |-> 5, stale |-> 6, blocked |-> 7]

(* By tier, then the higher score, then the repository, then the number. *)
Before(table, p, q) ==
    LET t == TierRank[table[p].tier]  u == TierRank[table[q].tier]
        s == table[p].score  v == table[q].score
    IN  \/ t < u
        \/ t = u /\ s > v
        \/ t = u /\ s = v /\ p[1] < q[1]
        \/ t = u /\ s = v /\ p[1] = q[1] /\ p[2] < q[2]

(* The rows replace_queue_decisions writes: every decision at its position. *)
Ranked(table) ==
    [p \in DOMAIN table |->
        [tier |-> table[p].tier, score |-> table[p].score,
         position |-> Cardinality({q \in DOMAIN table : Before(table, q, p)})]]

(* githubQueueAssess: one critical section from the stored snapshots to the  *)
(* replaced table.  Any of the candidates may by now be 30 days old.  An      *)
(* assessment that is refused changes nothing.                               *)
Assess(preset, old) ==
    /\ Valid(Stored)
    /\ decisions' = Ranked([p \in Candidates(Stored) |->
                               Assessed(Stored, p, preset, p \in old)])
    /\ basis' = Stored
    /\ UNCHANGED <<github, fetch, snapshot, changes, syncs>>

Next ==
    \/ GitHubChanges
    \/ \E r \in Repositories : ListPulls(r) \/ SyncFails(r) \/ StoreSnapshot(r)
    \/ \E p \in Pulls : ReadReviews(p) \/ ReadChecks(p)
    \/ \E preset \in Presets, old \in SUBSET Candidates(Stored) :
          Cardinality(old) <= MaxOld /\ Assess(preset, old)

Spec == Init /\ [][Next]_vars

-----------------------------------------------------------------------------
(* Properties.                                                               *)

(* The variables hold values of the shapes the code gives them, and no list  *)
(* that is read exceeds its budget (github.rs paginated).                    *)
Details == [open : BOOLEAN, draft : BOOLEAN, conflicts : Conflicts,
            labels : SUBSET Labels, deps : SUBSET {p[2] : p \in Pulls}]
IsReviews(list) ==
    Len(list) <= MaxList /\ \A i \in DOMAIN list : list[i] \in [by : Reviewers, state : States]
IsRuns(list) == Len(list) <= MaxList /\ \A i \in DOMAIN list : list[i] \in Runs
IsItem(item, n) ==
    /\ item.detail \in Details
    /\ IsReviews(item.reviews) /\ n * (Len(item.reviews) - 1) < Limit
    /\ IsRuns(item.checks.read) /\ n * (Len(item.checks.read) - 1) < Limit
    /\ item.ciHealth \in {"unknown", "pending", "failing", "passing"}
    /\ item.reviewDecision \in {"none", "reviewRequired", "approved", "changesRequested"}
TypeOK ==
    /\ \A p \in Pulls : IsReviews(github[p].reviews) /\ IsRuns(github[p].checks)
    /\ \A r \in Repositories :
          /\ fetch[r].phase \in {"idle", "reviews", "checks"}
          /\ DOMAIN fetch[r].reviews \subseteq DOMAIN fetch[r].items
          /\ DOMAIN fetch[r].checks \subseteq DOMAIN fetch[r].items
          /\ LET items == snapshot[r].items IN
             /\ DOMAIN items \subseteq Of(r) /\ Cardinality(DOMAIN items) <= Limit
             /\ \A p \in DOMAIN items : IsItem(items[p], Cardinality(DOMAIN items))
    /\ DOMAIN decisions \subseteq DOMAIN basis
    /\ \A p \in DOMAIN decisions : decisions[p].tier \in DOMAIN TierRank
    /\ changes \in 0..MaxChanges /\ syncs \in 0..MaxSyncs

(* A pull request that depends on another listed one of its repository is    *)
(* blocked, even when it is also old, critical or approved, and never stands *)
(* before a dependency that can be worked on (queue.rs assess_candidate,     *)
(* where staleness, the preset and the dependencies follow each other).      *)
DependencyFirst ==
    \A p, q \in DOMAIN decisions :
        p[1] = q[1] /\ q[2] \in basis[p].detail.deps =>
            /\ decisions[p].tier = "blocked"
            /\ decisions[q].tier # "blocked" => decisions[q].position < decisions[p].position

(* What is shown as ready has at least one check run that was read, none     *)
(* that did not pass, an approval its author did not follow by another       *)
(* review, and no request for changes that still is its author's last word   *)
(* (github.rs ci_health, review_decision; queue.rs assess_candidate).        *)
ReadyIsEvidenced ==
    \A p \in DOMAIN decisions : decisions[p].tier = "ready" =>
        LET reviews == basis[p].reviews
            lastWord(i) == \A j \in DOMAIN reviews :
                               reviews[j].by = reviews[i].by => j <= i
        IN  /\ basis[p].checks.read # <<>>
            /\ \A i \in DOMAIN basis[p].checks.read : basis[p].checks.read[i] = "passing"
            /\ \E i \in DOMAIN reviews : reviews[i].state = "approved" /\ lastWord(i)
            /\ \A i \in DOMAIN reviews : lastWord(i) => reviews[i].state # "changes_requested"
            /\ basis[p].detail.conflicts = "no" /\ ~basis[p].detail.draft

(* "CI passed" (monitoring.rs) is said of a pull request whose ciHealth is   *)
(* passing: every check run GitHub had when they were read should pass.      *)
PassingIsComplete ==
    \A r \in Repositories : \A p \in DOMAIN snapshot[r].items :
        LET item == snapshot[r].items[p] IN
        item.ciHealth = "passing" =>
            \A i \in DOMAIN item.checks.all : item.checks.all[i] = "passing"

=============================================================================
