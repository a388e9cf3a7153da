--------------------------------- MODULE Policy ---------------------------------
(***************************************************************************)
(* What an action needs and what an approval grants: the pure rules of     *)
(* policy.rs, with the capability and the permissions of each GitHub       *)
(* action (github_actions.rs) and those of the token the engine asks for   *)
(* (installation.rs).  Delivery and Preparation have the approvals         *)
(* themselves, with the transactions around them.                          *)
(*                                                                         *)
(* An action kind is its capability (the two names are the same); the      *)
(* other fields of a fingerprint are one value, its subject.  An Option is *)
(* the set of its value.                                                   *)
(***************************************************************************)
EXTENDS Integers

CONSTANT Subject   \* task, repository, pull request, SHAs, payload, generation

Local == {"modifyWorktree", "runKnownCommand"}
Guarded == {"accessNetwork", "installDependency", "modifyWorkflow"}
Merging == {"enqueuePullRequest", "mergePullRequest"}
Writing ==
    {"createBranch", "pushBranch", "createPullRequest", "postComment", "postReview",
     "resolveThread", "createCheckRun", "updatePullRequestBranch", "readyPullRequest",
     "closePullRequest", "closeIssue"}

Capability ==
    {"readRepository", "prepareWorktree", "administratorBypass"}
    \cup Local \cup Guarded \cup Merging \cup Writing

ApprovalClass ==
    {"preparation", "codexRuntime", "localCapability", "gitHubDelivery", "merge"}

ActionFingerprint == [action_kind : Capability, subject : Subject]

MAX_APPROVAL_DURATION == 30 * 60   \* seconds

\* The class of approval that an action asks for.
required_class(c) ==
    IF c = "prepareWorktree" THEN "preparation"
    ELSE IF c \in Merging THEN "merge"
    ELSE IF c \in Guarded \cup {"administratorBypass"} THEN "localCapability"
    ELSE IF c \in Writing THEN "gitHubDelivery"
    ELSE "codexRuntime"

\* The actions an approval of a class may be given for.
class_supports(class, c) ==
    \/ class = "preparation" /\ c = "prepareWorktree"
    \/ class = "codexRuntime" /\ c \in Local
    \/ class = "localCapability" /\ c \in Guarded
    \/ class = "gitHubDelivery" /\ c \in Writing
    \/ class = "merge" /\ c \in Merging

\* What Approval::new makes.
Approval ==
    {a \in [class : ApprovalClass, capability : Capability, fingerprint : ActionFingerprint,
            approved_at : Int, expires_at : Int] :
        /\ a.approved_at < a.expires_at
        /\ a.expires_at - a.approved_at <= MAX_APPROVAL_DURATION
        /\ class_supports(a.class, a.capability)
        /\ a.fingerprint.action_kind = a.capability}

is_valid_for(a, class, c, f, now) ==
    /\ a.class = class
    /\ a.capability = c
    /\ a.fingerprint = f
    /\ a.approved_at <= now /\ now < a.expires_at

\* Actions that no approval is asked for.
Free == {"readRepository"} \cup Local

\* Policy::authorize; disabled is PATCHWRIGHT_AUTOMATION_DISABLED.
authorize(disabled, c, f, approval, now) ==
    IF \/ c = "administratorBypass"
       \/ f.action_kind # c
       \/ disabled /\ c # "readRepository"
    THEN "denied"
    ELSE IF \/ c \in Free
            \/ \E a \in approval : is_valid_for(a, required_class(c), c, f, now)
         THEN "allowed"
         ELSE "approvalRequired"

--------------------------------------------------------------------------------
(* GitHub actions *)

GitHubAction ==
    {"createBranch", "pushIntent", "comment", "review", "resolveReviewThread", "checkRun",
     "draftPullRequest", "updatePullRequestBranch", "readyPullRequest", "closePullRequest",
     "closeIssue", "enqueuePullRequest", "mergePullRequest"}

\* GitHubAction::capability
capability(action) ==
    IF action = "pushIntent" THEN "pushBranch"
    ELSE IF action = "comment" THEN "postComment"
    ELSE IF action = "review" THEN "postReview"
    ELSE IF action = "resolveReviewThread" THEN "resolveThread"
    ELSE IF action = "checkRun" THEN "createCheckRun"
    ELSE IF action = "draftPullRequest" THEN "createPullRequest"
    ELSE action

\* The permission to write that each action is listed with; metadata:read is
\* listed with all of them.
permissions_for(action) ==
    IF action \in {"createBranch", "pushIntent"} THEN "contents"
    ELSE IF action \in {"comment", "closeIssue"} THEN "issues"
    ELSE IF action = "checkRun" THEN "checks"
    ELSE "pull_requests"

\* What InstallationPermissions::delivery asks GitHub to write.
delivery == {"checks", "contents", "issues", "pull_requests"}
================================================================================
