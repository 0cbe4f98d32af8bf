---------------------------- MODULE QualityGates ----------------------------
(***************************************************************************)
(* From a change of Codex to a pushed branch: the quality gates            *)
(* (domain/qualityGates.ts), the rounds of repairs around them, and the    *)
(* review by Codex itself, for a task and for the feedback of a reviewer,  *)
(* in both orchestrators (domain/orchestrator.ts,                          *)
(* domain/internalWorkerOrchestrator.ts; the latter has no self-review).   *)
(* A cycle may end anywhere, and the next one finds the working copy, the  *)
(* branch and the coverage report as they were left.                       *)
(*                                                                         *)
(* An edit stands for a whole content of the working copy; what is true of *)
(* it (which gates it passes, its coverage, whether a review would let it  *)
(* through) is settled when Codex makes it.                                *)
(*                                                                         *)
(* A definition whose name has a suffix after an underscore is a seeded    *)
(* fault of the definition below it; no specification uses it.             *)
(***************************************************************************)
EXTENDS Naturals, Sequences, FiniteSets, SequencesExt

CONSTANTS
    Configured,     \* gates that have a command
    ReportFile,     \* whether the coverage is read from a file, or from the output
    Threshold,      \* of the coverage; 0 for none
    SelfReview,     \* whether Codex reviews a task before it is published
    MaxFix, MaxReviewFix, MaxSelfFix,
    MaxEdits,       \* bound: edits Codex makes
    MaxFaults       \* bound: cycles that end where they should not

VARIABLES
    made,       \* what is true of each edit: [good, coverage, says, fine]
    tree,       \* the edit in the working copy; 0 is the base branch
    local,      \* the edit at the head of the branch
    remote,     \* the edit that is pushed, and who pushed it: [edit, by]
    request,    \* whether there is a merge request
    report,     \* what the coverage report says: none or garbage is << >>
    work,       \* the cycle: [at, path, head, left, results, attempt, review, runs]
    faults

vars == <<made, tree, local, remote, request, report, work, faults>>

\* buildQualityGates.
Gates == <<"typecheck", "lint", "tests", "build", "security_scan", "sast", "coverage", "visual_regression">>

\* Bound: an edit is wrong in at most one way.
Perfect == [good |-> Configured, coverage |-> Threshold, says |-> "it", fine |-> TRUE]
Poor    == [Perfect EXCEPT !.coverage = 0]
Edits   == {Perfect, Poor, [Poor EXCEPT !.says = "nothing"], [Poor EXCEPT !.says = "garbage"], [Perfect EXCEPT !.fine = FALSE]}
             \cup {[Perfect EXCEPT !.good = @ \ {g}] : g \in Configured}

Idle  == [at |-> "idle", path |-> "none", head |-> 0, left |-> <<>>, results |-> <<>>,
          attempt |-> 0, review |-> 0, runs |-> 0]
Goes(at) == work' = [work EXCEPT !.at = at]
Dirty == tree # local
Diff  == local # 0

-----------------------------------------------------------------------------
(* A cycle *)

\* processIssueWithContext, processTaskWithContext: what is there already is told,
\* checked, or there is nothing and Codex runs.
BeginTask ==
    /\ work.at = "idle"
    /\ ~ (request /\ ~Dirty /\ Diff)
    /\ work' = [Idle EXCEPT !.path = "task", !.at = IF Dirty \/ Diff THEN "validate" ELSE "codex"]
    /\ UNCHANGED <<made, tree, local, remote, request, report, faults>>

\* handleReviewFeedback, handleInternalReviewFeedback.
BeginFeedback ==
    /\ work.at = "idle" /\ request
    /\ work' = [Idle EXCEPT !.path = "feedback", !.at = "codex", !.head = local]
    /\ UNCHANGED <<made, tree, local, remote, request, report, faults>>

\* Codex edits, edits and commits, gives up what is not committed, or does nothing.
Counted == [work EXCEPT !.at = "validate", !.runs = @ + 1]
Codex ==
    /\ work.at \in {"codex", "fix", "self fix"}
    /\ \/ /\ Len(made) < MaxEdits
          /\ \E e \in Edits : made' = Append(made, e)
          /\ tree' = Len(made) + 1 /\ local' \in {local, Len(made) + 1}
       \/ tree' \in {tree, local} /\ UNCHANGED <<made, local>>
    /\ work' = IF work.at = "self fix" THEN [Counted EXCEPT !.review = @ + 1] ELSE Counted
    /\ UNCHANGED <<remote, request, report, faults>>

\* ... or it asks, and the cycle is over.
Ask ==
    /\ work.at \in {"codex", "fix", "self fix"}
    /\ work' = Idle
    /\ UNCHANGED <<made, tree, local, remote, request, report, faults>>

-----------------------------------------------------------------------------
(* The gates *)

\* validateRepositoryState: a task without any change has failed at the first look.
First == work.path = "task" /\ work.attempt = 0 /\ work.review = 0
Validate ==
    /\ work.at = "validate"
    /\ work' = CASE Dirty \/ Diff -> [work EXCEPT !.at = "gates", !.left = Gates, !.results = <<>>]
                 [] ~(Dirty \/ Diff) /\ First -> Idle
                 [] OTHER -> [work EXCEPT !.at = "decide", !.results = <<>>]
    /\ UNCHANGED <<made, tree, local, remote, request, report, faults>>

Is == IF tree = 0 THEN Perfect ELSE made[tree]
Result(gate, status) == [gate |-> gate, status |-> status]
FailedIn(results) == \E i \in DOMAIN results : results[i].status = "failed"

\* evaluateCoverageResult, parseCoveragePercent, where the command went through.
Printed == IF Is.says = "it" THEN <<Is.coverage>> ELSE <<>>
Written == IF Is.says = "nothing" THEN report ELSE Printed
Meets_Unread(says) == says = <<>> \/ Head(says) >= Threshold
Meets(says) == says # <<>> /\ Head(says) >= Threshold

Status_AnyCoverage(gate) == IF gate \in Is.good THEN "passed" ELSE "failed"
Status(gate) ==
    IF FailedIn(work.results) \/ gate \notin Configured THEN "skipped"
    ELSE IF gate \notin Is.good \/ (gate = "coverage" /\ ~Meets(IF ReportFile THEN Written ELSE Printed))
      THEN "failed" ELSE "passed"

\* runQualityGates: one after the other, on the working copy as it is.
Gate ==
    /\ work.at = "gates" /\ work.left # <<>>
    /\ LET gate == Head(work.left)
       IN  /\ work' = [work EXCEPT !.left = Tail(@), !.results = Append(@, Result(gate, Status(gate)))]
           /\ report' = IF gate = "coverage" /\ ReportFile /\ gate \in Is.good /\ Status(gate) # "skipped"
                          THEN Written ELSE report
    /\ UNCHANGED <<made, tree, local, remote, request, faults>>

GatesEnd ==
    /\ work.at = "gates" /\ work.left = <<>>
    /\ Goes("decide")
    /\ UNCHANGED <<made, tree, local, remote, request, report, faults>>

\* isValidationSuccessful: something has changed, and no gate failed.
Successful_NoneFailed == ~FailedIn(work.results)
Successful == work.results # <<>> /\ ~FailedIn(work.results)

\* The loops of repairs; the repair of what the self-review found has one try.
Allowed == IF work.path = "task" THEN MaxFix ELSE MaxReviewFix
Counts(w) == [w EXCEPT !.attempt = @ + 1]
Decide ==
    /\ work.at = "decide"
    /\ work' = CASE Successful -> [work EXCEPT !.at = IF work.path = "task" /\ SelfReview THEN "review" ELSE "commit"]
                 [] ~Successful /\ work.review = 0 /\ work.attempt < Allowed -> Counts([work EXCEPT !.at = "fix"])
                 [] OTHER -> Idle
    /\ UNCHANGED <<made, tree, local, remote, request, report, faults>>

-----------------------------------------------------------------------------
(* The review, and the push *)

\* runSelfReviewGate: an answer that parseSelfReviewResult cannot read is an error.
Verdict == Is.fine
Review ==
    /\ work.at = "review"
    /\ work' \in {Idle, IF Verdict THEN [work EXCEPT !.at = "commit"]
                        ELSE IF work.review < MaxSelfFix THEN [work EXCEPT !.at = "self fix"]
                        ELSE Idle}
    /\ UNCHANGED <<made, tree, local, remote, request, report, faults>>

\* publish: what is not committed is committed.  Feedback has to lead to a commit.
Commit ==
    /\ work.at = "commit"
    /\ local' = tree
    /\ work' = IF work.path = "feedback" /\ tree = work.head THEN Idle ELSE [work EXCEPT !.at = "push"]
    /\ UNCHANGED <<made, tree, remote, request, report, faults>>

Push ==
    /\ work.at = "push"
    /\ remote' = [edit |-> local, by |-> work.path]
    /\ Goes("request")
    /\ UNCHANGED <<made, tree, local, request, report, faults>>

\* The merge request is found or made, and the success is told.
Tell ==
    /\ work.at = "request"
    /\ request' = TRUE /\ work' = Idle
    /\ UNCHANGED <<made, tree, local, remote, report, faults>>

\* A command, GitLab or the tracker fails, or the process dies.
Fail ==
    /\ work.at # "idle" /\ faults < MaxFaults /\ faults' = faults + 1
    /\ work' = Idle
    /\ UNCHANGED <<made, tree, local, remote, request, report>>

Init ==
    /\ made = <<>> /\ tree = 0 /\ local = 0 /\ remote = [edit |-> 0, by |-> "none"]
    /\ request = FALSE /\ report = <<>> /\ work = Idle /\ faults = 0

Next ==
    \/ BeginTask \/ BeginFeedback \/ Codex \/ Ask \/ Validate \/ Gate \/ GatesEnd \/ Decide
    \/ Review \/ Commit \/ Push \/ Tell \/ Fail

Spec == Init /\ [][Next]_vars

-----------------------------------------------------------------------------
(* Properties *)

\* The state is of the right shape.
TypeOK ==
    /\ made \in Seq(Edits) /\ {tree, local, remote.edit} \subseteq 0..Len(made)
    /\ work.attempt \in Nat /\ work.review \in 0..MaxSelfFix /\ faults \in 0..MaxFaults

\* README.md:338, docs/ENV_CONFIGURATION.md:177: what is pushed is an edit, and passes every gate that
\* has a command, whatever cycles, repairs and failures led to it.  The coverage may
\* be below the threshold only where the command wrote no report, and the one of an
\* earlier edit was read.
RemoteIsEdit == remote.by = "none" \/ remote.edit # 0
RemotePassed ==
    remote.edit # 0 =>
        LET it == made[remote.edit]
        IN  /\ Configured \subseteq it.good
            /\ "coverage" \in Configured => it.coverage >= Threshold \/ (ReportFile /\ it.says = "nothing")

\* ... and what is pushed for a task has passed the review.
RemoteReviewed == remote.edit # 0 /\ remote.by = "task" /\ SelfReview => made[remote.edit].fine

\* Codex runs no more often in a cycle than the settings allow.
RunsAreBounded ==
    work.runs <= 1 + IF work.path = "task" THEN MaxFix + MaxSelfFix ELSE MaxReviewFix

\* A round that failed names one gate, runs none after it, and has every other on its list.
RoundIsWhole ==
    work.at = "decide" /\ work.results # <<>> =>
        /\ [i \in DOMAIN work.results |-> work.results[i].gate] = Gates
        /\ \A i, k \in DOMAIN Gates : work.results[i].status = "failed" /\ k > i => work.results[k].status = "skipped"
        /\ Successful => \A i \in DOMAIN Gates : Gates[i] \in Configured => work.results[i].status = "passed"

\* What the gates and the review owe whoever pulls the branch.
PushedIsSound == RemoteIsEdit /\ RemotePassed /\ RemoteReviewed /\ RunsAreBounded /\ RoundIsWhole

=============================================================================
