---------------------------- MODULE DirectWorker ----------------------------
(***************************************************************************)
(* The worker of direct mode (src/domain/orchestrator.ts).  It has no      *)
(* store of its own: whatever it must remember it writes as comments of    *)
(* the external issue, and each cycle begins by reading them again.        *)
(*                                                                         *)
(* One process with one WORKER_ID; which of several workers gets an issue  *)
(* is settled before a cycle begins.  Every await whose effect outlives    *)
(* the process is an action, so that it can be interrupted between any     *)
(* two of them.                                                            *)
(*                                                                         *)
(* A definition whose name has a suffix after an underscore is a seeded    *)
(* fault of the definition below it; no specification uses it.             *)
(***************************************************************************)
EXTENDS Naturals

CONSTANTS
    Issues, NoIssue,
    Order,       \* the order in which the tracker lists the issues
    MaxFix,      \* maxFixAttempts, maxReviewFixAttempts, codexSelfReviewMaxFixAttempts
    Subtasks,    \* how many subtasks a plan has
    Verdicts,    \* what an analysis may decide
    Commands,    \* slash commands in people's comments
    Moves,       \* statuses people set by hand
    Reviews,     \* what reviewers do
    Faults       \* what may go wrong: "interrupt", "permanent", "refused"

VARIABLES
    state,     \* logical status of each issue
    says,      \* what the comments of an issue say
    branch,    \* the task branch in the working copy, and its merge request
    run        \* what the process is doing

vars == <<state, says, branch, run>>

LogicalStatus == {"open", "in_progress", "waiting_for_answer", "review", "failed", "done"}

\* The latest AI STATUS and AI ANALYSIS; whether there is an AI QUESTION and
\* the latest command after it; whether an AI MR names the latest merge
\* request; whether its merge was announced; whether an AI DECOMPOSITION lists
\* created issues.
Comments ==
    [status   : LogicalStatus \cup {"none"},
     reason   : {"none", "clarification", "manual_hold", "failure_recovery"},
     decision : {"none", "implement", "ask", "human", "decompose"},
     asked    : BOOLEAN,
     command  : {"none", "resume", "cancel"},
     mr       : {"none", "old", "current"},
     noticed  : BOOLEAN,
     split    : BOOLEAN]

\* As in InternalWorker.
Branch == [dirty   : BOOLEAN,
           ahead   : {"no", "local", "pushed"},
           gated   : BOOLEAN,
           mr      : {"none", "opened", "merged", "closed"},
           pending : {"no", "yes", "again"}]

Stages ==
    {"idle", "picking", "opened", "analyzing", "resuming", "inspecting", "moving", "telling",
     "asking", "splitting", "creating", "noting", "coding", "looking", "prompting", "checking",
     "judging", "amending", "rechecking", "committing", "pushing", "opening", "linking",
     "fixing", "replying", "failing"}

\* A transition of the issue, the reason its status comment gives, and what
\* comes after both.
Goal == [to : LogicalStatus, reason : {"none", "clarification", "manual_hold", "failure_recovery"},
         next : Stages]

Nowhere == [to |-> "open", reason |-> "none", next |-> "idle"]

Run == [at : Stages, for : {"task", "review"}, issue : Issues \cup {NoIssue},
        heard : BOOLEAN,
        tries : 0..MaxFix, made : 0..Subtasks, found : BOOLEAN, goal : Goal]

Doing(stage) == [at |-> stage, for |-> "task", issue |-> NoIssue, heard |-> FALSE, tries |-> 0,
                 made |-> 0, found |-> FALSE, goal |-> Nowhere]

Go(stage) == run' = [run EXCEPT !.at = stage]

Head(s, reason, next) ==
    run' = [run EXCEPT !.at = "moving", !.goal = [to |-> s, reason |-> reason, next |-> next]]

Hold  == Head("waiting_for_answer", "manual_hold", "idle")
Ready == Head("review", "none", "idle")

-----------------------------------------------------------------------------
(* Choosing an issue *)

Resumable_NotWaiting(i) ==
    /\ says[i].status = "in_progress"
    /\ says[i].reason = "none"
Resumable(i) ==
    /\ says[i].status \in {"in_progress", "waiting_for_answer"}
    /\ says[i].reason \notin {"failure_recovery", "manual_hold"}

\* resumeOwnedTask: an issue whose latest status comment says this worker is at
\* it, or a review that this worker has published.
Owned(i) ==
    /\ state[i] \in {"in_progress", "waiting_for_answer", "review"}
    /\ Resumable(i) \/ (state[i] = "review" /\ says[i].mr # "none")

First(S) == CHOOSE i \in S : \A j \in S : Order[i] <= Order[j]

\* processIssue goes by the status the issue was listed with, and by the comments
\* read then: only what it has written itself is sure to stand still.
Entry == [open |-> "opened", in_progress |-> "analyzing",
          waiting_for_answer |-> "resuming", review |-> "inspecting"]

Take(i) ==
    run' = [Doing(Entry[state[i]]) EXCEPT
              !.issue = i,
              !.heard = /\ state[i] = "waiting_for_answer"
                        /\ says[i].asked /\ says[i].command = "resume"]

ResumeOwnedTask ==
    LET owned == {i \in Issues : Owned(i)} IN
    /\ run.at = "idle"
    /\ \/ owned # {} /\ Take(First(owned))
       \/ owned = {} /\ Go("picking")
    /\ UNCHANGED <<state, says, branch>>

PickNextTask ==
    LET open == {i \in Issues : state[i] = "open"} IN
    /\ run.at = "picking"
    /\ \/ open # {} /\ Take(First(open))
       \/ open = {} /\ run' = Doing("idle")
    /\ UNCHANGED <<state, says, branch>>

-----------------------------------------------------------------------------
(* Transitions and the comments that go with them *)

\* tracker.transition.
Turn ==
    /\ run.at = "moving"
    /\ state' = [state EXCEPT ![run.issue] = run.goal.to]
    /\ Go("telling")
    /\ UNCHANGED <<says, branch>>

\* Refused, it fails the issue; a failure that cannot be written becomes a wait
\* for a person, and if that is refused too the exception ends the cycle.
Refuse ==
    /\ "refused" \in Faults
    /\ \/ /\ run.at \in {"moving", "telling"}
          /\ run.goal.to = "failed"
          /\ Head("waiting_for_answer", "failure_recovery", "idle")
       \/ /\ run.at = "moving"
          /\ run.goal.reason = "failure_recovery"
          /\ run' = Doing("idle")
       \/ /\ run.at = "moving"
          /\ run.goal.to # "failed" /\ run.goal.reason # "failure_recovery"
          /\ Go("failing")
    /\ UNCHANGED <<state, says, branch>>

\* The AI STATUS comment after it.
Tell ==
    /\ run.at = "telling"
    /\ says' = [says EXCEPT ![run.issue].status = run.goal.to,
                           ![run.issue].reason = run.goal.reason]
    /\ run' = [run EXCEPT !.at = run.goal.next, !.goal = Nowhere]
    /\ UNCHANGED <<state, branch>>

-----------------------------------------------------------------------------
(* From an open issue to a decision *)

Start ==
    /\ run.at = "opened"
    /\ Head("in_progress", "none", "analyzing")
    /\ UNCHANGED <<state, says, branch>>

\* Only a /resume after the latest question takes a waiting issue up again.
ResolveResumeContext ==
    /\ run.at = "resuming"
    /\ \/ /\ run.heard
          /\ run' = [run EXCEPT !.at = "moving", !.heard = FALSE,
                !.goal = [to |-> "in_progress", reason |-> "none", next |-> "coding"]]
       \/ ~run.heard /\ run' = Doing("idle")
    /\ UNCHANGED <<state, says, branch>>

\* Where a decision leads (resolveTaskMode).
Follow(v) ==
    \/ v = "implement" /\ Go("coding")
    \/ v = "ask"       /\ Go("asking")
    \/ v = "human"     /\ Hold
    \/ v = "decompose" /\ Go("splitting")

\* runAnalysis uses a stored decision again, whatever has been answered since.
Analyze ==
    LET i == run.issue IN
    /\ run.at = "analyzing"
    /\ \/ says[i].decision # "none" /\ Follow(says[i].decision) /\ UNCHANGED says
       \/ /\ says[i].decision = "none"
          /\ \E v \in Verdicts : says' = [says EXCEPT ![i].decision = v] /\ Follow(v)
    /\ UNCHANGED <<state, branch>>

\* pauseForClarification: commands before this question no longer count.
Ask ==
    /\ run.at = "asking"
    /\ says' = [says EXCEPT ![run.issue].asked = TRUE, ![run.issue].command = "none"]
    /\ Head("waiting_for_answer", "clarification", "idle")
    /\ UNCHANGED <<state, branch>>

\* runDecomposition: nothing if issues are on record, a hold if the plan is
\* invalid or issues are not to be created, else one issue after the other and
\* the record at the end.
Split ==
    /\ run.at = "splitting"
    /\ Hold \/ (~says[run.issue].split /\ Go("creating"))
    /\ UNCHANGED <<state, says, branch>>

CreateIssue ==
    /\ run.at = "creating"
    /\ run' = [run EXCEPT !.made = @ + 1,
                         !.at = IF run.made + 1 = Subtasks THEN "noting" ELSE "creating"]
    /\ UNCHANGED <<state, says, branch>>

NoteChildren ==
    /\ run.at = "noting"
    /\ says' = [says EXCEPT ![run.issue].split = TRUE]
    /\ Hold
    /\ UNCHANGED <<state, branch>>

-----------------------------------------------------------------------------
(* Implementation, quality gates, self-review *)

DirtyElsewhere(i) == \E j \in Issues \ {i} : branch[j].dirty
Changed(i)   == branch[i].dirty \/ branch[i].ahead # "no"
Published(i) == branch[i].mr = "opened" /\ branch[i].ahead # "no" /\ ~branch[i].dirty

\* checkoutTaskBranch, and checkoutBranch of a review fix.
Checkout ==
    LET i == run.issue IN
    /\ run.at \in {"coding", "fixing"}
    /\ \/ DirtyElsewhere(i) /\ Go("failing") /\ UNCHANGED branch
       \/ /\ ~DirtyElsewhere(i)
          /\ \/ UNCHANGED branch
             \/ /\ run.at = "coding"
                /\ branch[i].mr = "merged" /\ branch[i].ahead = "pushed" /\ ~branch[i].dirty
                /\ branch' = [branch EXCEPT ![i].ahead = "no"]
          /\ Go(IF run.at = "coding" THEN "looking" ELSE "prompting")
    /\ UNCHANGED <<state, says>>

\* A published branch needs nothing but its comments; changes that are there
\* already need no Codex run.
Look ==
    LET i == run.issue IN
    /\ run.at = "looking"
    /\ run' = [run EXCEPT !.found = branch[i].mr = "opened",
                         !.at = IF Published(i) THEN "linking"
                                ELSE IF Changed(i) THEN "checking" ELSE "prompting"]
    /\ UNCHANGED <<state, says, branch>>

\* A Codex run (first, repair, or after a self-review) may end with a question.
Prompt ==
    /\ run.at \in {"prompting", "amending"}
    /\ \/ UNCHANGED branch
       \/ branch' = [branch EXCEPT ![run.issue].dirty = TRUE, ![run.issue].gated = FALSE]
    /\ \/ Go(IF run.at = "amending" THEN "rechecking" ELSE "checking")
       \/ "ask" \in Verdicts /\ Go("asking")
    /\ UNCHANGED <<state, says>>

TriesLeft_OffByOne == run.tries <= MaxFix
TriesLeft == run.tries < MaxFix

\* validateRepositoryState and the fix loop.  Once the gates pass, the attempts
\* of the self-review are counted from the start.
Check ==
    LET i == run.issue
        repairable == (Changed(i) \/ run.for = "review") /\ TriesLeft IN
    /\ run.at = "checking"
    /\ \/ /\ Changed(i)
          /\ branch' = [branch EXCEPT ![i].gated = TRUE]
          /\ run' = [run EXCEPT !.tries = 0,
                               !.at = IF run.for = "task" THEN "judging" ELSE "committing"]
       \/ /\ branch' = [branch EXCEPT ![i].gated = FALSE]
          /\ \/ repairable /\ run' = [run EXCEPT !.tries = @ + 1, !.at = "prompting"]
             \/ ~repairable /\ Go("failing")
    /\ UNCHANGED <<state, says>>

\* runSelfReviewGate: off or passed, to be amended, exhausted.
Judge ==
    /\ run.at = "judging"
    /\ \/ Go("committing")
       \/ TriesLeft /\ run' = [run EXCEPT !.tries = @ + 1, !.at = "amending"]
       \/ ~TriesLeft /\ Go("failing")
    /\ UNCHANGED <<state, says, branch>>

\* What was amended must pass the gates at once.
Recheck_Skipped ==
    /\ run.at = "rechecking"
    /\ Go("judging")
    /\ UNCHANGED <<state, says, branch>>
Recheck ==
    LET i == run.issue IN
    /\ run.at = "rechecking"
    /\ \/ /\ Changed(i)
          /\ branch' = [branch EXCEPT ![i].gated = TRUE]
          /\ Go("judging")
       \/ /\ branch' = [branch EXCEPT ![i].gated = FALSE]
          /\ Go("failing")
    /\ UNCHANGED <<state, says>>

-----------------------------------------------------------------------------
(* Publishing *)

\* A review fix without a new commit fails.
Commit ==
    LET i == run.issue IN
    /\ run.at = "committing"
    /\ \/ /\ branch[i].dirty
          /\ branch' = [branch EXCEPT ![i].dirty = FALSE, ![i].ahead = "local"]
          /\ Go("pushing")
       \/ /\ ~branch[i].dirty
          /\ Go(IF run.for = "task" THEN "pushing" ELSE "failing")
          /\ UNCHANGED branch
    /\ UNCHANGED <<state, says>>

Push ==
    /\ run.at = "pushing"
    /\ branch' = [branch EXCEPT ![run.issue].ahead = "pushed"]
    /\ Go(IF run.for = "task" THEN "opening" ELSE "replying")
    /\ UNCHANGED <<state, says>>

Open ==
    LET i == run.issue
        reused == run.found \/ branch[i].mr = "opened" IN
    /\ run.at = "opening"
    /\ \/ reused /\ UNCHANGED <<branch, says>>
       \/ /\ ~reused
          /\ branch' = [branch EXCEPT ![i].mr = "opened", ![i].pending = "no"]
          /\ says' = [says EXCEPT ![i].mr = IF @ = "none" THEN "none" ELSE "old",
                                 ![i].noticed = FALSE]
    /\ Go("linking")
    /\ UNCHANGED state

\* finalizeSuccess: the AI MR comment comes before the transition to review.
Link_Unsaid ==
    /\ run.at = "linking"
    /\ Ready
    /\ UNCHANGED <<state, says, branch>>
Link ==
    /\ run.at = "linking"
    /\ says' = [says EXCEPT ![run.issue].mr = "current"]
    /\ Ready
    /\ UNCHANGED <<state, branch>>

-----------------------------------------------------------------------------
(* Reviews (handleReviewFeedback) *)

\* Merged: announced once.
FinalizeMerged ==
    LET i == run.issue IN
    /\ run.at = "inspecting"
    /\ branch[i].mr = "merged"
    /\ \/ says[i].noticed /\ Go("picking") /\ UNCHANGED says
       \/ /\ ~says[i].noticed
          /\ says' = [says EXCEPT ![i].noticed = TRUE, ![i].status = "review", ![i].reason = "none"]
          /\ run' = Doing("idle")
    /\ UNCHANGED <<state, branch>>

PauseReview ==
    /\ run.at = "inspecting"
    /\ branch[run.issue].mr = "closed"
    /\ Hold
    /\ UNCHANGED <<state, says, branch>>

\* Nothing to fix: the cycle goes on to an open issue.
InspectOpened ==
    LET i == run.issue IN
    /\ run.at = "inspecting"
    /\ branch[i].mr = "opened"
    /\ \/ branch[i].pending = "no" /\ Go("picking")
       \/ /\ branch[i].pending # "no"
          /\ run' = [run EXCEPT !.at = "moving", !.for = "review", !.tries = 0,
                       !.goal = [to |-> "in_progress", reason |-> "none", next |-> "fixing"]]
    /\ UNCHANGED <<state, says, branch>>

\* The replies, and the AI REVIEW comment with the notes read at the start.
Reply ==
    /\ run.at = "replying"
    /\ branch' = [branch EXCEPT ![run.issue].pending = IF @ = "again" THEN "yes" ELSE "no"]
    /\ Ready
    /\ UNCHANGED <<state, says>>

-----------------------------------------------------------------------------
(* Errors *)

FinalizeFailure ==
    /\ run.at = "failing"
    /\ Head("failed", "none", "idle")
    /\ UNCHANGED <<state, says, branch>>

\* A temporary error, the death of the process, or an exception while a failure
\* is being written: everything is left as it stands.
Interrupt ==
    /\ "interrupt" \in Faults
    /\ run.at # "idle"
    /\ run' = Doing("idle")
    /\ UNCHANGED <<state, says, branch>>

PermanentError ==
    /\ "permanent" \in Faults
    /\ run.at \notin {"idle", "picking", "failing"}
    /\ ~(run.at \in {"moving", "telling"} /\
           (run.goal.to = "failed" \/ run.goal.reason = "failure_recovery"))
    /\ Go("failing")
    /\ UNCHANGED <<state, says, branch>>

-----------------------------------------------------------------------------
(* People *)

Command(i, c) ==
    /\ says[i].asked
    /\ says[i].command # c
    /\ says' = [says EXCEPT ![i].command = c]
    /\ UNCHANGED <<state, branch, run>>

MoveByHand(i, s) ==
    /\ state[i] # s
    /\ state' = [state EXCEPT ![i] = s]
    /\ UNCHANGED <<says, branch, run>>

Review(i, r) ==
    /\ branch[i].mr = "opened"
    /\ branch' = [branch EXCEPT
         ![i].mr      = CASE r = "merge" -> "merged" [] r = "close" -> "closed" [] OTHER -> @,
         ![i].pending = IF r # "comment" THEN @
                        ELSE IF @ # "no" /\ run.issue = i /\ run.for = "review"
                        THEN "again" ELSE "yes"]
    /\ UNCHANGED <<state, says, run>>

-----------------------------------------------------------------------------
Init ==
    /\ state = [i \in Issues |-> "open"]
    /\ says = [i \in Issues |-> [status |-> "none", reason |-> "none", decision |-> "none",
                                 asked |-> FALSE, command |-> "none", mr |-> "none",
                                 noticed |-> FALSE, split |-> FALSE]]
    /\ branch = [i \in Issues |-> [dirty |-> FALSE, ahead |-> "no", gated |-> FALSE,
                                   mr |-> "none", pending |-> "no"]]
    /\ run = Doing("idle")

Choose  == ResumeOwnedTask \/ PickNextTask
Process == Turn \/ Refuse \/ Tell \/ Start \/ ResolveResumeContext \/ Analyze \/ Ask
             \/ Split \/ CreateIssue \/ NoteChildren
             \/ Checkout \/ Look \/ Prompt \/ Check \/ Judge \/ Recheck
             \/ Commit \/ Push \/ Open \/ Link
             \/ FinalizeMerged \/ PauseReview \/ InspectOpened \/ Reply \/ FinalizeFailure

Next ==
    \/ Choose \/ Process \/ Interrupt \/ PermanentError
    \/ \E i \in Issues :
         \/ \E c \in Commands : Command(i, c)
         \/ \E s \in Moves : MoveByHand(i, s)
         \/ \E r \in Reviews : Review(i, r)

Spec == Init /\ [][Next]_vars

\* The process gets on with its cycle, and is not interrupted each time at the
\* same early step, nor is each attempt to take an issue up refused.  Nothing is
\* assumed of people and reviewers.
Fairness ==
    /\ WF_vars(Choose \/ Process)
    /\ SF_vars(ResumeOwnedTask)
    /\ SF_vars(ResolveResumeContext)
    /\ SF_vars(Turn /\ run.goal.to = "in_progress")

FairSpec == Spec /\ Fairness

-----------------------------------------------------------------------------
(* Properties *)

TypeOK ==
    /\ state \in [Issues -> LogicalStatus]
    /\ says \in [Issues -> Comments]
    /\ branch \in [Issues -> Branch]
    /\ run \in Run

\* An issue in review names its merge request in a comment of this worker,
\* wherever the cycle was interrupted and whatever was retried: it is by that
\* comment that later cycles find the review.
ReviewIsOnRecord == \A i \in Issues : state[i] = "review" => says[i].mr = "current"

\* Only content that has passed the quality gates as it stands is pushed, also
\* after self-review has had it amended or a cycle has found it lying there.
PushesAreGated    == Push => branch[run.issue].gated
OnlyGatedIsPushed == [][PushesAreGated]_vars

\* (README) the worker asks, waits, and goes on after the person's command:
\* also if it dies before the comment that says it waits, or its analysis, its
\* transitions and its failures are cut off or refused.
Answered(i) ==
    /\ state[i] = "waiting_for_answer"
    /\ says[i].command = "resume"
    /\ says[i].reason = "clarification" \/ says[i].status = "in_progress"
AnswerIsActedOn == \A i \in Issues : Answered(i) ~> ~Answered(i)
=============================================================================
