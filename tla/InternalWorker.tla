--------------------------- MODULE InternalWorker ---------------------------
(***************************************************************************)
(* Workers of internal tracker mode                                        *)
(* (src/domain/internalWorkerOrchestrator.ts) with the people and the      *)
(* GitLab reviewers they share tasks with.                                 *)
(*                                                                         *)
(* A cycle reconciles the tasks under review, then claims one task and     *)
(* takes it through analysis, implementation, quality gates and publishing *)
(* while a timer renews its two leases.  Every step between two awaits     *)
(* that other processes can notice is an action.  A claim is one step:     *)
(* what its transaction does inside is module TaskQueue.                   *)
(*                                                                         *)
(* A definition whose name has a suffix after an underscore is a seeded    *)
(* fault of the definition below it; no specification uses it.             *)
(***************************************************************************)
EXTENDS Naturals, TaskStatus

CONSTANTS
    Workers, Tasks, NoTask, RepoOf, Rank, Ttl,   \* as in TaskQueue
    MaxFix,      \* maxFixAttempts and maxReviewFixAttempts
    Verdicts,    \* what an analysis may decide
    Commands,    \* statuses people set through the task API
    Answers,     \* the commands in people's answers: "resume", "cancel"
    Reviews,     \* what reviewers do: "comment", "merge", "close"
    Faults       \* what may go wrong: "temporary", "permanent", "crash", "lapse"

\* What can decide, answer and command are the sets the handlers know of.
ASSUME WorkerAssumption ==
    /\ NoTask \notin Tasks
    /\ Ttl \in Nat \ {0}
    /\ MaxFix \in Nat
    /\ Verdicts \subseteq {"implement", "ask", "human", "decompose"}
    /\ Commands \subseteq {"ready", "blocked", "cancelled"}
    /\ Answers \subseteq {"resume", "cancel"}

VARIABLES
    status,     \* tasks.status
    leases,     \* unreleased rows of task_leases
    notes,      \* what the tracker stores about a task
    branch,     \* the task's branch in the working copy, and its merge request
    answering,  \* how far the call that records a person's answer has got
    run         \* what each worker process is doing

vars == <<status, leases, notes, branch, answering, run>>

\* No dependencies, one clock, and no claim transaction open between steps.
Q == INSTANCE TaskQueue WITH
        Serves    <- [w \in Workers |-> Tasks],
        Skew      <- [w \in Workers |-> 0],
        Requested <- {},
        blocked   <- {},
        txn       <- [w \in Workers |-> [phase |-> "idle", for |-> "claim", task |-> NoTask,
                                         snapshot |-> {}, lapsed |-> {}]]

\* The latest analysis decision; the latest question and its answer; whether
\* the latest merge request is on record.
Notes == [decision : {"none", "implement", "ask", "human", "decompose"},
          dialog   : {"none", "asked", "resume", "cancel"},
          recorded : BOOLEAN]

\* Uncommitted changes; commits beyond the base branch; whether the content has
\* passed the gates as it stands; the merge request and its unresolved notes
\* ("again": more came in while a worker fixes the first).
Branch == [dirty   : BOOLEAN,
           ahead   : {"no", "local", "pushed"},
           gated   : BOOLEAN,
           mr      : {"none", "opened", "merged", "closed"},
           pending : {"no", "yes", "again"}]

Stages ==
    {"down", "idle", "listing", "reconciling", "inspecting", "leaving",
     "picked", "analyzing", "asking", "waiting", "holding", "splitting", "planning",
     "starting", "coding", "looking", "prompting", "coded", "checking", "refixing", "repairing",
     "committing", "pushing", "opening", "recording", "finishing", "mirroring",
     "fixing", "replying", "reviewing", "retrying", "failing"}

\* A claim is in force, and its heartbeat timer runs.
Holding(w)  == run[w].at \notin {"down", "idle", "listing", "reconciling", "inspecting"}
\* withLeaseHeartbeat has not reached its `finally'.
Working(w)  == Holding(w) /\ run[w].at # "leaving"

Run == [at : Stages, for : {"claim", "review"}, task : Tasks \cup {NoTask},
        tries : 0..MaxFix, found : BOOLEAN, handled : BOOLEAN,
        todo : SUBSET [task : Tasks, stale : BOOLEAN]]

Doing(stage) == [at |-> stage, for |-> "claim", task |-> NoTask, tries |-> 0,
                 found |-> FALSE, handled |-> FALSE, todo |-> {}]

Go(w, stage) == run' = [run EXCEPT ![w].at = stage]

\* setStatus by the worker: an invalid transition throws, and the task fails.
Move(w, s, stage) ==
    LET t == run[w].task IN
    \/ /\ CanTransition(status[t], s)
       /\ status' = [status EXCEPT ![t] = s]
       /\ Go(w, stage)
    \/ /\ ~CanTransition(status[t], s)
       /\ Go(w, "failing")
       /\ UNCHANGED status

\* checkoutBranch refuses to leave another branch with uncommitted changes.
DirtyElsewhere_Unchecked(t) == FALSE
DirtyElsewhere(t) == \E u \in Tasks \ {t} : RepoOf[u] = RepoOf[t] /\ branch[u].dirty

\* syncExternalMirror at the end of a handler: a temporary error there leaves
\* the task uncounted, another one ends the cycle.
Unwound(w, stage) ==
    {[run[w] EXCEPT !.at = stage, !.handled = TRUE]}
      \cup {r \in {[run[w] EXCEPT !.at = stage]} : "temporary" \in Faults}
      \cup {r \in {[run[w] EXCEPT !.at = stage, !.handled = TRUE, !.todo = {}]} :
               "permanent" \in Faults}

tracker == <<status, leases, notes>>
outside == <<branch, answering>>

-----------------------------------------------------------------------------
(* Reconciling reviews *)

\* The tasks under review are listed first, the leases after that.
UnderReview ==
    {[task |-> t, stale |-> status[t] = "fixing_review"] :
        t \in {u \in Tasks : status[u] \in {"review", "fixing_review"}}}

Poll(w) ==
    /\ run[w].at = "idle"
    /\ run' = [run EXCEPT ![w] = [Doing("listing") EXCEPT !.todo = UnderReview]]
    /\ UNCHANGED <<tracker, outside>>

\* A fix whose task lease is live is left alone.
InHand(t) == \E l \in leases : l.kind = "task" /\ l.task = t /\ l.left > 0

ListLeases(w) ==
    /\ run[w].at = "listing"
    /\ run' = [run EXCEPT ![w].at = "reconciling",
                          ![w].todo = {c \in @ : c.stale => ~InHand(c.task)}]
    /\ UNCHANGED <<tracker, outside>>

\* A fix that was stale when the leases were read goes back to review; an
\* invalid transition ends the cycle.
Recover(w) ==
    /\ run[w].at = "reconciling"
    /\ \E c \in run[w].todo :
         LET next == [run[w] EXCEPT !.at = "inspecting", !.task = c.task, !.todo = @ \ {c}] IN
         \/ /\ ~c.stale
            /\ run' = [run EXCEPT ![w] = next]
            /\ UNCHANGED status
         \/ /\ c.stale
            /\ CanTransition(status[c.task], "review")
            /\ status' = [status EXCEPT ![c.task] = "review"]
            /\ run' = [run EXCEPT ![w] = next]
         \/ /\ c.stale
            /\ ~CanTransition(status[c.task], "review")
            /\ run' = [run EXCEPT ![w] = Doing("idle")]
            /\ UNCHANGED status
    /\ UNCHANGED <<leases, notes, outside>>

\* Merged: human testing.  Closed: back to a person.
Settle(w) ==
    LET t == run[w].task
        s == IF branch[t].mr = "merged" THEN "human_testing" ELSE "awaiting_human" IN
    /\ run[w].at = "inspecting"
    /\ notes[t].recorded
    /\ branch[t].mr \in {"merged", "closed"}
    /\ \/ /\ CanTransition(status[t], s)
          /\ status' = [status EXCEPT ![t] = s]
          /\ \E next \in Unwound(w, "reconciling") : run' = [run EXCEPT ![w] = next]
       \/ /\ ~CanTransition(status[t], s)
          /\ run' = [run EXCEPT ![w] = Doing("idle")]
          /\ UNCHANGED status
    /\ UNCHANGED <<leases, notes, outside>>

\* Opened, with unresolved notes: claimReviewTask is called.
HasFeedback(t) ==
    /\ notes[t].recorded
    /\ branch[t].mr = "opened"
    /\ branch[t].pending # "no"

Live == {l \in leases : l.left > 0}

ClaimReview_StatusOnly(w) ==
    LET t == run[w].task IN
    /\ run[w].at = "inspecting"
    /\ HasFeedback(t)
    /\ status[t] = "review"
    /\ status' = [status EXCEPT ![t] = "fixing_review"]
    /\ leases' = Live \cup Q!LeasePair(w, t)
    /\ run' = [run EXCEPT ![w].at = "fixing", ![w].for = "review", ![w].tries = 0]
    /\ UNCHANGED <<notes, outside>>
ClaimReview(w) ==
    LET t == run[w].task IN
    /\ run[w].at = "inspecting"
    /\ HasFeedback(t)
    /\ Q!Candidate(w, t, "review", Q!LapsedFor(w))
    /\ status' = [status EXCEPT ![t] = "fixing_review"]
    /\ leases' = Live \cup Q!LeasePair(w, t)
    /\ run' = [run EXCEPT ![w].at = "fixing", ![w].for = "review", ![w].tries = 0]
    /\ UNCHANGED <<notes, outside>>

\* Nothing recorded, nothing pending, or the claim is refused.
Skip(w) ==
    LET t == run[w].task IN
    /\ run[w].at = "inspecting"
    /\ ~ (notes[t].recorded /\ branch[t].mr \in {"merged", "closed"})
    /\ \/ ~HasFeedback(t) /\ UNCHANGED leases
       \/ /\ HasFeedback(t)
          /\ ~Q!Candidate(w, t, "review", Q!LapsedFor(w))
          /\ leases' = Live
    /\ Go(w, "reconciling")
    /\ UNCHANGED <<status, notes, outside>>

-----------------------------------------------------------------------------
(* Claiming and releasing *)

\* claimNextTask, only after a reconciliation that found nothing to do.
Best(w) ==
    {t \in Tasks : /\ Q!Candidate(w, t, "claim", Q!LapsedFor(w))
                   /\ \A u \in Tasks : Q!Candidate(w, u, "claim", Q!LapsedFor(w))
                                         => Rank[u] <= Rank[t]}

ClaimTask(w) ==
    /\ run[w].at = "reconciling"
    /\ run[w].todo = {}
    /\ ~run[w].handled
    /\ \E t \in Best(w) :
         /\ status' = [status EXCEPT ![t] = "claimed"]
         /\ leases' = Live \cup Q!LeasePair(w, t)
         /\ run' = [run EXCEPT ![w] = [Doing("picked") EXCEPT !.task = t]]
    /\ UNCHANGED <<notes, outside>>

EndCycle(w) ==
    /\ run[w].at = "reconciling"
    /\ run[w].todo = {}
    /\ \/ run[w].handled /\ UNCHANGED leases
       \/ ~run[w].handled /\ Best(w) = {} /\ leases' = Live
    /\ run' = [run EXCEPT ![w] = Doing("idle")]
    /\ UNCHANGED <<status, notes, outside>>

\* The timer: the task lease first, and the repository lease only if that
\* succeeded.
Renewed(w, l) ==
    /\ l.worker = w
    /\ l.task = run[w].task
    /\ l.left > 0
    /\ l.kind = "repository" =>
         \E m \in leases : m.kind = "task" /\ m.worker = w /\ m.task = l.task /\ m.left > 0

Heartbeat(w) ==
    /\ Working(w)
    /\ \E l \in leases : Renewed(w, l)
    /\ leases' = {IF Renewed(w, l) THEN [l EXCEPT !.left = Ttl] ELSE l : l \in leases}
    /\ UNCHANGED <<status, notes, outside, run>>

\* A release that fails is ignored.
Leave(w) ==
    /\ run[w].at = "leaving"
    /\ \/ leases' = {l \in leases : l.worker # w \/ l.task # run[w].task}
       \/ "temporary" \in Faults /\ UNCHANGED leases
    /\ \/ run[w].for = "claim" /\ run' = [run EXCEPT ![w] = Doing("idle")]
       \/ run[w].for = "review" /\ Go(w, "reconciling")
    /\ UNCHANGED <<status, notes, outside>>

-----------------------------------------------------------------------------
(* A claimed task: analysis *)

StartAnalysis(w) ==
    /\ run[w].at = "picked"
    /\ Move(w, "analyzing", "analyzing")
    /\ UNCHANGED <<leases, notes, outside>>

Route == [implement |-> "starting", ask |-> "asking",
          human |-> "holding", decompose |-> "splitting"]

\* An answer that resumes skips the analysis; a stored decision other than
\* `ask' is used again; otherwise Codex decides.
Analyze(w) ==
    LET t == run[w].task IN
    /\ run[w].at = "analyzing"
    /\ \/ /\ notes[t].dialog = "resume"
          /\ Go(w, "starting")
          /\ UNCHANGED notes
       \/ /\ notes[t].dialog # "resume"
          /\ notes[t].decision \notin {"none", "ask"}
          /\ Go(w, Route[notes[t].decision])
          /\ UNCHANGED notes
       \/ /\ notes[t].dialog # "resume"
          /\ notes[t].decision \in {"none", "ask"}
          /\ \E v \in Verdicts :
               /\ notes' = [notes EXCEPT ![t].decision = v]
               /\ Go(w, Route[v])
    /\ UNCHANGED <<status, leases, outside>>

\* pauseForClarification stores the question, then moves the task; so does
\* pauseForManualHold, which asks nothing.
Ask(w) ==
    /\ run[w].at = "asking"
    /\ notes' = [notes EXCEPT ![run[w].task].dialog = "asked"]
    /\ Go(w, "waiting")
    /\ UNCHANGED <<status, leases, outside>>

Pause(w) ==
    /\ run[w].at \in {"waiting", "holding"}
    /\ Move(w, "awaiting_human", "mirroring")
    /\ UNCHANGED <<leases, notes, outside>>

Split(w) ==
    /\ run[w].at = "splitting"
    /\ Move(w, "decomposing", "planning")
    /\ UNCHANGED <<leases, notes, outside>>

\* Only a person or an external source may write the fields of a new task
\* (canOwnerUpdateFieldGroup).
MayCreateTask(owner) == owner \in {"human", "external_source"}

\* No valid plan: manual hold.  With one, createChildTasks creates the subtasks
\* in the name of the worker agent.
Plan(w) ==
    /\ run[w].at = "planning"
    /\ \/ Go(w, "holding")
       \/ Go(w, IF MayCreateTask("worker_agent") THEN "holding" ELSE "failing")
    /\ UNCHANGED <<tracker, outside>>

-----------------------------------------------------------------------------
(* Implementation and quality gates *)

StartCoding(w) ==
    /\ run[w].at = "starting"
    /\ Move(w, "implementing", "coding")
    /\ UNCHANGED <<leases, notes, outside>>

Changed(t)   == branch[t].dirty \/ branch[t].ahead # "no"
Published(t) == branch[t].mr = "opened" /\ branch[t].ahead # "no" /\ ~branch[t].dirty

\* A published branch is taken as it is; other changes need no new Codex run.
ReusePoint_SkipsGates(t) ==
    IF Published(t) THEN "recording" ELSE IF Changed(t) THEN "committing" ELSE "prompting"
ReusePoint_Unrecorded(t) ==
    IF Published(t) THEN "finishing" ELSE IF Changed(t) THEN "coded" ELSE "prompting"
ReusePoint(t) ==
    IF Published(t) THEN "recording" ELSE IF Changed(t) THEN "coded" ELSE "prompting"

\* The base branch is pulled before a clean branch is checked out: commits that
\* came back with a merge commit are no longer ahead, squashed ones are.
Checkout(w) ==
    LET t == run[w].task IN
    /\ run[w].at = "coding"
    /\ \/ /\ DirtyElsewhere(t)
          /\ Go(w, "failing")
          /\ UNCHANGED branch
       \/ /\ ~DirtyElsewhere(t)
          /\ \/ UNCHANGED branch
             \/ /\ branch[t].mr = "merged" /\ branch[t].ahead = "pushed" /\ ~branch[t].dirty
                /\ branch' = [branch EXCEPT ![t].ahead = "no"]
          /\ Go(w, "looking")
    /\ UNCHANGED <<tracker, answering>>

\* Use what is there.  The open merge request found now is the one published
\* to in the end.
Reuse(w) ==
    LET t == run[w].task IN
    /\ run[w].at = "looking"
    /\ \/ Published(t) /\ Move(w, "validating", ReusePoint(t))
       \/ /\ ~Published(t)
          /\ run' = [run EXCEPT ![w].at = ReusePoint(t), ![w].found = branch[t].mr = "opened"]
          /\ UNCHANGED status
    /\ UNCHANGED <<leases, notes, outside>>

\* A Codex run may change files, and may end with a question.
Prompt(w) ==
    LET t == run[w].task IN
    /\ run[w].at \in {"prompting", "repairing"}
    /\ \/ UNCHANGED branch
       \/ branch' = [branch EXCEPT ![t].dirty = TRUE, ![t].gated = FALSE]
    /\ \/ Go(w, "coded")
       \/ "ask" \in Verdicts /\ Go(w, "asking")
    /\ UNCHANGED <<tracker, answering>>

StartChecking(w) ==
    /\ run[w].at = "coded"
    /\ Move(w, "validating", "checking")
    /\ UNCHANGED <<leases, notes, outside>>

TriesLeft_OffByOne(w) == run[w].tries <= MaxFix
TriesLeft(w) == run[w].tries < MaxFix
NextTry_NotCounted(w) == run[w].tries
NextTry(w) == run[w].tries + 1

\* validateRepositoryState and the head of the fix loop.  A first run that has
\* changed nothing is not repaired.
Check(w) ==
    LET t == run[w].task
        idle == ~Changed(t) /\ run[w].for = "claim" IN
    /\ run[w].at = "checking"
    /\ \/ /\ Changed(t)
          /\ branch' = [branch EXCEPT ![t].gated = TRUE]
          /\ Go(w, "committing")
       \/ /\ ~idle
          /\ TriesLeft(w)
          /\ branch' = [branch EXCEPT ![t].gated = FALSE]
          /\ run' = [run EXCEPT ![w].at = "refixing", ![w].tries = NextTry(w)]
       \/ /\ idle \/ ~TriesLeft(w)
          /\ branch' = [branch EXCEPT ![t].gated = FALSE]
          /\ Go(w, "failing")
    /\ UNCHANGED <<tracker, answering>>

StartRepair(w) ==
    /\ run[w].at = "refixing"
    /\ Move(w, IF run[w].for = "claim" THEN "implementing" ELSE "fixing_review", "repairing")
    /\ UNCHANGED <<leases, notes, outside>>

-----------------------------------------------------------------------------
(* Publishing *)

\* A review fix that adds no commit fails the task.
Commit(w) ==
    LET t == run[w].task IN
    /\ run[w].at = "committing"
    /\ \/ /\ branch[t].dirty
          /\ branch' = [branch EXCEPT ![t].dirty = FALSE, ![t].ahead = "local"]
          /\ Go(w, "pushing")
       \/ /\ ~branch[t].dirty
          /\ Go(w, IF run[w].for = "claim" THEN "pushing" ELSE "failing")
          /\ UNCHANGED branch
    /\ UNCHANGED <<tracker, answering>>

Push(w) ==
    /\ run[w].at = "pushing"
    /\ branch' = [branch EXCEPT ![run[w].task].ahead = "pushed"]
    /\ Go(w, IF run[w].for = "claim" THEN "opening" ELSE "replying")
    /\ UNCHANGED <<tracker, answering>>

\* The merge request found before the work, else an open one, else a new one.
Open(w) ==
    LET t == run[w].task
        reused == run[w].found \/ branch[t].mr = "opened" IN
    /\ run[w].at = "opening"
    /\ \/ reused /\ UNCHANGED <<branch, notes>>
       \/ /\ ~reused
          /\ branch' = [branch EXCEPT ![t].mr = "opened", ![t].pending = "no",
                                     ![t].ahead = "pushed"]
          /\ notes' = [notes EXCEPT ![t].recorded = FALSE]
    /\ run' = [run EXCEPT ![w].at = "recording", ![w].found = FALSE]
    /\ UNCHANGED <<status, leases, answering>>

Record(w) ==
    /\ run[w].at = "recording"
    /\ notes' = [notes EXCEPT ![run[w].task].recorded = TRUE]
    /\ Go(w, "finishing")
    /\ UNCHANGED <<status, leases, outside>>

Finish(w) ==
    /\ run[w].at = "finishing"
    /\ Move(w, "review", "mirroring")
    /\ UNCHANGED <<leases, notes, outside>>

\* syncExternalMirror after the task has come to rest.
Mirror(w) ==
    /\ run[w].at = "mirroring"
    /\ Go(w, "leaving")
    /\ UNCHANGED <<tracker, outside>>

-----------------------------------------------------------------------------
(* A claimed review *)

\* The notes are read again after the claim.
StartFix(w) ==
    LET t == run[w].task IN
    /\ run[w].at = "fixing"
    /\ \/ branch[t].pending = "no" /\ Go(w, "reviewing")
       \/ /\ branch[t].pending # "no"
          /\ run' = [run EXCEPT ![w].handled = TRUE,
                               ![w].at = IF DirtyElsewhere(t) THEN "retrying" ELSE "prompting"]
    /\ UNCHANGED <<tracker, outside>>

\* Reply to the discussions read at the start and record them as processed.
Reply(w) ==
    LET t == run[w].task IN
    /\ run[w].at = "replying"
    /\ branch' = [branch EXCEPT ![t].pending = IF @ = "again" THEN "yes" ELSE "no"]
    /\ Go(w, "reviewing")
    /\ UNCHANGED <<tracker, answering>>

BackToReview(w) ==
    /\ run[w].at = "reviewing"
    /\ Move(w, "review", "mirroring")
    /\ UNCHANGED <<leases, notes, outside>>

\* A temporary error of a fix: back to review for another try.  If that
\* transition is invalid the exception ends the cycle once the leases are
\* released.
Retry(w) ==
    LET t == run[w].task IN
    /\ run[w].at = "retrying"
    /\ \/ /\ CanTransition(status[t], "review")
          /\ status' = [status EXCEPT ![t] = "review"]
          /\ \E next \in Unwound(w, "leaving") : run' = [run EXCEPT ![w] = next]
       \/ /\ ~CanTransition(status[t], "review")
          /\ run' = [run EXCEPT ![w].at = "leaving", ![w].handled = TRUE, ![w].todo = {}]
          /\ UNCHANGED status
    /\ UNCHANGED <<leases, notes, outside>>

-----------------------------------------------------------------------------
(* Errors and crashes *)

\* finalizeFailure swallows an invalid transition.
Fail(w) ==
    LET t == run[w].task IN
    /\ run[w].at = "failing"
    /\ status' = [status EXCEPT ![t] = IF CanTransition(@, "failed") THEN "failed" ELSE @]
    /\ \E next \in Unwound(w, "leaving") : run' = [run EXCEPT ![w] = next]
    /\ UNCHANGED <<leases, notes, outside>>

\* Stages that call git, GitLab, Codex or the external tracker.
Fallible ==
    {"picked", "analyzing", "planning", "coding", "looking", "prompting", "checking", "repairing",
     "committing", "pushing", "opening", "fixing", "replying", "mirroring"}

\* A review is passed over; a claimed task is left as it stands and its leases
\* are released; a review fix goes back to review.
TemporaryError(w) ==
    /\ "temporary" \in Faults
    /\ \/ run[w].at = "inspecting" /\ Go(w, "reconciling")
       \/ /\ run[w].at \in Fallible
          /\ Go(w, IF run[w].for = "claim" THEN "leaving" ELSE "retrying")
    /\ UNCHANGED <<tracker, outside>>

PermanentError(w) ==
    /\ "permanent" \in Faults
    /\ \/ run[w].at = "inspecting" /\ run' = [run EXCEPT ![w] = Doing("idle")]
       \/ /\ Working(w)
          /\ run[w].at \notin {"failing", "retrying"}
          /\ Go(w, "failing")
    /\ UNCHANGED <<tracker, outside>>

Crash(w) ==
    /\ "crash" \in Faults
    /\ run[w].at # "down"
    /\ run' = [run EXCEPT ![w] = Doing("down")]
    /\ UNCHANGED <<tracker, outside>>

Restart(w) ==
    /\ run[w].at = "down"
    /\ run' = [run EXCEPT ![w] = Doing("idle")]
    /\ UNCHANGED <<tracker, outside>>

\* Unless leases may lapse under a working holder, heartbeats are in time.
Tick ==
    /\ \E l \in leases : l.left > 0
    /\ "lapse" \in Faults \/
         \A l \in leases : l.left = 1 => ~(Holding(l.worker) /\ run[l.worker].task = l.task)
    /\ Q!Tick
    /\ UNCHANGED <<notes, outside, run>>

-----------------------------------------------------------------------------
(* People *)

\* recordHumanAnswer, whatever command the answer holds: the answer is stored,
\* the status is read, and a task read as waiting is made ready.
Answer(t, a) ==
    /\ answering[t] = "no"
    /\ answering' = [answering EXCEPT ![t] = "stored"]
    /\ notes' = [notes EXCEPT ![t].dialog = IF @ = "none" THEN @ ELSE a]
    /\ UNCHANGED <<status, leases, branch, run>>

AnswerReads(t) ==
    /\ answering[t] = "stored"
    /\ answering' = [answering EXCEPT ![t] =
                       IF status[t] \in {"awaiting_human", "blocked", "failed"}
                       THEN "waking" ELSE "no"]
    /\ UNCHANGED <<tracker, branch, run>>

AnswerWakes(t) ==
    /\ answering[t] = "waking"
    /\ answering' = [answering EXCEPT ![t] = "no"]
    /\ status' = [status EXCEPT ![t] = IF CanTransition(@, "ready") THEN "ready" ELSE @]
    /\ UNCHANGED <<leases, notes, branch, run>>

\* The resume, retry, hold and cancel commands.  (force-reanalysis adds a
\* decision of a kind no analysis looks for.)
Command(t, s) ==
    /\ Q!SetStatus(t, s)
    /\ UNCHANGED <<notes, outside, run>>

Review(t, r) ==
    /\ branch[t].mr = "opened"
    /\ branch' = [branch EXCEPT
         ![t].mr      = CASE r = "merge" -> "merged" [] r = "close" -> "closed" [] OTHER -> @,
         ![t].pending = IF r # "comment" THEN @
                        ELSE IF @ # "no" /\ \E w \in Workers :
                                  Holding(w) /\ run[w].task = t /\ run[w].for = "review"
                        THEN "again" ELSE "yes"]
    /\ UNCHANGED <<tracker, answering, run>>

-----------------------------------------------------------------------------
Init ==
    /\ status = [t \in Tasks |-> "ready"]
    /\ leases = {}
    /\ notes = [t \in Tasks |-> [decision |-> "none", dialog |-> "none",
                                 recorded |-> FALSE]]
    /\ branch = [t \in Tasks |-> [dirty |-> FALSE, ahead |-> "no", gated |-> FALSE,
                                  mr |-> "none", pending |-> "no"]]
    /\ answering = [t \in Tasks |-> "no"]
    /\ run = [w \in Workers |-> Doing("idle")]

Cycle(w) == Poll(w) \/ ListLeases(w) \/ Recover(w) \/ Settle(w) \/ ClaimReview(w) \/ Skip(w)
              \/ ClaimTask(w) \/ EndCycle(w) \/ Leave(w)
Process(w) == StartAnalysis(w) \/ Analyze(w) \/ Ask(w) \/ Pause(w) \/ Split(w) \/ Plan(w)
                \/ StartCoding(w) \/ Checkout(w) \/ Reuse(w) \/ Prompt(w) \/ StartChecking(w) \/ Check(w)
                \/ StartRepair(w) \/ Commit(w) \/ Push(w) \/ Open(w) \/ Record(w)
                \/ Finish(w) \/ Mirror(w) \/ StartFix(w) \/ Reply(w) \/ BackToReview(w)
                \/ Retry(w) \/ Fail(w)
Fault(w) == TemporaryError(w) \/ PermanentError(w) \/ Crash(w)

People(t) ==
    \/ \E a \in Answers : Answer(t, a)
    \/ AnswerReads(t)
    \/ AnswerWakes(t)
    \/ \E s \in Commands : Command(t, s)
    \/ \E r \in Reviews : Review(t, r)

Next ==
    \/ \E w \in Workers : Cycle(w) \/ Process(w) \/ Fault(w) \/ Restart(w) \/ Heartbeat(w)
    \/ \E t \in Tasks : People(t)
    \/ Tick

Spec == Init /\ [][Next]_vars

\* A process that runs gets on with its cycle, one that is down is restarted
\* and does not crash every time it is about to poll, list, claim or start,
\* time passes, and a stored answer is acted on.
Fairness ==
    /\ \A w \in Workers :
         /\ WF_vars(Cycle(w) \/ Process(w))
         /\ WF_vars(Restart(w))
         /\ SF_vars(Poll(w))
         /\ SF_vars(ListLeases(w))
         /\ SF_vars(ClaimTask(w))
         /\ SF_vars(StartAnalysis(w))
    /\ \A t \in Tasks : WF_vars(AnswerReads(t) \/ AnswerWakes(t))
    /\ WF_vars(Tick)

FairSpec == Spec /\ Fairness

-----------------------------------------------------------------------------
(* Properties *)

TypeOK ==
    /\ status \in [Tasks -> Status]
    /\ leases \subseteq Q!Lease
    /\ notes \in [Tasks -> Notes]
    /\ branch \in [Tasks -> Branch]
    /\ answering \in [Tasks -> {"no", "stored", "waking"}]
    /\ run \in [Workers -> Run]

\* Workers never share a working copy: claiming, crashing, recovering stale
\* reviews and releasing leave at most one of them at work in a repository.
\* It rests on leases that do not lapse under a working holder.
WorkersApart ==
    \A v, w \in Workers :
        v # w /\ Working(v) /\ Working(w) => RepoOf[run[v].task] # RepoOf[run[w].task]

\* What is left uncommitted in a working copy belongs to one task: a checkout
\* never carries the changes of a task that failed or crashed into another.
OneTaskDirty ==
    \A t, u \in Tasks : branch[t].dirty /\ branch[u].dirty /\ RepoOf[t] = RepoOf[u] => t = u

\* A task shown as under review, or handed to human testing, has its merge
\* request on record, whatever crashed or was retried on the way: without the
\* record no reconciliation would ever look at it again.  So it is with one
\* worker.  Where others may recover a fix as well, RecoveryIsRightful is what
\* it would take, and does not hold.
ReviewIsOnRecord ==
    \A t \in Tasks : status[t] \in {"review", "human_testing"} => notes[t].recorded

\* (The plan of the review feedback) a review fix is recovered only after its
\* task lease is no longer active.
RecoversOnlyIdle(w) ==
    Recover(w) => \A t \in Tasks : status'[t] # status[t] => ~InHand(t)
RecoveryIsRightful == [][\A w \in Workers : RecoversOnlyIdle(w)]_vars

\* Only content that has passed the quality gates as it stands is pushed.
PushesAreGated    == \A w \in Workers : Push(w) => branch[run[w].task].gated
OnlyGatedIsPushed == [][PushesAreGated]_vars

\* (The concept's criterion) a person can answer a question: the answer resumes
\* the task that waits for it.
AnswerIsActedOn ==
    \A t \in Tasks : status[t] = "awaiting_human" /\ notes[t].dialog = "resume"
                       ~> ~(status[t] = "awaiting_human" /\ notes[t].dialog = "resume")

\* A claim is never lost for good: a claimed task leaves that status even if
\* workers crash, because its leases lapse and it can be claimed again.
ClaimIsFollowedUp == \A t \in Tasks : status[t] = "claimed" ~> status[t] # "claimed"

\* Work ends: a task does not stay in the hands of the worker for ever.
InProgress(t) == LogicalStatus(status[t]) = "in_progress"
WorkEnds == \A t \in Tasks : InProgress(t) ~> ~InProgress(t)
=============================================================================
