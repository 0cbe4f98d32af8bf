--------------------------- MODULE ProjectManager ---------------------------
(***************************************************************************)
(* The project manager (src/domain/projectManager/orchestrator.ts,         *)
(* src/integrations/internalTracker/postgresProjectManagerStore.ts and the *)
(* goal commands of src/observability/taskTrackerHumanApi.ts): runs that   *)
(* read the project, ask Codex for goals, record them and, when they       *)
(* replan, complete goals whose work is done; and the people who decide    *)
(* about goals and have tasks proposed for them.                           *)
(*                                                                         *)
(* A goal is its number, a title with its evidence is a signature, and the *)
(* task proposed for draft d of goal g is the pair <<g, d>>: the key of    *)
(* the proposal is made of both.  What the analyses say is left out, and   *)
(* so is the order of the classifications in an answer of Codex.           *)
(*                                                                         *)
(* A definition whose name has a suffix after an underscore is a seeded    *)
(* fault of the definition below it; no specification uses it.             *)
(***************************************************************************)
EXTENDS Naturals, Sequences

CONSTANTS
    Runs,
    Operators,    \* people who have tasks proposed
    Sigs,         \* signatures of goals
    Drafts,       \* numbers of the task drafts of a goal
    Answers,      \* sequences of signatures Codex may propose
    MaxGoals,     \* bound: goals in all
    MaxFaults     \* bound: errors and crashes in all

VARIABLES
    goals,        \* the table project_goals
    proposed,     \* tasks proposed for goals
    linked,       \* the table project_goal_tasks
    done,         \* tasks in status done
    runs,         \* the table project_manager_runs and what each run has in hand
    asking,       \* goal an operator has tasks proposed for, drafts to go
    faults

vars == <<goals, proposed, linked, done, runs, asking, faults>>

Open == {"proposed", "approved", "active"}
Ids  == 1..Len(goals)
Work(g) == {k \in linked : k[1] = g}

NoRun == [status |-> "none", at |-> "none",
          seen   |-> [g \in {} |-> "approved"],     \* the goals listed, with their status
          unread |-> {},                            \* goals whose links are still to be read
          links  |-> {}, finished |-> {},           \* their links, and those found done
          new    |-> <<>>,                          \* goals Codex proposes
          judged |-> {},                            \* goals Codex calls completed
          made   |-> {}, record |-> {}]             \* goals created, and proposed_goal_ids

\* What is left of a run that is over: its row, and the links it had read.
Over(r, at, status) ==
    runs' = [runs EXCEPT ![r] = [NoRun EXCEPT !.at = at, !.status = status, !.links = runs[r].links]]
Set(g, from, to, who) ==
    /\ goals[g].status \in from
    /\ goals' = [goals EXCEPT ![g].status = to, ![g].by = who]

-----------------------------------------------------------------------------
(* A run *)

\* startRun, of runAnalysisOnce, runStrategyOnce and runReplanOnce.
StartRun(r) ==
    /\ runs[r].status = "none"
    /\ \E at \in {"list", "think"} :            \* a replan, or one of the others
         runs' = [runs EXCEPT ![r].status = "started", ![r].at = at]
    /\ UNCHANGED <<goals, proposed, linked, done, asking, faults>>

\* collectProjectReplanSnapshot: the goals that are approved or active,
ListGoals(r) ==
    /\ runs[r].at = "list"
    /\ LET seen == {g \in Ids : goals[g].status \in {"approved", "active"}} IN
       runs' = [runs EXCEPT ![r].at = "links", ![r].unread = seen,
                            ![r].seen = [g \in seen |-> goals[g].status]]
    /\ UNCHANGED <<goals, proposed, linked, done, asking, faults>>

\* the links of each,
ReadLinks(r) ==
    /\ runs[r].at = "links" /\ runs[r].unread # {}
    /\ LET g == CHOOSE x \in runs[r].unread : \A y \in runs[r].unread : x <= y IN
       runs' = [runs EXCEPT ![r].unread = @ \ {g}, ![r].links = @ \cup Work(g)]
    /\ UNCHANGED <<goals, proposed, linked, done, asking, faults>>

\* and the tasks.
ReadTasks(r) ==
    /\ runs[r].at = "links" /\ runs[r].unread = {}
    /\ runs' = [runs EXCEPT ![r].at = "think", ![r].finished = @ \cup (runs[r].links \cap done)]
    /\ UNCHANGED <<goals, proposed, linked, done, asking, faults>>

\* runInitial, the policy of the answer, recordAnalysis: only goals of the
\* snapshot may be classified.
Think(r) ==
    /\ runs[r].at = "think"
    /\ \E new \in Answers, judged \in SUBSET DOMAIN runs[r].seen :
         runs' = [runs EXCEPT ![r].at = "create", ![r].new = new, ![r].judged = judged]
    /\ UNCHANGED <<goals, proposed, linked, done, asking, faults>>

\* INSERT ... ON CONFLICT (repository_name, duplicate_signature)
\* WHERE status NOT IN ('completed', 'rejected', 'stale') DO NOTHING.
Conflicts_Proposed(table, sig) ==
    \E g \in 1..Len(table) : table[g].sig = sig /\ table[g].status = "proposed"
Conflicts(table, sig) == \E g \in 1..Len(table) : table[g].sig = sig /\ table[g].status \in Open

Insert(table, r, sig) ==
    IF Conflicts(table, sig) THEN table
    ELSE Append(table, [sig |-> sig, run |-> r, status |-> "proposed", by |-> "nobody"])

\* createGoalsFromAnalysis, one transaction: each insert sees those before it.
Inserted(table, r, new) ==
    LET after[i \in 0..Len(new)] ==
          IF i = 0 THEN table ELSE Insert(after[i - 1], r, new[i])
    IN  after[Len(new)]

CreateGoals(r) ==
    /\ runs[r].at = "create"
    /\ goals' = Inserted(goals, r, runs[r].new)
    /\ Len(goals') <= MaxGoals
    /\ runs' = [runs EXCEPT ![r].at = "judge", ![r].new = <<>>,
                            ![r].made = (Len(goals) + 1)..Len(goals')]
    /\ UNCHANGED <<proposed, linked, done, asking, faults>>

\* completeGoalWhenSafe: as the snapshot saw the goal and its tasks.
SafeToComplete_Unlinked(run, g) ==
    run.seen[g] = "active" /\ \A k \in run.links : k[1] = g => k \in run.finished
SafeToComplete(run, g) ==
    LET links == {k \in run.links : k[1] = g} IN
    run.seen[g] = "active" /\ links # {} /\ links \subseteq run.finished

\* recordGoalReplanClassification and completeGoal, which throws when the goal
\* is no longer active.
Judge(r) ==
    /\ runs[r].at = "judge" /\ runs[r].judged # {}
    /\ \E g \in runs[r].judged :
         IF ~SafeToComplete(runs[r], g)
         THEN UNCHANGED goals /\ runs' = [runs EXCEPT ![r].judged = @ \ {g}]
         ELSE \/ Set(g, {"active"}, "completed", r) /\ runs' = [runs EXCEPT ![r].judged = @ \ {g}]
              \/ goals[g].status # "active" /\ UNCHANGED goals /\ Over(r, "failing", "started")
    /\ UNCHANGED <<proposed, linked, done, asking, faults>>

\* completeRun.
Recorded(run) == run.made

CompleteRun(r) ==
    /\ runs[r].at = "judge" /\ runs[r].judged = {}
    /\ runs' = [runs EXCEPT ![r] = [NoRun EXCEPT !.at = "end", !.status = "completed",
                                    !.links = runs[r].links, !.record = Recorded(runs[r])]]
    /\ UNCHANGED <<goals, proposed, linked, done, asking, faults>>

\* failRun.
FailRun(r) ==
    /\ runs[r].at = "failing"
    /\ Over(r, "end", "failed")
    /\ UNCHANGED <<goals, proposed, linked, done, asking, faults>>

\* A call of the run throws, or its process dies.
Fault(r) ==
    /\ faults < MaxFaults /\ runs[r].at \notin {"none", "end"}
    /\ faults' = faults + 1
    /\ \/ runs[r].at # "failing" /\ Over(r, "failing", "started")
       \/ Over(r, "end", "started")
    /\ UNCHANGED <<goals, proposed, linked, done, asking>>

-----------------------------------------------------------------------------
(* People *)

Approve(g)  == Set(g, {"proposed"}, "approved", "person")
Activate(g) == Set(g, {"approved"}, "active", "person")
Complete(g) == Set(g, {"active"}, "completed", "person")
Reject(g)   == Set(g, {"proposed"}, "rejected", "person")
MarkStale(g) == Set(g, Open, "stale", "person")

Decide ==
    /\ \E g \in Ids : Approve(g) \/ Activate(g) \/ Complete(g) \/ Reject(g) \/ MarkStale(g)
    /\ UNCHANGED <<proposed, linked, done, runs, asking, faults>>

\* /commands/propose-tasks: the goal is read once, and each draft is proposed
\* and linked in turn; proposing again returns the task there is.
AskForTasks(o) ==
    /\ asking[o].todo = {}
    /\ \E g \in Ids : /\ goals[g].status \in {"approved", "active"}
                      /\ asking' = [asking EXCEPT ![o] = [goal |-> g, todo |-> Drafts, made |-> FALSE]]
    /\ UNCHANGED <<goals, proposed, linked, done, runs, faults>>

Draft(o) == CHOOSE d \in asking[o].todo : \A e \in asking[o].todo : d <= e

Propose(o) ==
    /\ asking[o].todo # {} /\ ~asking[o].made
    /\ proposed' = proposed \cup {<<asking[o].goal, Draft(o)>>}
    /\ asking' = [asking EXCEPT ![o].made = TRUE]
    /\ UNCHANGED <<goals, linked, done, runs, faults>>

\* linkGoalTask.
Link(o) ==
    /\ asking[o].made
    /\ linked' = linked \cup {<<asking[o].goal, Draft(o)>>}
    /\ asking' = [asking EXCEPT ![o].todo = @ \ {Draft(o)}, ![o].made = FALSE]
    /\ UNCHANGED <<goals, proposed, done, runs, faults>>

\* The request fails or its process dies.
Interrupt(o) ==
    /\ faults < MaxFaults /\ asking[o].todo # {}
    /\ faults' = faults + 1
    /\ asking' = [asking EXCEPT ![o].todo = {}, ![o].made = FALSE]
    /\ UNCHANGED <<goals, proposed, linked, done, runs>>

\* The task is done: done is final.
Finish ==
    /\ \E k \in proposed \ done : done' = done \cup {k}
    /\ UNCHANGED <<goals, proposed, linked, runs, asking, faults>>

-----------------------------------------------------------------------------
Init ==
    /\ goals = <<>> /\ proposed = {} /\ linked = {} /\ done = {}
    /\ runs = [r \in Runs |-> NoRun]
    /\ asking = [o \in Operators |-> [goal |-> 0, todo |-> {}, made |-> FALSE]]
    /\ faults = 0

Next ==
    \/ \E r \in Runs : \/ StartRun(r) \/ ListGoals(r) \/ ReadLinks(r) \/ ReadTasks(r) \/ Think(r)
                       \/ CreateGoals(r) \/ Judge(r) \/ CompleteRun(r) \/ FailRun(r) \/ Fault(r)
    \/ \E o \in Operators : AskForTasks(o) \/ Propose(o) \/ Link(o) \/ Interrupt(o)
    \/ Decide \/ Finish

Spec == Init /\ [][Next]_vars

-----------------------------------------------------------------------------
\* Every table has rows of its form, links are of tasks that were proposed, and
\* only what was proposed is done.
TypeOK ==
    /\ \A g \in Ids : /\ goals[g].sig \in Sigs /\ goals[g].run \in Runs
                      /\ goals[g].status \in Open \cup {"completed", "rejected", "stale"}
                      /\ goals[g].by \in Runs \cup {"nobody", "person"}
    /\ linked \subseteq proposed /\ done \subseteq proposed
    /\ proposed \subseteq Ids \X Drafts
    /\ \A r \in Runs : runs[r].made \subseteq Ids /\ DOMAIN runs[r].seen \subseteq Ids

\* Of the goals of one signature at most one is open, however many runs propose
\* it at a time and whatever people decide meanwhile.
OneOpenGoal ==
    \A g, h \in Ids : goals[g].sig = goals[h].sig /\ goals[g].status \in Open
                      /\ goals[h].status \in Open => g = h

\* A goal that a run completed has work, and all the work the run knew of is
\* done.
CompletedOnWork ==
    \A g \in Ids : goals[g].by \in Runs =>
        LET known == {k \in runs[goals[g].by].links : k[1] = g} IN
        known # {} /\ known \subseteq Work(g) \cap done
=============================================================================
