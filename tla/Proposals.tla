------------------------------ MODULE Proposals -------------------------------
(***************************************************************************)
(* Tasks proposed by AI agents: proposing, approving, rejecting and        *)
(* cleaning up in the PostgreSQL tracker                                   *)
(* (src/integrations/internalTracker/postgresTaskTracker.ts), for one      *)
(* repository.                                                             *)
(*                                                                         *)
(* Every call is a READ COMMITTED transaction that reads first and writes  *)
(* later, and no read but the one of the idempotency key takes a lock: the *)
(* writes do not look at what the rows hold by then.  Each statement that  *)
(* decides something is a step.  A call that throws or returns what it     *)
(* finds, having written nothing, is no step.                              *)
(*                                                                         *)
(* A definition whose name has a suffix after an underscore is a seeded    *)
(* fault of the definition below it; no specification uses it.             *)
(***************************************************************************)
EXTENDS Naturals, FiniteSets, TaskStatus

CONSTANTS
    Callers,       \* connections of the API and of the agents
    Cleaner,       \* the connection of the cleanup job
    Ids,           \* ids new tasks may get, one per call of proposeTask
    NoId,
    Content,       \* what an id's proposal is about: title, type and evidence
    Key,           \* the idempotency key of the call
    NoKey,
    LowRisk,       \* ids whose proposal the policy approves by itself
    WindowLimit,   \* proposals per sliding window
    DailyLimit,    \* proposals per UTC day
    Requested      \* statuses other callers set

ASSUME ProposalAssumption ==
    /\ IsFiniteSet(Callers)
    /\ Cleaner \notin Callers
    /\ NoId \notin Ids
    /\ LowRisk \subseteq Ids
    /\ WindowLimit \in Nat
    /\ DailyLimit \in Nat
    /\ Requested \subseteq Status \ {"new", "claimed"}
    /\ "absent" \notin Status

VARIABLES
    status,      \* tasks.status, "absent" before the insert
    supervisor,  \* task_proposals.supervisor_status
    recent,      \* ids created within the window
    today,       \* ids created on this UTC day
    stale,       \* ids past stale_after
    stored,      \* idempotency_keys of proposeTask: the id a key made
    call         \* the transaction each connection has open

vars == <<status, supervisor, recent, today, stale, stored, call>>

Processes == Callers \cup {Cleaner}
Keys      == {Key[p] : p \in Ids} \ {NoKey}
Call      == [step : {"idle", "counting", "inserting", "approving", "rejecting", "listed"},
              id : Ids \cup {NoId}, todo : SUBSET Ids]
NoCall    == [step |-> "idle", id |-> NoId, todo |-> {}]

Idle(c)     == call[c].step = "idle"
Open(c, step, p) ==
    call' = [call EXCEPT ![c] = [step |-> step, id |-> p, todo |-> {}]]
Approved    == {"approved", "auto_approved"}
rows        == <<status, supervisor, recent, today, stored>>

-----------------------------------------------------------------------------
(* proposeTask *)

\* findIdempotency takes an advisory lock on the key until the transaction ends.
KeyLocked_Never(k) == FALSE
Creating(c)  == call[c].step \in {"counting", "inserting"}
KeyLocked(k) == \E c \in Callers : Creating(c) /\ Key[call[c].id] = k

\* The same title or evidence as a task still to be done.
Live(q)      == status[q] \notin {"absent", "done", "failed", "cancelled"}
Duplicate(p) == \E q \in Ids \ {p} : Live(q) /\ Content[q] = Content[p]

ProposeTask(c, p) ==
    /\ Idle(c)
    /\ status[p] = "absent"
    /\ \A d \in Callers : call[d].id # p
    /\ Key[p] # NoKey => ~KeyLocked(Key[p]) /\ stored[Key[p]] = NoId
    /\ ~Duplicate(p)
    /\ Open(c, "counting", p)
    /\ UNCHANGED <<rows, stale>>

\* evaluateProposalPolicy: the limits first.
WithinLimits_OffByOne == Cardinality(recent) <= WindowLimit /\ Cardinality(today) < DailyLimit
WithinLimits == Cardinality(recent) < WindowLimit /\ Cardinality(today) < DailyLimit

CountWindows(c) ==
    /\ call[c].step = "counting"
    /\ \/ WithinLimits /\ Open(c, "inserting", call[c].id)
       \/ ~WithinLimits /\ call' = [call EXCEPT ![c] = NoCall]
    /\ UNCHANGED <<rows, stale>>

\* The key is also the task's external reference, which is unique: a second
\* task with it throws (Rollback).
KeyFree(p) ==
    Key[p] # NoKey => \A q \in Ids : status[q] # "absent" => Key[q] # Key[p]

InsertProposal(c) ==
    LET p == call[c].id IN
    /\ call[c].step = "inserting"
    /\ KeyFree(p)
    /\ status' = [status EXCEPT ![p] = IF p \in LowRisk THEN "ready" ELSE "triage"]
    /\ supervisor' = [supervisor EXCEPT ![p] =
                        IF p \in LowRisk THEN "auto_approved" ELSE "proposed"]
    /\ recent' = recent \cup {p}
    /\ today' = today \cup {p}
    /\ stored' = [k \in Keys |-> IF k = Key[p] THEN p ELSE stored[k]]
    /\ call' = [call EXCEPT ![c] = NoCall]
    /\ UNCHANGED stale

-----------------------------------------------------------------------------
(* approveProposal, rejectProposal *)

\* Both read the task and its proposal without a lock.
Decidable(p, s) == supervisor[p] = "proposed" /\ CanTransition(status[p], s)

ApproveProposal(c, p) ==
    /\ Idle(c)
    /\ Decidable(p, "ready")
    /\ Open(c, "approving", p)
    /\ UNCHANGED <<rows, stale>>

RejectProposal(c, p) ==
    /\ Idle(c)
    /\ Decidable(p, "cancelled")
    /\ Open(c, "rejecting", p)
    /\ UNCHANGED <<rows, stale>>

\* UPDATE ... WHERE task_id = $1, on both tables, and commit.
Approve(c) ==
    /\ call[c].step = "approving"
    /\ status' = [status EXCEPT ![call[c].id] = "ready"]
    /\ supervisor' = [supervisor EXCEPT ![call[c].id] = "approved"]
    /\ call' = [call EXCEPT ![c] = NoCall]
    /\ UNCHANGED <<recent, today, stale, stored>>

Reject_OneStatus(c) ==
    /\ call[c].step = "rejecting"
    /\ status' = [status EXCEPT ![call[c].id] = "rejected"]
    /\ supervisor' = [supervisor EXCEPT ![call[c].id] = "rejected"]
    /\ call' = [call EXCEPT ![c] =
                  IF c = Cleaner THEN [@ EXCEPT !.step = "listed", !.id = NoId] ELSE NoCall]
    /\ UNCHANGED <<recent, today, stale, stored>>
Reject(c) ==
    /\ call[c].step = "rejecting"
    /\ status' = [status EXCEPT ![call[c].id] = "cancelled"]
    /\ supervisor' = [supervisor EXCEPT ![call[c].id] = "rejected"]
    /\ call' = [call EXCEPT ![c] =
                  IF c = Cleaner THEN [@ EXCEPT !.step = "listed", !.id = NoId] ELSE NoCall]
    /\ UNCHANGED <<recent, today, stale, stored>>

-----------------------------------------------------------------------------
(* cleanupProposals *)

ListStale(c) ==
    /\ Idle(c)
    /\ call' = [call EXCEPT ![c] =
                  [@ EXCEPT !.step = "listed",
                            !.todo = {p \in stale : supervisor[p] = "proposed"}]]
    /\ UNCHANGED <<rows, stale>>

\* One rejection after the other.  One that was rejected meanwhile is counted;
\* any other decision throws, which ends the cleanup.
CleanNext_Stops(c) ==
    /\ call[c].step = "listed"
    /\ call' = [call EXCEPT ![c] = NoCall]
    /\ UNCHANGED <<rows, stale>>
CleanNext(c) ==
    /\ call[c].step = "listed"
    /\ \/ /\ call[c].todo = {}
          /\ call' = [call EXCEPT ![c] = NoCall]
       \/ \E p \in call[c].todo :
            \/ /\ Decidable(p, "cancelled")
               /\ call' = [call EXCEPT ![c] = [step |-> "rejecting", id |-> p, todo |-> @.todo \ {p}]]
            \/ /\ supervisor[p] = "rejected"
               /\ call' = [call EXCEPT ![c].todo = @ \ {p}]
            \/ /\ ~Decidable(p, "cancelled")
               /\ supervisor[p] # "rejected"
               /\ call' = [call EXCEPT ![c] = NoCall]
    /\ UNCHANGED <<rows, stale>>

-----------------------------------------------------------------------------
(* The rest of the system *)

\* An error or a lost connection: ROLLBACK.
Rollback(c) ==
    /\ ~Idle(c)
    /\ call' = [call EXCEPT ![c] = NoCall]
    /\ UNCHANGED <<rows, stale>>

\* claimNextTask (see TaskQueue): proposals that nobody approved are left out.
Claimable_Ready(p) == status[p] = "ready"
Claimable(p) == status[p] = "ready" /\ supervisor[p] \in Approved

Claim(p) ==
    /\ Claimable(p)
    /\ status' = [status EXCEPT ![p] = "claimed"]
    /\ UNCHANGED <<supervisor, recent, today, stale, stored, call>>

\* markReady and setStatus.
SetStatus(p, s) ==
    /\ status[p] # "absent"
    /\ s # status[p]
    /\ CanTransition(status[p], s)
    /\ status' = [status EXCEPT ![p] = s]
    /\ UNCHANGED <<supervisor, recent, today, stale, stored, call>>

LeaveWindow(p) ==
    /\ p \in recent
    /\ recent' = recent \ {p}
    /\ UNCHANGED <<status, supervisor, today, stale, stored, call>>

Midnight ==
    /\ today # {}
    /\ today' = {}
    /\ UNCHANGED <<status, supervisor, recent, stale, stored, call>>

\* 30 days: past the window and the day.
GrowStale(p) ==
    /\ status[p] # "absent"
    /\ p \notin recent \cup today \cup stale
    /\ stale' = stale \cup {p}
    /\ UNCHANGED <<rows, call>>

-----------------------------------------------------------------------------
Init ==
    /\ status = [p \in Ids |-> "absent"]
    /\ supervisor = [p \in Ids |-> "none"]
    /\ recent = {}
    /\ today = {}
    /\ stale = {}
    /\ stored = [k \in Keys |-> NoId]
    /\ call = [c \in Processes |-> NoCall]

CallerStep(c) ==
    \/ \E p \in Ids : ProposeTask(c, p) \/ ApproveProposal(c, p) \/ RejectProposal(c, p)
    \/ CountWindows(c)
    \/ InsertProposal(c)
    \/ Approve(c)
    \/ Reject(c)
    \/ Rollback(c)

CleanerStep == ListStale(Cleaner) \/ CleanNext(Cleaner) \/ Reject(Cleaner) \/ Rollback(Cleaner)

TaskStep(p) ==
    \/ Claim(p)
    \/ \E s \in Requested : SetStatus(p, s)
    \/ LeaveWindow(p)
    \/ GrowStale(p)

Next == (\E c \in Callers : CallerStep(c)) \/ CleanerStep \/ (\E p \in Ids : TaskStep(p)) \/ Midnight

Spec == Init /\ [][Next]_vars

\* The cleanup job runs on a timer, and its connection does not fail every time.
FairSpec ==
    /\ Spec
    /\ WF_vars(ListStale(Cleaner))
    /\ SF_vars(CleanNext(Cleaner))
    /\ SF_vars(Reject(Cleaner))

-----------------------------------------------------------------------------
(* Properties *)

TypeOK ==
    /\ status \in [Ids -> Status \cup {"absent"}]
    /\ supervisor \in [Ids -> {"none", "proposed", "rejected"} \cup Approved]
    /\ recent \subseteq Ids /\ today \subseteq Ids /\ stale \subseteq Ids
    /\ stored \in [Keys -> Ids \cup {NoId}]
    /\ call \in [Processes -> Call]

\* Statuses a task can have before a claim, or reach again without one.
NotStarted == {"absent", "new", "triage", "ready", "blocked", "failed", "cancelled"}

\* A task proposed by an agent is past its claim only while an approval
\* stands, though people may make it ready, and approvals, rejections and
\* cleanups overtake each other and the claim.
ExecutedIsApproved ==
    \A p \in Ids : status[p] \notin NotStarted => supervisor[p] \in Approved

\* A proposal that is retried, from however many connections, is answered with
\* the task its key made: no call gets as far as meeting its own key among the
\* external references.
RetriesDoNotCollide == \A c \in Processes : Creating(c) => KeyFree(call[c].id)

\* Calls that overlap may exceed the window limit, by fewer than there are
\* connections.
OvershootIsBounded ==
    WindowLimit > 0 => Cardinality(recent) < WindowLimit + Cardinality(Callers)

\* Nobody has to look: a stale proposal is decided in the end, although a
\* decision taken while the cleanup runs aborts it.
Undecided(p)   == p \in stale /\ supervisor[p] = "proposed"
StaleIsDecided == \A p \in Ids : Undecided(p) ~> ~Undecided(p)
=============================================================================
