---------------------------- MODULE MemoryTracker ----------------------------
(***************************************************************************)
(* The tracker that keeps its tasks in memory                              *)
(* (src/domain/taskTracker/inMemoryTaskTracker.ts): proposals, claims and  *)
(* leases.  It serves one process, whose calls do not interrupt each other *)
(* but where they await: proposeTask awaits the task it creates before it  *)
(* adds the proposal, and cleanupProposals awaits every rejection.         *)
(*                                                                         *)
(* A lease that another has superseded is never looked at again, so        *)
(* `leases' keeps the last unreleased one of each key.                     *)
(*                                                                         *)
(* A definition whose name has a suffix after an underscore is a seeded    *)
(* fault of the definition below it; no specification uses it.             *)
(***************************************************************************)
EXTENDS TaskStatus, Naturals, FiniteSets

CONSTANTS
    Workers,       \* workers of the process
    NoWorker,
    Ordinary,      \* tasks of people
    Proposed,      \* tasks that agents propose
    Title,         \* what a proposal is called
    Evidence,      \* what it is based on
    Key,           \* its idempotency key
    LowRisk,       \* proposals the policy approves by itself
    Limit,         \* proposals per window, and per day
    Overlapping,   \* bound: proposeTask calls that wait at one time
    RepoOf,        \* repository of a task
    Rank,          \* claim score of a task
    Ttl,           \* leaseTtlSeconds, in ticks
    Requested      \* statuses the callers pass to setStatus

VARIABLES
    status,        \* a task's status, "absent" before it is made
    supervisor,    \* proposal.supervisorStatus, "none" before it is set
    recent,        \* proposals of the window
    stored,        \* proposalIdempotency: keys that are answered
    blocked,       \* tasks with an active blocking dependency
    leases,        \* leases that are not released
    cleaning       \* tasks the cleanup has still to look at

vars == <<status, supervisor, recent, stored, blocked, leases, cleaning>>

Tasks     == Ordinary \cup Proposed
Exists(t) == status[t] # "absent"

\* Made, but its proposal is not there yet: nobody knows its id.
Waiting(p)  == p \in Proposed /\ Exists(p) /\ supervisor[p] = "none"
Reachable(t) == Exists(t) /\ ~Waiting(t)

-----------------------------------------------------------------------------
(* Proposals *)

\* findDuplicateProposal.
Alive(q) == Exists(q) /\ status[q] \notin {"done", "failed", "cancelled"} /\ supervisor[q] # "rejected"
SameAs(p, q) == Title[q] = Title[p] \/ (supervisor[q] # "none" /\ Evidence[q] = Evidence[p])
Duplicate_Recorded(p) == \E q \in Proposed \ {p} : Alive(q) /\ supervisor[q] # "none" /\ SameAs(p, q)
Duplicate(p) == \E q \in Proposed \ {p} : Alive(q) /\ SameAs(p, q)

\* countProposalWindows counts the proposals that are there.
WithinLimit_OffByOne == Cardinality(recent) <= Limit
WithinLimit == Cardinality(recent) < Limit

\* assertExternalRefsAvailable.
KeyFree(p) == \A q \in Proposed : Exists(q) => Key[q] # Key[p]

\* proposeTask, as far as createTask.
ProposeTask(p) ==
    /\ ~Exists(p)
    /\ Key[p] \notin stored
    /\ ~Duplicate(p) /\ WithinLimit /\ KeyFree(p)
    /\ Cardinality({q \in Proposed : Waiting(q)}) < Overlapping
    /\ status' = [status EXCEPT ![p] = IF p \in LowRisk THEN "ready" ELSE "triage"]
    /\ UNCHANGED <<supervisor, recent, stored, blocked, leases, cleaning>>

AddProposal(p) ==
    /\ Waiting(p)
    /\ supervisor' = [supervisor EXCEPT ![p] = IF p \in LowRisk THEN "auto_approved" ELSE "proposed"]
    /\ recent' = recent \cup {p}
    /\ stored' = stored \cup {Key[p]}
    /\ UNCHANGED <<status, blocked, leases, cleaning>>

\* approveProposal and rejectProposal do not wait for anything.
Decide(p, decision, s) ==
    /\ supervisor[p] = "proposed"
    /\ CanTransition(status[p], s)
    /\ status' = [status EXCEPT ![p] = s]
    /\ supervisor' = [supervisor EXCEPT ![p] = decision]
    /\ UNCHANGED <<recent, stored, blocked, leases>>
ApproveProposal(p) == Decide(p, "approved", "ready") /\ UNCHANGED cleaning
RejectProposal(p)  == Decide(p, "rejected", "cancelled") /\ UNCHANGED cleaning

\* cleanupProposals, one task after the other; a rejection that throws ends it.
Clean ==
    /\ cleaning = {}
    /\ cleaning' = {p \in Proposed : Reachable(p) /\ p \notin recent}
    /\ UNCHANGED <<status, supervisor, recent, stored, blocked, leases>>

CleanNext(p) ==
    /\ p \in cleaning
    /\ \/ Decide(p, "rejected", "cancelled") /\ cleaning' = cleaning \ {p}
       \/ /\ supervisor[p] # "proposed"
          /\ cleaning' = cleaning \ {p}
          /\ UNCHANGED <<status, supervisor, recent, stored, blocked, leases>>
       \/ /\ supervisor[p] = "proposed" /\ ~CanTransition(status[p], "cancelled")
          /\ cleaning' = {}
          /\ UNCHANGED <<status, supervisor, recent, stored, blocked, leases>>

LeaveWindow(p) ==
    /\ p \in recent
    /\ recent' = recent \ {p}
    /\ UNCHANGED <<status, supervisor, stored, blocked, leases, cleaning>>

-----------------------------------------------------------------------------
(* Claims and leases *)

KeyOf(l) == <<l.kind, IF l.kind = "task" THEN l.task ELSE RepoOf[l.task]>>
Live(l)  == l.left > 0

\* isApprovedForExecution: a task without a proposal is.
Approved_Ready(t) == TRUE
Approved(t) == supervisor[t] \in {"none", "approved", "auto_approved"}

\* isEligibleClaimCandidate, isEligibleReviewClaimCandidate.
Leased_TaskOnly(t) == \E l \in leases : Live(l) /\ KeyOf(l) = <<"task", t>>
Leased(t) == \E l \in leases : Live(l) /\ KeyOf(l) \in {<<"task", t>>, <<"repository", RepoOf[t]>>}
Eligible(t, statuses) == status[t] \in statuses /\ Approved(t) /\ t \notin blocked /\ ~Leased(t)

NewLeases(w, t) == {[kind |-> k, task |-> t, worker |-> w, left |-> Ttl] : k \in {"task", "repository"}}
Take(w, t, s) ==
    /\ leases' = {l \in leases : \A m \in NewLeases(w, t) : KeyOf(l) # KeyOf(m)} \cup NewLeases(w, t)
    /\ status' = [status EXCEPT ![t] = s]
    /\ UNCHANGED <<supervisor, recent, stored, blocked, cleaning>>

ClaimNextTask(w) ==
    LET candidates == {t \in Tasks : Eligible(t, {"ready", "claimed"})} IN
    \E t \in candidates : (\A u \in candidates : Rank[u] <= Rank[t]) /\ Take(w, t, "claimed")

ClaimReviewTask(w, t) == Eligible(t, {"review"}) /\ Take(w, t, "fixing_review")

HeartbeatLease(l) ==
    /\ Live(l)
    /\ leases' = (leases \ {l}) \cup {[l EXCEPT !.left = Ttl]}
    /\ UNCHANGED <<status, supervisor, recent, stored, blocked, cleaning>>

ReleaseLease(l) ==
    /\ leases' = leases \ {l}
    /\ UNCHANGED <<status, supervisor, recent, stored, blocked, cleaning>>

Tick ==
    /\ \E l \in leases : Live(l)
    /\ leases' = {[l EXCEPT !.left = IF @ > 0 THEN @ - 1 ELSE 0] : l \in leases}
    /\ UNCHANGED <<status, supervisor, recent, stored, blocked, cleaning>>

-----------------------------------------------------------------------------
(* The other callers *)

\* setStatus, markReady.
SetStatus(t, s) ==
    /\ Reachable(t)
    /\ s # status[t] /\ CanTransition(status[t], s)
    /\ status' = [status EXCEPT ![t] = s]
    /\ UNCHANGED <<supervisor, recent, stored, blocked, leases, cleaning>>

\* recordHumanAnswer makes a task that waits ready.
RecordHumanAnswer(t) ==
    /\ Reachable(t) /\ status[t] \in {"awaiting_human", "blocked", "failed"}
    /\ status' = [status EXCEPT ![t] = "ready"]
    /\ UNCHANGED <<supervisor, recent, stored, blocked, leases, cleaning>>

AddDependency(t) ==
    /\ Reachable(t) /\ t \notin blocked
    /\ blocked' = blocked \cup {t}
    /\ UNCHANGED <<status, supervisor, recent, stored, leases, cleaning>>

-----------------------------------------------------------------------------

Init ==
    /\ status = [t \in Tasks |-> IF t \in Ordinary THEN "ready" ELSE "absent"]
    /\ supervisor = [t \in Tasks |-> "none"]
    /\ recent = {} /\ stored = {} /\ blocked = {} /\ leases = {} /\ cleaning = {}

Next ==
    \/ \E p \in Proposed : \/ ProposeTask(p) \/ AddProposal(p) \/ ApproveProposal(p) \/ RejectProposal(p)
                           \/ CleanNext(p) \/ LeaveWindow(p)
    \/ Clean
    \/ \E w \in Workers : ClaimNextTask(w) \/ \E t \in Tasks : ClaimReviewTask(w, t)
    \/ \E l \in leases : HeartbeatLease(l) \/ ReleaseLease(l)
    \/ \E t \in Tasks : RecordHumanAnswer(t) \/ AddDependency(t) \/ \E s \in Requested : SetStatus(t, s)
    \/ Tick

Spec == Init /\ [][Next]_vars

-----------------------------------------------------------------------------
(* Properties *)

TypeOK ==
    /\ \A t \in Tasks : status[t] \in Status \cup {"absent"}
    /\ \A t \in Tasks : supervisor[t] \in {"none", "proposed", "approved", "auto_approved", "rejected"}
    /\ recent \cup cleaning \subseteq Proposed /\ blocked \subseteq Tasks
    /\ \A l \in leases : l.left \in 0..Ttl /\ l.worker \in Workers /\ Exists(l.task)

\* A proposal is past its claim only while an approval stands, although it may be
\* claimed in the moment before it is marked as one.
NotStarted == {"absent", "new", "triage", "ready", "blocked", "failed", "cancelled"}
ExecutedIsApproved ==
    \A p \in Proposed : status[p] \notin NotStarted =>
      supervisor[p] \in {"approved", "auto_approved"} \/ (Waiting(p) /\ p \in LowRisk)

\* Calls that overlap may exceed the limit, by as many as wait at one time.
OvershootIsBounded == Limit > 0 => Cardinality(recent) < Limit + Overlapping

\* Two proposals of one title come to be alive side by side only when one that
\* has failed is tried again, although a call may wait between its look for
\* duplicates and its own proposal.
Twins(p, q) == p # q /\ Alive(p) /\ Alive(q) /\ Title[p] = Title[q]
TwinsByRetry ==
    \A p, q \in Proposed : Twins(p, q)' /\ ~Twins(p, q) => "failed" \in {status[p], status[q]}
OnlyRetriesMakeTwins == [][TwinsByRetry]_vars

\* The store implements the lock that the tables of PostgreSQL implement: a claim
\* takes a task and its repository together or not at all, and never from an owner
\* whose lease is live.
LockKeys == {<<"task", t>> : t \in Tasks} \cup {<<"repository", RepoOf[t]>> : t \in Tasks}
OwnerOf(k) ==
    IF \E l \in leases : KeyOf(l) = k THEN (CHOOSE l \in leases : KeyOf(l) = k).worker ELSE NoWorker
Lock == INSTANCE LeaseLock WITH
            Keys    <- LockKeys,
            Owners  <- Workers,
            NoOwner <- NoWorker,
            Bundles <- {{<<"task", t>>, <<"repository", RepoOf[t]>>} : t \in Tasks},
            owner   <- [k \in LockKeys |-> OwnerOf(k)],
            live    <- {KeyOf(l) : l \in {m \in leases : Live(m)}}
LockStep == Lock!Next \/ UNCHANGED Lock!lockVars
ImplementsLock == Lock!Init /\ [][LockStep]_vars
=============================================================================
