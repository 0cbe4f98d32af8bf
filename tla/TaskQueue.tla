----------------------------- MODULE TaskQueue ------------------------------
(***************************************************************************)
(* The claim queue and the lease table of the PostgreSQL tracker           *)
(* (src/integrations/internalTracker/postgresTaskTracker.ts).              *)
(*                                                                         *)
(* A worker claims a task in one READ COMMITTED transaction that           *)
(*   1. marks every lapsed lease released (row locks until commit) and     *)
(*      takes the snapshot the candidate query works on,                   *)
(*   2. locks one candidate row FOR UPDATE SKIP LOCKED, re-checking only   *)
(*      the columns of that row,                                           *)
(*   3. inserts the repository lease, then the task lease, under the       *)
(*      unique indexes on unreleased leases, and writes the status.        *)
(* The three are separate steps here, so that other transactions run in    *)
(* between.  A released lease row is never read again by its content, so   *)
(* `leases' keeps the unreleased rows only.                                *)
(*                                                                         *)
(* A definition whose name has a suffix after an underscore is a seeded    *)
(* fault of the definition below it; no specification uses it.             *)
(***************************************************************************)
EXTENDS Naturals, TaskStatus

CONSTANTS
    Workers,    \* worker ids; one process per id
    Tasks,      \* tasks with every execution field set and no pending proposal
    NoTask,     \* the task of a transaction that has not locked one
    RepoOf,     \* repository lease key of a task
    Serves,     \* tasks that match a worker's repository profiles
    Rank,       \* claim score of a task
    Ttl,        \* leaseTtlSeconds, in ticks
    Skew,       \* how far a worker's clock runs ahead of the slowest one
    Requested   \* statuses the callers pass to setStatus

ASSUME QueueAssumption ==
    /\ NoTask \notin Tasks \cup Workers
    /\ Ttl \in Nat \ {0}
    /\ Skew \in [Workers -> Nat]
    /\ Rank \in [Tasks -> Nat]
    /\ Serves \in [Workers -> SUBSET Tasks]
    /\ Requested \subseteq Status \ {"new", "triage", "claimed"}

VARIABLES
    status,     \* tasks.status
    blocked,    \* tasks with an active blocking row in task_dependencies
    leases,     \* rows of task_leases with released_at IS NULL
    txn         \* the claim transaction each worker has open

queueVars == <<status, blocked, leases, txn>>

LeaseKinds == {"task", "repository"}
Lease      == [kind : LeaseKinds, task : Tasks, worker : Workers, left : Nat]
RowId      == [kind : LeaseKinds, task : Tasks, worker : Workers]
Txn        == [phase : {"idle", "selecting", "locked"},
               for : {"claim", "review"},
               task : Tasks \cup {NoTask},
               snapshot : SUBSET Tasks,
               lapsed : SUBSET RowId]

\* What a row is known by: lease ids and tokens are fresh UUIDs, and a worker
\* never holds two unreleased rows of one kind for one task.
RowOf(l) == [kind |-> l.kind, task |-> l.task, worker |-> l.worker]

\* The two partial unique indexes: task_id among the task leases, lease_key
\* among the repository leases.
SameKey(l, m) ==
    /\ l.kind = m.kind
    /\ IF l.kind = "task" THEN l.task = m.task ELSE RepoOf[l.task] = RepoOf[m.task]

\* isLeaseActiveAt on the clock of worker w.
ActiveFor(w, l) == l.left > Skew[w]

Idle(w)       == txn[w].phase = "idle"
IdleTxn       == [phase |-> "idle", for |-> "claim", task |-> NoTask,
                  snapshot |-> {}, lapsed |-> {}]
RowLocked(r)  == \E w \in Workers : r \in txn[w].lapsed
TaskLocked_NoRowLock(t) == FALSE
TaskLocked(t) == \E w \in Workers : txn[w].phase = "locked" /\ txn[w].task = t

-----------------------------------------------------------------------------
(* Claiming *)

\* Statuses a candidate query accepts.
Claimable_ReadyOnly(for) == IF for = "claim" THEN {"ready"} ELSE {"review"}
Claimable(for) == IF for = "claim" THEN {"ready", "claimed"} ELSE {"review"}

\* The candidate query, on the committed rows less those this transaction
\* has just marked released.
Candidate(w, t, for, lapsed) ==
    LET held == {l \in leases : RowOf(l) \notin lapsed} IN
    /\ t \in Serves[w]
    /\ status[t] \in Claimable(for)
    /\ t \notin blocked
    /\ \A l \in held : l.kind = "task" => l.task # t
    /\ \A l \in held : l.kind = "repository" => RepoOf[l.task] # RepoOf[t]

LapsedFor(w) == {RowOf(l) : l \in {m \in leases : ~ActiveFor(w, m)}}

\* Step 1.  The UPDATE waits while another transaction has one of its rows.
Begin(w, for, wanted) ==
    /\ Idle(w)
    /\ \A r \in LapsedFor(w) : ~RowLocked(r)
    /\ txn' = [txn EXCEPT ![w] =
                 [@ EXCEPT !.phase = "selecting",
                           !.for = for,
                           !.snapshot = {t \in wanted : Candidate(w, t, for, LapsedFor(w))},
                           !.lapsed = LapsedFor(w)]]
    /\ UNCHANGED <<status, blocked, leases>>

ClaimNextTask(w)      == Begin(w, "claim", Tasks)
ClaimReviewTask(w, t) == Begin(w, "review", {t})

\* Rows of the snapshot that step 2 can still lock.
Lockable_Unchecked(w) == {t \in txn[w].snapshot : ~TaskLocked(t)}
Lockable(w) ==
    {t \in txn[w].snapshot : ~TaskLocked(t) /\ status[t] \in Claimable(txn[w].for)}

\* Step 2.  Best score first, locked rows skipped.
LockCandidate(w) ==
    /\ txn[w].phase = "selecting"
    /\ \E t \in Lockable(w) :
         /\ \A u \in Lockable(w) : Rank[u] <= Rank[t]
         /\ txn' = [txn EXCEPT ![w] = [@ EXCEPT !.phase = "locked", !.task = t]]
    /\ UNCHANGED <<status, blocked, leases>>

\* Every way out commits the release of the lapsed rows.
Kept(w) == {l \in leases : RowOf(l) \notin txn[w].lapsed}

NoCandidate_RollsBack(w) ==
    /\ txn[w].phase = "selecting"
    /\ Lockable(w) = {}
    /\ txn' = [txn EXCEPT ![w] = IdleTxn]
    /\ UNCHANGED <<status, blocked, leases>>
NoCandidate(w) ==
    /\ txn[w].phase = "selecting"
    /\ Lockable(w) = {}
    /\ leases' = Kept(w)
    /\ txn' = [txn EXCEPT ![w] = IdleTxn]
    /\ UNCHANGED <<status, blocked>>

\* The rows a claim inserts.
LeasePair_TaskOnly(w, t) ==
    {[kind |-> "task", task |-> t, worker |-> w, left |-> Ttl + Skew[w]]}
LeasePair(w, t) ==
    {[kind |-> k, task |-> t, worker |-> w, left |-> Ttl + Skew[w]] : k \in LeaseKinds}
NewLeases(w) == LeasePair(w, txn[w].task)

\* INSERT ... ON CONFLICT DO NOTHING against the two unique indexes.
Insertable_NoIndex(w) == TRUE
Insertable(w) == \A l \in NewLeases(w), m \in Kept(w) : ~SameKey(l, m)

\* The dependencies are read again after the lock; a blocked task or a
\* conflicting lease gives the caller null.
Refuse(w) ==
    /\ txn[w].phase = "locked"
    /\ txn[w].task \in blocked \/ ~Insertable(w)
    /\ leases' = Kept(w)
    /\ txn' = [txn EXCEPT ![w] = IdleTxn]
    /\ UNCHANGED <<status, blocked>>

\* Step 3.
Grant_LogicalStatus(w) ==
    /\ txn[w].phase = "locked"
    /\ txn[w].task \notin blocked
    /\ Insertable(w)
    /\ leases' = Kept(w) \cup NewLeases(w)
    /\ status' = [status EXCEPT ![txn[w].task] = LogicalStatus("claimed")]
    /\ txn' = [txn EXCEPT ![w] = IdleTxn]
    /\ UNCHANGED blocked
Grant(w) ==
    /\ txn[w].phase = "locked"
    /\ txn[w].task \notin blocked
    /\ Insertable(w)
    /\ leases' = Kept(w) \cup NewLeases(w)
    /\ status' = [status EXCEPT ![txn[w].task] =
                    IF txn[w].for = "claim" THEN "claimed" ELSE "fixing_review"]
    /\ txn' = [txn EXCEPT ![w] = IdleTxn]
    /\ UNCHANGED blocked

\* An error or a lost connection: ROLLBACK.
Rollback(w) ==
    /\ ~Idle(w)
    /\ txn' = [txn EXCEPT ![w] = IdleTxn]
    /\ UNCHANGED <<status, blocked, leases>>

-----------------------------------------------------------------------------
(* Holding a lease *)

\* heartbeatLease: FOR UPDATE on the row, owner and token checked, a lapsed
\* lease refused.
Heartbeat_NoRowLock(w, l) ==
    /\ l \in leases
    /\ l.worker = w
    /\ ActiveFor(w, l)
    /\ leases' = (leases \ {l}) \cup {[l EXCEPT !.left = Ttl + Skew[w]]}
    /\ UNCHANGED <<status, blocked, txn>>
Heartbeat(w, l) ==
    /\ l \in leases
    /\ l.worker = w
    /\ ~RowLocked(RowOf(l))
    /\ ActiveFor(w, l)
    /\ leases' = (leases \ {l}) \cup {[l EXCEPT !.left = Ttl + Skew[w]]}
    /\ UNCHANGED <<status, blocked, txn>>

\* releaseLease: allowed to its owner even after the lease has lapsed.
Release(w, l) ==
    /\ l \in leases
    /\ l.worker = w
    /\ ~RowLocked(RowOf(l))
    /\ leases' = leases \ {l}
    /\ UNCHANGED <<status, blocked, txn>>

-----------------------------------------------------------------------------
(* The other callers *)

\* setStatus: any caller, no lease asked for; waits for the row lock.
SetStatus(t, s) ==
    /\ ~TaskLocked(t)
    /\ s # status[t]
    /\ CanTransition(status[t], s)
    /\ status' = [status EXCEPT ![t] = s]
    /\ UNCHANGED <<blocked, leases, txn>>

\* addDependency with a blocking kind.  The row touches both tasks, so it
\* waits for a claim that has the task locked.  Nothing in the program turns
\* a dependency to `resolved'.
AddDependency(t) ==
    /\ t \notin blocked
    /\ ~TaskLocked(t)
    /\ blocked' = blocked \cup {t}
    /\ UNCHANGED <<status, leases, txn>>

Tick ==
    /\ \E l \in leases : l.left > 0
    /\ leases' = {[l EXCEPT !.left = IF l.left > 0 THEN l.left - 1 ELSE 0] : l \in leases}
    /\ UNCHANGED <<status, blocked, txn>>

-----------------------------------------------------------------------------
Init ==
    /\ status \in [Tasks -> {"ready", "review"}]
    /\ blocked = {}
    /\ leases = {}
    /\ txn = [w \in Workers |-> IdleTxn]

ClaimStep(w) ==
    \/ ClaimNextTask(w)
    \/ \E t \in Tasks : ClaimReviewTask(w, t)
    \/ LockCandidate(w)
    \/ NoCandidate(w)
    \/ Refuse(w)
    \/ Grant(w)
    \/ Rollback(w)

HoldStep(w) == \E l \in leases : Heartbeat(w, l) \/ Release(w, l)

OtherStep ==
    \/ \E t \in Tasks, s \in Requested : SetStatus(t, s)
    \/ \E t \in Tasks : AddDependency(t)
    \/ Tick

Next == (\E w \in Workers : ClaimStep(w) \/ HoldStep(w)) \/ OtherStep

Spec == Init /\ [][Next]_queueVars

\* Fairness: a running worker keeps polling, and its connection does not fail
\* in every transaction.
Fairness ==
    \A w \in Workers :
        /\ WF_queueVars(ClaimNextTask(w))
        /\ SF_queueVars(LockCandidate(w) \/ NoCandidate(w))
        /\ SF_queueVars(Refuse(w) \/ Grant(w))

FairSpec == Spec /\ Fairness

-----------------------------------------------------------------------------
(* Properties *)

TypeOK ==
    /\ status \in [Tasks -> Status]
    /\ blocked \subseteq Tasks
    /\ leases \subseteq Lease
    /\ txn \in [Workers -> Txn]

\* What the unique indexes are for: however claim transactions interleave,
\* and whatever their clocks say, one unreleased lease per task and one per
\* repository key.
LeaseExclusive == \A l, m \in leases : SameKey(l, m) => l = m

\* A row a transaction is about to release stays lapsed on that transaction's
\* clock until it commits: no heartbeat revives it in between, and no second
\* transaction collects it.
CollectedRowsStayLapsed ==
    \A w \in Workers :
        /\ txn[w].lapsed \subseteq {RowOf(l) : l \in leases}
        /\ \A l \in leases : RowOf(l) \in txn[w].lapsed => ~ActiveFor(w, l)
        /\ \A v \in Workers \ {w} : txn[w].lapsed \cap txn[v].lapsed = {}

\* The row lock of a claim: one transaction per task, and the status it
\* checked is the status it overwrites.
LockedRowsAreClaimable ==
    \A w \in Workers : txn[w].phase = "locked" =>
        /\ txn[w].task \in Tasks
        /\ status[txn[w].task] \in Claimable(txn[w].for)
        /\ \A v \in Workers \ {w} :
             txn[v].phase = "locked" => txn[v].task # txn[w].task

\* A lease that is live on every clock leaves the table only when its owner
\* releases it: a claim never takes a live lease from another worker.
NoLiveLeaseStolen ==
    [][ \A l \in leases :
          \/ RowOf(l) \in {RowOf(m) : m \in leases'}
          \/ \E w \in Workers : ~ActiveFor(w, l)
          \/ Release(l.worker, l) ]_queueVars

\* The claim writes tasks.status unconditionally; the row lock it holds is
\* what keeps that write on the lifecycle graph, whatever setStatus does.
StatusFollowsGraph ==
    [][ \A t \in Tasks : CanTransition(status[t], status'[t]) ]_queueVars

\* A lease lapsed on every clock is collected: while workers poll, a holder
\* that died does not keep its task and repository for ever.
Lapsed(t) == \E l \in leases : l.task = t /\ l.left = 0
LapsedLeaseIsCollected == \A t \in Tasks : Lapsed(t) ~> ~Lapsed(t)

\* The queue implements the abstract lock: the owner of a key is the worker of
\* the unreleased lease on it.
KeyOf(l) == <<l.kind, IF l.kind = "task" THEN l.task ELSE RepoOf[l.task]>>
LockKeys == {<<"task", t>> : t \in Tasks} \cup {<<"repository", RepoOf[t]>> : t \in Tasks}
OwnerOf(k) ==
    IF \E l \in leases : KeyOf(l) = k
    THEN (CHOOSE l \in leases : KeyOf(l) = k).worker
    ELSE NoTask

Lock == INSTANCE LeaseLock WITH
            Keys    <- LockKeys,
            Owners  <- Workers,
            NoOwner <- NoTask,
            Bundles <- {{<<"task", t>>, <<"repository", RepoOf[t]>>} : t \in Tasks},
            owner   <- [k \in LockKeys |-> OwnerOf(k)],
            live    <- {KeyOf(l) : l \in {m \in leases : \A w \in Workers : ActiveFor(w, m)}}

\* A claim takes the task and its repository together or not at all, and never
\* from an owner whose lease is live.
ImplementsLock == Lock!Spec
=============================================================================
