-------------------------- MODULE TaskQueueProofs ---------------------------
(***************************************************************************)
(* What holds of the claim queue for any workers, tasks, clocks and TTL.   *)
(*                                                                         *)
(* The inductive invariant is the conjunction the runs of MCTaskQueue      *)
(* check.  LeaseExclusive needs only the unique indexes; the action        *)
(* properties need the two row locks of the claim transaction, hence       *)
(* CollectedRowsStayLapsed and LockedRowsAreClaimable.  The second part    *)
(* shows that the queue implements LeaseLock.                              *)
(***************************************************************************)
EXTENDS TaskQueue, TLAPS

IInv == /\ TypeOK
        /\ LeaseExclusive
        /\ CollectedRowsStayLapsed
        /\ LockedRowsAreClaimable

\* Every status a claim can write is a status, and follows the ones it claims.
LEMMA ClaimFollowsGraph ==
    /\ CanTransition("ready", "claimed")
    /\ CanTransition("claimed", "claimed")
    /\ CanTransition("review", "fixing_review")
    /\ {"ready", "review", "claimed", "fixing_review"} \subseteq Status
BY DEF CanTransition, AllowedTransitions, Status

\* Two leases with one row identity are one lease.
LEMMA SameRow ==
    ASSUME LeaseExclusive, NEW l \in leases, NEW m \in leases, RowOf(l) = RowOf(m)
    PROVE  l = m
BY DEF LeaseExclusive, RowOf, SameKey

\* The inductive invariant holds initially.
LEMMA InitIInv == Init => IInv
<1> USE QueueAssumption
<1> SUFFICES ASSUME Init PROVE IInv
  OBVIOUS
<1>1. TypeOK
  BY ClaimFollowsGraph DEF Init, TypeOK, IdleTxn, Txn
<1>2. LeaseExclusive
  BY DEF Init, LeaseExclusive
<1>3. CollectedRowsStayLapsed
  BY DEF Init, CollectedRowsStayLapsed, IdleTxn
<1>4. LockedRowsAreClaimable
  BY DEF Init, LockedRowsAreClaimable, IdleTxn
<1> QED BY <1>1, <1>2, <1>3, <1>4 DEF IInv

\* A transaction that ends without a grant: its lapsed rows go, nothing else.
LEMMA EndKeepsIInv ==
    ASSUME IInv, NEW w \in Workers,
           leases' = Kept(w) \/ leases' = leases,
           txn' = [txn EXCEPT ![w] = IdleTxn],
           UNCHANGED <<status, blocked>>
    PROVE  IInv'
<1> USE QueueAssumption DEF IInv
<1>0. leases' \subseteq leases
  BY DEF Kept
<1>1. TypeOK'
  BY <1>0 DEF TypeOK, IdleTxn, Txn
<1>2. LeaseExclusive'
  BY <1>0 DEF LeaseExclusive, SameKey
<1>3. CollectedRowsStayLapsed'
  <2> SUFFICES ASSUME NEW v \in Workers, v # w
               PROVE  /\ txn'[v].lapsed \subseteq {RowOf(l) : l \in leases'}
                      /\ \A l \in leases' : RowOf(l) \in txn'[v].lapsed => ~ActiveFor(v, l)
                      /\ \A u \in Workers \ {v} : txn'[v].lapsed \cap txn'[u].lapsed = {}
    <3>1. txn'[w].lapsed = {}
      BY DEF TypeOK, IdleTxn
    <3> QED BY <3>1 DEF CollectedRowsStayLapsed, ActiveFor, RowOf
  <2>1. txn'[v] = txn[v]
    BY DEF TypeOK
  <2>2. txn[v].lapsed \cap txn[w].lapsed = {}
    BY DEF CollectedRowsStayLapsed
  <2>3. txn'[v].lapsed \subseteq {RowOf(l) : l \in leases'}
    BY <2>1, <2>2 DEF CollectedRowsStayLapsed, Kept
  <2>4. \A l \in leases' : RowOf(l) \in txn'[v].lapsed => ~ActiveFor(v, l)
    BY <1>0, <2>1 DEF CollectedRowsStayLapsed
  <2>5. \A u \in Workers \ {v} : txn'[v].lapsed \cap txn'[u].lapsed = {}
    BY <2>1 DEF CollectedRowsStayLapsed, TypeOK, IdleTxn
  <2> QED BY <2>3, <2>4, <2>5
<1>4. LockedRowsAreClaimable'
  BY DEF LockedRowsAreClaimable, TypeOK, IdleTxn, Claimable
<1> QED BY <1>1, <1>2, <1>3, <1>4

\* Claim transaction, step 1: the rows it collects are lapsed and in no other
\* transaction's collection, because the UPDATE waits for those.
LEMMA BeginKeepsIInv ==
    ASSUME IInv, NEW w \in Workers, NEW for \in {"claim", "review"},
           NEW wanted \in SUBSET Tasks, Begin(w, for, wanted)
    PROVE  IInv'
<1> USE QueueAssumption DEF IInv
<1>1. LapsedFor(w) \subseteq RowId /\ LapsedFor(w) \subseteq {RowOf(l) : l \in leases}
  BY DEF LapsedFor, RowOf, RowId, TypeOK, Lease
<1>2. \A l \in leases : RowOf(l) \in LapsedFor(w) => ~ActiveFor(w, l)
  BY SameRow DEF LapsedFor
<1>3. \A v \in Workers : v # w => txn'[v] = txn[v]
  BY DEF Begin, TypeOK
<1>4. txn'[w].lapsed = LapsedFor(w) /\ txn'[w].phase = "selecting"
  BY DEF Begin, TypeOK, Txn
<1>5. TypeOK'
  BY <1>1 DEF Begin, TypeOK, Txn
<1>6. LeaseExclusive'
  BY DEF Begin, LeaseExclusive, SameKey
<1>7. CollectedRowsStayLapsed'
  <2>1. \A v \in Workers \ {w} : LapsedFor(w) \cap txn[v].lapsed = {}
    BY DEF Begin, RowLocked
  <2> QED BY <1>1, <1>2, <1>3, <1>4, <2>1
          DEF Begin, CollectedRowsStayLapsed, ActiveFor, RowOf
<1>8. LockedRowsAreClaimable'
  BY <1>3, <1>4 DEF Begin, LockedRowsAreClaimable, Claimable
<1> QED BY <1>5, <1>6, <1>7, <1>8

\* Claim transaction, step 2: the row it locks is in a claimable status and
\* locked by nobody else.
LEMMA LockKeepsIInv ==
    ASSUME IInv, NEW w \in Workers, LockCandidate(w)
    PROVE  IInv'
<1> USE QueueAssumption DEF IInv
<1>1. PICK t \in Lockable(w) :
        txn' = [txn EXCEPT ![w] = [@ EXCEPT !.phase = "locked", !.task = t]]
  BY DEF LockCandidate
<1>2. t \in Tasks /\ ~TaskLocked(t) /\ status[t] \in Claimable(txn[w].for)
  BY <1>1 DEF Lockable, TypeOK, Txn
<1>3. \A v \in Workers : v # w => txn'[v] = txn[v]
  BY <1>1 DEF TypeOK
<1>4. txn'[w] = [txn[w] EXCEPT !.phase = "locked", !.task = t] /\ txn[w] \in Txn
  BY <1>1 DEF TypeOK
<1>4a. /\ txn'[w].phase = "locked" /\ txn'[w].task = t
       /\ txn'[w].for = txn[w].for /\ txn'[w].lapsed = txn[w].lapsed
       /\ txn'[w] \in Txn
  <2> HIDE DEF IInv
  <2> QED BY <1>2, <1>4 DEF Txn
<1>5. TypeOK'
  <2>1. txn' \in [Workers -> Txn]
    BY <1>1, <1>3, <1>4a DEF TypeOK
  <2> QED BY <2>1 DEF LockCandidate, TypeOK
<1>6. LeaseExclusive'
  BY DEF LockCandidate, LeaseExclusive, SameKey
<1>7. CollectedRowsStayLapsed'
  <2>1. \A v \in Workers : txn'[v].lapsed = txn[v].lapsed
    BY <1>3, <1>4a
  <2> QED BY <2>1 DEF LockCandidate, CollectedRowsStayLapsed, ActiveFor, RowOf
<1>8. LockedRowsAreClaimable'
  <2>1. /\ txn'[w].phase = "locked" /\ txn'[w].task = t
        /\ txn'[w].for = txn[w].for /\ status' = status
    BY <1>4a DEF LockCandidate
  <2>2. \A v \in Workers \ {w} : txn[v].phase = "locked" => txn[v].task # t
    BY <1>2 DEF TaskLocked
  <2>3. status'[t] \in Claimable(txn'[w].for)
    BY <1>2, <2>1 DEF Claimable
  <2>4. ASSUME NEW v \in Workers, txn'[v].phase = "locked"
        PROVE  /\ txn'[v].task \in Tasks
               /\ status'[txn'[v].task] \in Claimable(txn'[v].for)
               /\ \A u \in Workers \ {v} :
                    txn'[u].phase = "locked" => txn'[u].task # txn'[v].task
    <3>1. CASE v = w
      BY <3>1, <1>2, <1>3, <2>1, <2>2, <2>3
    <3>2. CASE v # w
      BY <3>2, <2>4, <1>3, <2>1, <2>2 DEF LockedRowsAreClaimable
    <3> QED BY <3>1, <3>2
  <2> QED BY <2>4 DEF LockedRowsAreClaimable, Claimable
<1> QED BY <1>5, <1>6, <1>7, <1>8

\* Claim transaction, step 3: the two inserted leases meet no unreleased lease
\* on their keys, and hit no row another transaction has collected.
LEMMA GrantKeepsIInv ==
    ASSUME IInv, NEW w \in Workers, Grant(w)
    PROVE  IInv'
<1> USE QueueAssumption DEF IInv
<1>0. txn[w].task \in Tasks /\ txn[w].phase = "locked"
  BY DEF Grant, LockedRowsAreClaimable
<1>1. NewLeases(w) \subseteq Lease /\ Kept(w) \subseteq leases
  BY <1>0 DEF NewLeases, LeasePair, Kept, Lease, LeaseKinds
<1>2. \A v \in Workers : v # w => txn'[v] = txn[v]
  BY DEF Grant, TypeOK
<1>3. txn'[w] = IdleTxn
  BY DEF Grant, TypeOK
<1>4. TypeOK'
  BY <1>1, ClaimFollowsGraph DEF Grant, TypeOK, IdleTxn, Txn
<1>5. LeaseExclusive'
  <2>1. \A l, m \in NewLeases(w) : SameKey(l, m) => l = m
    BY DEF NewLeases, LeasePair, SameKey
  <2>2. \A l \in NewLeases(w), m \in Kept(w) : ~SameKey(l, m) /\ ~SameKey(m, l)
    BY DEF Grant, Insertable, SameKey
  <2>3. \A l, m \in Kept(w) : SameKey(l, m) => l = m
    BY <1>1 DEF LeaseExclusive
  <2>4. \A l, m \in leases' : SameKey(l, m) => l = m
    BY <2>1, <2>2, <2>3 DEF Grant
  <2> QED BY <2>4 DEF LeaseExclusive, SameKey
<1>6. CollectedRowsStayLapsed'
  <2> SUFFICES ASSUME NEW v \in Workers, v # w
               PROVE  /\ txn[v].lapsed \subseteq {RowOf(l) : l \in leases'}
                      /\ \A l \in leases' : RowOf(l) \in txn[v].lapsed => ~ActiveFor(v, l)
    <3>1. txn'[w].lapsed = {}
      BY <1>3 DEF IdleTxn
    <3> QED BY <3>1, <1>2 DEF CollectedRowsStayLapsed, ActiveFor, RowOf
  <2>1. txn[v].lapsed \cap txn[w].lapsed = {}
    BY DEF CollectedRowsStayLapsed
  <2>2. txn[v].lapsed \subseteq {RowOf(l) : l \in Kept(w)}
    BY <2>1 DEF CollectedRowsStayLapsed, Kept
  <2>3. \A l \in NewLeases(w) : RowOf(l) \notin txn[v].lapsed
    BY <2>2 DEF Grant, Insertable, RowOf, SameKey
  <2> QED BY <2>2, <2>3, <1>1 DEF Grant, CollectedRowsStayLapsed
<1>7. LockedRowsAreClaimable'
  <2>1. \A v \in Workers : v # w /\ txn[v].phase = "locked"
          => txn[v].task # txn[w].task /\ status'[txn[v].task] = status[txn[v].task]
    BY <1>0 DEF LockedRowsAreClaimable, Grant, TypeOK
  <2> QED BY <1>2, <1>3, <2>1 DEF LockedRowsAreClaimable, IdleTxn, Claimable
<1> QED BY <1>4, <1>5, <1>6, <1>7

\* Holding a lease: a heartbeat renews no row a transaction has collected.
LEMMA HeartbeatKeepsIInv ==
    ASSUME IInv, NEW w \in Workers, NEW l \in leases, Heartbeat(w, l)
    PROVE  IInv'
<1> USE QueueAssumption DEF IInv
<1> DEFINE renewed == [l EXCEPT !.left = Ttl + Skew[w]]
<1>0. /\ renewed \in Lease /\ RowOf(renewed) = RowOf(l)
      /\ renewed.kind = l.kind /\ renewed.task = l.task
      /\ leases' = (leases \ {l}) \cup {renewed}
  BY DEF Heartbeat, TypeOK, Lease, RowOf
<1> HIDE DEF renewed
<1>1. TypeOK'
  BY <1>0 DEF Heartbeat, TypeOK
<1>2. LeaseExclusive'
  BY <1>0 DEF LeaseExclusive, SameKey
<1>3. CollectedRowsStayLapsed'
  <2>1. {RowOf(m) : m \in leases'} = {RowOf(m) : m \in leases}
    BY <1>0
  <2>2. \A v \in Workers : RowOf(l) \notin txn[v].lapsed
    BY DEF Heartbeat, RowLocked
  <2>3. \A v \in Workers, m \in leases' : RowOf(m) \in txn[v].lapsed => m \in leases
    BY <1>0, <2>2
  <2>4. txn' = txn
    BY DEF Heartbeat
  <2>5. ASSUME NEW v \in Workers
        PROVE  /\ txn'[v].lapsed \subseteq {RowOf(m) : m \in leases'}
               /\ \A m \in leases' : RowOf(m) \in txn'[v].lapsed => ~ActiveFor(v, m)
               /\ \A u \in Workers \ {v} : txn'[v].lapsed \cap txn'[u].lapsed = {}
    BY <2>1, <2>3, <2>4 DEF CollectedRowsStayLapsed
  <2> QED BY <2>5 DEF CollectedRowsStayLapsed, ActiveFor, RowOf
<1>4. LockedRowsAreClaimable'
  BY DEF Heartbeat, LockedRowsAreClaimable, Claimable
<1> QED BY <1>1, <1>2, <1>3, <1>4

\* Holding a lease: a release removes no row a transaction has collected.
LEMMA ReleaseKeepsIInv ==
    ASSUME IInv, NEW w \in Workers, NEW l \in leases, Release(w, l)
    PROVE  IInv'
<1> USE QueueAssumption DEF IInv
<1>1. TypeOK'
  BY DEF Release, TypeOK
<1>2. LeaseExclusive'
  BY DEF Release, LeaseExclusive, SameKey
<1>3. CollectedRowsStayLapsed'
  <2>1. \A v \in Workers : RowOf(l) \notin txn[v].lapsed
    BY DEF Release, RowLocked
  <2>2. \A v \in Workers : txn[v].lapsed \subseteq {RowOf(m) : m \in leases'}
    BY <2>1 DEF Release, CollectedRowsStayLapsed
  <2> QED BY <2>2 DEF Release, CollectedRowsStayLapsed, ActiveFor, RowOf
<1>4. LockedRowsAreClaimable'
  BY DEF Release, LockedRowsAreClaimable, Claimable
<1> QED BY <1>1, <1>2, <1>3, <1>4

\* The other callers: setStatus stays off the locked rows, a dependency and
\* the clock touch no lock.
LEMMA OtherKeepsIInv ==
    ASSUME IInv, OtherStep
    PROVE  IInv'
<1> USE QueueAssumption DEF IInv
<1>1. ASSUME NEW t \in Tasks, NEW s \in Requested, SetStatus(t, s) PROVE IInv'
  <2>1. TypeOK'
    BY <1>1 DEF SetStatus, TypeOK
  <2>2. LeaseExclusive' /\ CollectedRowsStayLapsed'
    BY <1>1 DEF SetStatus, LeaseExclusive, SameKey, CollectedRowsStayLapsed,
                ActiveFor, RowOf
  <2>3. LockedRowsAreClaimable'
    BY <1>1 DEF SetStatus, TaskLocked, LockedRowsAreClaimable, Claimable, TypeOK
  <2> QED BY <2>1, <2>2, <2>3
<1>2. ASSUME NEW t \in Tasks, AddDependency(t) PROVE IInv'
  BY <1>2 DEF AddDependency, TypeOK, LeaseExclusive, SameKey, CollectedRowsStayLapsed,
              ActiveFor, RowOf, LockedRowsAreClaimable, Claimable
<1>3. ASSUME Tick PROVE IInv'
  <2> DEFINE older(l) == [l EXCEPT !.left = IF l.left > 0 THEN l.left - 1 ELSE 0]
  <2>1. leases' = {older(l) : l \in leases}
    BY <1>3 DEF Tick
  <2>2. \A l \in leases : /\ older(l) \in Lease /\ RowOf(older(l)) = RowOf(l)
                          /\ older(l).kind = l.kind /\ older(l).task = l.task
                          /\ older(l).left <= l.left
    BY DEF TypeOK, Lease, RowOf
  <2> HIDE DEF older
  <2>3. TypeOK'
    BY <1>3, <2>1, <2>2 DEF Tick, TypeOK
  <2>4. LeaseExclusive'
    BY <2>1, <2>2 DEF LeaseExclusive, SameKey
  <2>5. CollectedRowsStayLapsed'
    <3>1. txn' = txn
      BY <1>3 DEF Tick
    <3>2. {RowOf(m) : m \in leases'} = {RowOf(m) : m \in leases}
      BY <2>1, <2>2
    <3>3. ASSUME NEW v \in Workers, NEW l \in leases, RowOf(older(l)) \in txn[v].lapsed
          PROVE  ~ActiveFor(v, older(l))
      <4>1. ~ActiveFor(v, l)
        BY <3>3, <2>2 DEF CollectedRowsStayLapsed
      <4>2. l.left \in Nat /\ older(l).left \in Nat /\ Skew[v] \in Nat
        BY <2>2 DEF TypeOK, Lease
      <4> QED BY <4>1, <4>2, <2>2 DEF ActiveFor
    <3>4. ASSUME NEW v \in Workers
          PROVE  /\ txn'[v].lapsed \subseteq {RowOf(m) : m \in leases'}
                 /\ \A m \in leases' : RowOf(m) \in txn'[v].lapsed => ~ActiveFor(v, m)
                 /\ \A u \in Workers \ {v} : txn'[v].lapsed \cap txn'[u].lapsed = {}
      BY <2>1, <3>1, <3>2, <3>3 DEF CollectedRowsStayLapsed
    <3> QED BY <3>4 DEF CollectedRowsStayLapsed, ActiveFor, RowOf
  <2>6. LockedRowsAreClaimable'
    BY <1>3 DEF Tick, LockedRowsAreClaimable, Claimable
  <2> QED BY <2>3, <2>4, <2>5, <2>6
<1> QED BY <1>1, <1>2, <1>3 DEF OtherStep

\* Every step keeps the inductive invariant.
LEMMA NextKeepsIInv == IInv /\ [Next]_queueVars => IInv'
<1> SUFFICES ASSUME IInv, [Next]_queueVars PROVE IInv'
  OBVIOUS
<1>1. ASSUME NEW w \in Workers, ClaimStep(w) PROVE IInv'
  <2>1. CASE ClaimNextTask(w)
    BY <2>1, BeginKeepsIInv DEF ClaimNextTask
  <2>2. ASSUME NEW t \in Tasks, ClaimReviewTask(w, t) PROVE IInv'
    BY <2>2, BeginKeepsIInv DEF ClaimReviewTask
  <2>3. CASE LockCandidate(w)
    BY <2>3, LockKeepsIInv
  <2>4. CASE NoCandidate(w) \/ Refuse(w) \/ Rollback(w)
    BY <2>4, EndKeepsIInv DEF NoCandidate, Refuse, Rollback
  <2>5. CASE Grant(w)
    BY <2>5, GrantKeepsIInv
  <2> QED BY <1>1, <2>1, <2>2, <2>3, <2>4, <2>5 DEF ClaimStep
<1>2. ASSUME NEW w \in Workers, HoldStep(w) PROVE IInv'
  BY <1>2, HeartbeatKeepsIInv, ReleaseKeepsIInv DEF HoldStep
<1>3. CASE OtherStep
  BY <1>3, OtherKeepsIInv
<1>4. CASE UNCHANGED queueVars
  BY <1>4 DEF queueVars, IInv, TypeOK, LeaseExclusive, SameKey, CollectedRowsStayLapsed,
              ActiveFor, RowOf, LockedRowsAreClaimable, Claimable
<1> QED BY <1>1, <1>2, <1>3, <1>4 DEF Next

-----------------------------------------------------------------------------
\* The inductive invariant holds in every reachable state.
THEOREM QueueInvariant == Spec => []IInv
BY InitIInv, NextKeepsIInv, PTL DEF Spec

\* Type correctness of the queue's tables and open transactions.
THEOREM TypeCorrect == Spec => []TypeOK
BY QueueInvariant, PTL DEF IInv

\* At most one unreleased lease per task and per repository key, for any
\* number of workers, any interleaving of their claims and any clock skew.
THEOREM Exclusion == Spec => []LeaseExclusive
BY QueueInvariant, PTL DEF IInv

\* A row collected by a claim stays lapsed on that claim's clock until commit.
THEOREM CollectedStayLapsed == Spec => []CollectedRowsStayLapsed
BY QueueInvariant, PTL DEF IInv

\* The task a claim has locked stays claimable until the claim writes it.
THEOREM LockedStayClaimable == Spec => []LockedRowsAreClaimable
BY QueueInvariant, PTL DEF IInv

\* No claim, and nothing else but its owner, removes a lease that is live on
\* every clock.
THEOREM NoStealing == Spec => NoLiveLeaseStolen
<1> DEFINE Kind(l) == \/ RowOf(l) \in {RowOf(m) : m \in leases'}
                      \/ \E w \in Workers : ~ActiveFor(w, l)
                      \/ Release(l.worker, l)
<1>1. ASSUME IInv, [Next]_queueVars PROVE [\A l \in leases : Kind(l)]_queueVars
  <2> USE <1>1 DEF IInv
  <2> SUFFICES ASSUME NEW l \in leases PROVE UNCHANGED queueVars \/ Kind(l)
    OBVIOUS
  <2>1. ASSUME NEW w \in Workers, leases' = Kept(w) \/ leases' = Kept(w) \cup NewLeases(w)
        PROVE  Kind(l)
    BY <2>1 DEF CollectedRowsStayLapsed, Kept
  <2>2. ASSUME NEW w \in Workers, ClaimStep(w) PROVE Kind(l)
    BY <2>2, <2>1 DEF ClaimStep, ClaimNextTask, ClaimReviewTask, Begin, LockCandidate,
                      NoCandidate, Refuse, Grant, Rollback
  <2>3. ASSUME NEW w \in Workers, NEW m \in leases, Heartbeat(w, m) PROVE Kind(l)
    <3> DEFINE renewed == [m EXCEPT !.left = Ttl + Skew[w]]
    <3>1. renewed \in leases' /\ (l # m => l \in leases')
      BY <2>3 DEF Heartbeat
    <3>2. RowOf(renewed) = RowOf(m)
      BY DEF TypeOK, Lease, RowOf
    <3> QED BY <3>1, <3>2
  <2>4. ASSUME NEW w \in Workers, NEW m \in leases, Release(w, m) PROVE Kind(l)
    BY <2>4 DEF Release
  <2>5. CASE OtherStep
    <3>1. CASE Tick
      <4>1. [l EXCEPT !.left = IF l.left > 0 THEN l.left - 1 ELSE 0] \in leases'
        BY <3>1 DEF Tick
      <4>2. RowOf([l EXCEPT !.left = IF l.left > 0 THEN l.left - 1 ELSE 0]) = RowOf(l)
        BY DEF TypeOK, Lease, RowOf
      <4> QED BY <4>1, <4>2
    <3>2. CASE leases' = leases
      BY <3>2
    <3> QED BY <2>5, <3>1, <3>2 DEF OtherStep, SetStatus, AddDependency
  <2> QED BY <2>2, <2>3, <2>4, <2>5 DEF Next, HoldStep
<1>2. [][\A l \in leases : Kind(l)]_queueVars => NoLiveLeaseStolen
  BY DEF NoLiveLeaseStolen
<1> QED BY <1>1, <1>2, QueueInvariant, PTL DEF Spec

\* The claim's unconditional status write never leaves the lifecycle graph.
THEOREM GraphFollowed == Spec => StatusFollowsGraph
<1> DEFINE Follows == \A t \in Tasks : CanTransition(status[t], status'[t])
<1>1. ASSUME IInv, [Next]_queueVars PROVE [Follows]_queueVars
  <2> USE <1>1 DEF IInv
  <2>0. CASE status' = status
    BY <2>0 DEF CanTransition
  <2>1. ASSUME NEW w \in Workers, Grant(w) PROVE Follows
    <3>1. /\ txn[w].task \in Tasks
          /\ status[txn[w].task] \in Claimable(txn[w].for)
          /\ txn[w].for \in {"claim", "review"}
      BY <2>1 DEF Grant, LockedRowsAreClaimable, TypeOK, Txn
    <3>2. CanTransition(status[txn[w].task],
                        IF txn[w].for = "claim" THEN "claimed" ELSE "fixing_review")
      BY <3>1, ClaimFollowsGraph DEF Claimable
    <3> QED BY <2>1, <3>1, <3>2 DEF Grant, TypeOK, CanTransition
  <2>2. ASSUME NEW t \in Tasks, NEW s \in Requested, SetStatus(t, s) PROVE Follows
    BY <2>2 DEF SetStatus, TypeOK, CanTransition
  <2> QED
    BY <2>0, <2>1, <2>2
       DEF Next, ClaimStep, ClaimNextTask, ClaimReviewTask, Begin, LockCandidate, NoCandidate,
           Refuse, Rollback, HoldStep, Heartbeat, Release, OtherStep, AddDependency, Tick,
           queueVars
<1>2. [][Follows]_queueVars => StatusFollowsGraph
  BY DEF StatusFollowsGraph
<1> QED BY <1>1, <1>2, QueueInvariant, PTL DEF Spec

-----------------------------------------------------------------------------
(* The lock.  The owner of a key is the worker of the unreleased lease on  *)
(* it, which LeaseExclusive makes unique, and a key is live while its      *)
(* lease is live on every clock.  A grant is an Acquire of a task with its *)
(* repository; the end of a claim that got nothing is a Drop; a heartbeat  *)
(* is a Renew, or an Expire when some clock runs ahead by more than the    *)
(* TTL; a release is a GiveUp and a tick an Expire.  Everything else       *)
(* leaves the lock alone.                                                  *)

\* The lock's state in a state of the queue.
owners == [k \in LockKeys |-> OwnerOf(k)]
LiveOnAll(l) == \A w \in Workers : ActiveFor(w, l)
liveKeys == {KeyOf(l) : l \in {m \in leases : LiveOnAll(m)}}
Bundle(t) == {<<"task", t>>, <<"repository", RepoOf[t]>>}

\* Two rows are on one key of the lock exactly when a unique index would
\* refuse the second.
LEMMA KeyIsIndexed ==
    ASSUME NEW l \in Lease, NEW m \in Lease
    PROVE  SameKey(l, m) <=> KeyOf(l) = KeyOf(m)
BY DEF SameKey, KeyOf, Lease, LeaseKinds

\* A lease is on a key of the lock.
LEMMA KeyInLock == ASSUME NEW l \in Lease PROVE KeyOf(l) \in LockKeys
BY DEF KeyOf, LockKeys, Lease, LeaseKinds

\* No two unreleased leases share a key.
LEMMA OneLeasePerKey ==
    ASSUME IInv, NEW l \in leases, NEW m \in leases, KeyOf(l) = KeyOf(m)
    PROVE  l = m
BY KeyIsIndexed DEF IInv, TypeOK, LeaseExclusive

\* The owner of a key is the worker of its lease, and NoTask if it has none.
OwnersHold ==
    /\ owners \in [LockKeys -> Workers \cup {NoTask}]
    /\ \A l \in leases : KeyOf(l) \in LockKeys /\ owners[KeyOf(l)] = l.worker
    /\ \A k \in LockKeys : (\A l \in leases : KeyOf(l) # k) => owners[k] = NoTask

LEMMA OwnerIsHolder == IInv => OwnersHold
<1> SUFFICES ASSUME IInv PROVE OwnersHold
  OBVIOUS
<1>1. ASSUME NEW l \in leases
      PROVE  OwnerOf(KeyOf(l)) = l.worker /\ KeyOf(l) \in LockKeys /\ l.worker \in Workers
  <2>1. (CHOOSE m \in leases : KeyOf(m) = KeyOf(l)) = l
    BY OneLeasePerKey
  <2> QED BY <2>1, KeyInLock DEF OwnerOf, IInv, TypeOK, Lease
<1>2. \A k \in LockKeys : (\A l \in leases : KeyOf(l) # k) => OwnerOf(k) = NoTask
  BY DEF OwnerOf
<1>3. \A k \in LockKeys : OwnerOf(k) \in Workers \cup {NoTask}
  <2> SUFFICES ASSUME NEW k \in LockKeys PROVE OwnerOf(k) \in Workers \cup {NoTask}
    OBVIOUS
  <2>1. CASE \A l \in leases : KeyOf(l) # k
    BY <2>1, <1>2
  <2>2. ASSUME NEW l \in leases, KeyOf(l) = k PROVE OwnerOf(k) \in Workers
    BY <2>2, <1>1
  <2> QED BY <2>1, <2>2
<1> QED BY <1>1, <1>2, <1>3 DEF OwnersHold, owners

\* The same in the next state.
LEMMA OwnerIsHolderNext == IInv' => OwnersHold'
BY OwnerIsHolder, PTL

\* Live keys are those of live leases, and a live lease makes its key live.
LEMMA LiveKey ==
    ASSUME IInv, NEW l \in leases
    PROVE  KeyOf(l) \in liveKeys <=> LiveOnAll(l)
BY OneLeasePerKey DEF liveKeys

-----------------------------------------------------------------------------
\* A step that leaves the leases alone leaves the lock alone.
LEMMA SameLeases ==
    ASSUME leases' = leases
    PROVE  owners' = owners /\ liveKeys' = liveKeys
BY DEF owners, OwnerOf, liveKeys, LiveOnAll, ActiveFor, KeyOf

\* What a claim leaves when it ends: the collected rows are gone, the live
\* keys are all still there.
LEMMA CollectionDrops ==
    ASSUME IInv, NEW w \in Workers
    PROVE  /\ Kept(w) \subseteq leases
           /\ \A l \in leases \ Kept(w) : ~LiveOnAll(l)
           /\ {KeyOf(l) : l \in {m \in Kept(w) : LiveOnAll(m)}} = liveKeys
<1>1. Kept(w) \subseteq leases
  BY DEF Kept
<1>2. \A l \in leases \ Kept(w) : ~LiveOnAll(l)
  BY DEF Kept, IInv, CollectedRowsStayLapsed, LiveOnAll
<1> QED BY <1>1, <1>2 DEF liveKeys

\* A claim that ends with nothing drops keys that are not live.
LEMMA EndIsDrop ==
    ASSUME IInv, IInv', NEW w \in Workers, leases' = Kept(w)
    PROVE  Lock!Drop
<1>1. OwnersHold /\ OwnersHold'
  BY OwnerIsHolder, OwnerIsHolderNext
<1>2. liveKeys' = liveKeys
  <2>1. liveKeys' = {KeyOf(l) : l \in {m \in Kept(w) : LiveOnAll(m)}}
    BY DEF liveKeys, KeyOf, LiveOnAll, ActiveFor
  <2> QED BY <2>1, CollectionDrops
<1>3. ASSUME NEW k \in LockKeys
      PROVE  owners'[k] = owners[k] \/ (k \notin liveKeys /\ owners'[k] = NoTask)
  <2>1. CASE \A l \in leases : KeyOf(l) # k
    BY <2>1, <1>1, CollectionDrops DEF OwnersHold, KeyOf
  <2>2. ASSUME NEW l \in leases, KeyOf(l) = k, l \in leases'
        PROVE  owners'[k] = owners[k]
    <3>1. owners'[KeyOf(l)] = l.worker
      BY <2>2, <1>1 DEF OwnersHold, KeyOf
    <3> QED BY <2>2, <3>1, <1>1 DEF OwnersHold
  <2>3. ASSUME NEW l \in leases, KeyOf(l) = k, l \notin leases'
        PROVE  k \notin liveKeys /\ owners'[k] = NoTask
    <3>1. k \notin liveKeys
      BY <2>3, LiveKey, CollectionDrops
    <3>2. \A m \in leases' : KeyOf(m) # k
      BY <2>3, OneLeasePerKey, CollectionDrops
    <3> QED BY <3>1, <3>2, <1>1 DEF OwnersHold, KeyOf
  <2> QED BY <2>1, <2>2, <2>3
<1> QED BY <1>1, <1>2, <1>3 DEF Lock!Drop, Lock!KeptOrDropped, OwnersHold, owners, liveKeys, LiveOnAll

\* A grant acquires a task with its repository, neither of them live, and
\* starts both terms together.
LEMMA GrantIsAcquire ==
    ASSUME IInv, IInv', NEW w \in Workers, Grant(w)
    PROVE  Lock!Acquire(w, Bundle(txn[w].task)) /\ txn[w].task \in Tasks
<1> DEFINE t == txn[w].task
           K == Bundle(t)
<1>0. t \in Tasks /\ leases' = Kept(w) \cup NewLeases(w) /\ Insertable(w)
  BY DEF Grant, IInv, LockedRowsAreClaimable
<1>1. OwnersHold /\ OwnersHold'
  BY OwnerIsHolder, OwnerIsHolderNext
<1>2. /\ K = {KeyOf(n) : n \in NewLeases(w)}
      /\ \A n \in NewLeases(w) : n.worker = w /\ n.left = Ttl + Skew[w] /\ n \in Lease
  <2> DEFINE row(k) == [kind |-> k, task |-> t, worker |-> w, left |-> Ttl + Skew[w]]
  <2>1. NewLeases(w) = {row("task"), row("repository")}
    BY DEF NewLeases, LeasePair, LeaseKinds
  <2>2. KeyOf(row("task")) = <<"task", t>> /\ KeyOf(row("repository")) = <<"repository", RepoOf[t]>>
    BY DEF KeyOf
  <2>3. \A k \in LeaseKinds : row(k) \in Lease /\ row(k).worker = w /\ row(k).left = Ttl + Skew[w]
    BY <1>0, QueueAssumption DEF Lease
  <2> HIDE DEF row
  <2> QED BY <2>1, <2>2, <2>3 DEF Bundle, LeaseKinds
<1> HIDE DEF t, K
<1>3. \A m \in Kept(w) : KeyOf(m) \notin K
  <2>1. Kept(w) \subseteq Lease
    BY CollectionDrops DEF IInv, TypeOK
  <2> QED BY <1>0, <1>2, <2>1, KeyIsIndexed DEF Insertable
<1>4. K \cap liveKeys = {}
  BY <1>3, CollectionDrops
<1>5. \A k \in K : k \in LockKeys /\ owners'[k] = w
  <2> SUFFICES ASSUME NEW n \in NewLeases(w)
               PROVE  KeyOf(n) \in LockKeys /\ owners'[KeyOf(n)] = w
    BY <1>2
  <2>1. n \in leases' /\ n.worker = w
    BY <1>0, <1>2
  <2> QED BY <2>1, <1>1 DEF OwnersHold, KeyOf
<1>6. ASSUME NEW k \in LockKeys \ K
      PROVE  owners'[k] = owners[k] \/ (k \notin liveKeys /\ owners'[k] = NoTask)
  <2>0. \A l \in leases' : KeyOf(l) = k => l \in Kept(w)
    BY <1>0, <1>2
  <2>1. CASE \A l \in leases : KeyOf(l) # k
    BY <2>0, <2>1, <1>1, CollectionDrops DEF OwnersHold, KeyOf
  <2>2. ASSUME NEW l \in leases, KeyOf(l) = k, l \in Kept(w)
        PROVE  owners'[k] = owners[k]
    <3>1. owners'[KeyOf(l)] = l.worker
      BY <2>2, <1>0, <1>1 DEF OwnersHold, KeyOf
    <3> QED BY <2>2, <3>1, <1>1 DEF OwnersHold
  <2>3. ASSUME NEW l \in leases, KeyOf(l) = k, l \notin Kept(w)
        PROVE  k \notin liveKeys /\ owners'[k] = NoTask
    <3>1. k \notin liveKeys
      BY <2>3, LiveKey, CollectionDrops
    <3>2. \A m \in leases' : KeyOf(m) # k
      BY <2>0, <2>3, OneLeasePerKey, CollectionDrops
    <3> QED BY <3>1, <3>2, <1>1 DEF OwnersHold, KeyOf
  <2> QED BY <2>1, <2>2, <2>3
<1>7. liveKeys' \in {liveKeys, liveKeys \cup K}
  <2>1. liveKeys' = {KeyOf(l) : l \in {m \in Kept(w) \cup NewLeases(w) : LiveOnAll(m)}}
    BY <1>0 DEF liveKeys, KeyOf, LiveOnAll, ActiveFor
  <2>2. CASE \A n \in NewLeases(w) : LiveOnAll(n)
    <3>1. liveKeys' = {KeyOf(l) : l \in {m \in Kept(w) : LiveOnAll(m)}} \cup K
      BY <2>1, <2>2, <1>2
    <3> QED BY <3>1, CollectionDrops
  <2>3. CASE \A n \in NewLeases(w) : ~LiveOnAll(n)
    <3>1. liveKeys' = {KeyOf(l) : l \in {m \in Kept(w) : LiveOnAll(m)}}
      BY <2>1, <2>3
    <3> QED BY <3>1, CollectionDrops
  <2>4. \A m, n \in NewLeases(w) : LiveOnAll(m) => LiveOnAll(n)
    BY <1>2 DEF LiveOnAll, ActiveFor
  <2> QED BY <2>2, <2>3, <2>4
<1>8. owners' \in [LockKeys -> Workers \cup {NoTask}]
  BY <1>1 DEF OwnersHold
<1> QED
  BY <1>0, <1>4, <1>5, <1>6, <1>7, <1>8
  DEF Lock!Acquire, Lock!KeptOrDropped, owners, liveKeys, LiveOnAll, K, t

\* A heartbeat renews its key's term, or on a clock too far ahead lets it end.
LEMMA HeartbeatIsRenew ==
    ASSUME IInv, IInv', NEW w \in Workers, NEW l \in leases, Heartbeat(w, l)
    PROVE  Lock!Renew(KeyOf(l)) \/ Lock!Expire
<1> DEFINE r == [l EXCEPT !.left = Ttl + Skew[w]]
<1>1. /\ leases' = (leases \ {l}) \cup {r} /\ l.worker = w
      /\ KeyOf(r) = KeyOf(l) /\ r.worker = l.worker
  BY DEF Heartbeat, KeyOf, IInv, TypeOK, Lease
<1> HIDE DEF r
<1>2. OwnersHold /\ OwnersHold'
  BY OwnerIsHolder, OwnerIsHolderNext
<1>3. owners' = owners
  <2> SUFFICES ASSUME NEW k \in LockKeys PROVE owners'[k] = owners[k]
    BY <1>2 DEF OwnersHold
  <2>1. CASE \A m \in leases : KeyOf(m) # k
    BY <2>1, <1>1, <1>2 DEF OwnersHold, KeyOf
  <2>2. ASSUME NEW m \in leases, KeyOf(m) = k PROVE owners'[k] = owners[k]
    <3>1. PICK n \in leases' : KeyOf(n) = k /\ n.worker = m.worker
      BY <1>1, <2>2
    <3> QED BY <2>2, <3>1, <1>2 DEF OwnersHold, KeyOf
  <2> QED BY <2>1, <2>2
<1>4. owners[KeyOf(l)] # NoTask
  BY <1>1, <1>2, QueueAssumption DEF OwnersHold
<1>5. liveKeys' = {KeyOf(m) : m \in {n \in (leases \ {l}) \cup {r} : LiveOnAll(n)}}
  BY <1>1 DEF liveKeys, KeyOf, LiveOnAll, ActiveFor
<1>6. CASE LiveOnAll(r)
  <2>1. liveKeys' = liveKeys \cup {KeyOf(l)}
    BY <1>1, <1>5, <1>6 DEF liveKeys
  <2> QED BY <2>1, <1>3, <1>4 DEF Lock!Renew, owners, liveKeys, LiveOnAll
<1>7. CASE ~LiveOnAll(r)
  <2>1. liveKeys' \subseteq liveKeys
    BY <1>5, <1>7 DEF liveKeys
  <2> QED BY <2>1, <1>3 DEF Lock!Expire, owners, liveKeys, LiveOnAll
<1> QED BY <1>6, <1>7

\* A release gives its key up.
LEMMA ReleaseIsGiveUp ==
    ASSUME IInv, IInv', NEW w \in Workers, NEW l \in leases, Release(w, l)
    PROVE  Lock!GiveUp(KeyOf(l)) /\ KeyOf(l) \in LockKeys
<1>1. leases' = leases \ {l}
  BY DEF Release
<1>2. OwnersHold /\ OwnersHold'
  BY OwnerIsHolder, OwnerIsHolderNext
<1>3. \A m \in leases : KeyOf(m) = KeyOf(l) => m = l
  BY OneLeasePerKey
<1>4. ASSUME NEW k \in LockKeys
      PROVE  owners'[k] = IF k = KeyOf(l) THEN NoTask ELSE owners[k]
  <2>1. CASE \A m \in leases' : KeyOf(m) # k
    BY <2>1, <1>1, <1>2 DEF OwnersHold, KeyOf
  <2>2. ASSUME NEW m \in leases', KeyOf(m) = k
        PROVE  owners'[k] = owners[k] /\ k # KeyOf(l)
    BY <2>2, <1>1, <1>2, <1>3 DEF OwnersHold, KeyOf
  <2> QED BY <2>1, <2>2
<1>5. owners' = [owners EXCEPT ![KeyOf(l)] = NoTask]
  BY <1>2, <1>4 DEF OwnersHold
<1>6. liveKeys' = liveKeys \ {KeyOf(l)}
  <2>1. liveKeys' = {KeyOf(m) : m \in {n \in leases \ {l} : LiveOnAll(n)}}
    BY <1>1 DEF liveKeys, KeyOf, LiveOnAll, ActiveFor
  <2> QED BY <2>1, <1>3 DEF liveKeys
<1> QED BY <1>2, <1>5, <1>6 DEF Lock!GiveUp, OwnersHold, owners, liveKeys, LiveOnAll

\* A tick ends terms and changes no owner.
LEMMA TickIsExpire ==
    ASSUME IInv, IInv', Tick
    PROVE  Lock!Expire
<1> DEFINE older(l) == [l EXCEPT !.left = IF l.left > 0 THEN l.left - 1 ELSE 0]
<1>1. leases' = {older(l) : l \in leases}
  BY DEF Tick
<1>2. \A l \in leases : /\ KeyOf(older(l)) = KeyOf(l)
                        /\ older(l).worker = l.worker
                        /\ older(l).left <= l.left
                        /\ l.left \in Nat /\ older(l).left \in Nat
  BY DEF IInv, TypeOK, Lease, KeyOf
<1> HIDE DEF older
<1>3. OwnersHold /\ OwnersHold'
  BY OwnerIsHolder, OwnerIsHolderNext
<1>4. owners' = owners
  <2> SUFFICES ASSUME NEW k \in LockKeys PROVE owners'[k] = owners[k]
    BY <1>3 DEF OwnersHold
  <2>1. CASE \A m \in leases : KeyOf(m) # k
    BY <2>1, <1>1, <1>2, <1>3 DEF OwnersHold, KeyOf
  <2>2. ASSUME NEW m \in leases, KeyOf(m) = k PROVE owners'[k] = owners[k]
    <3>1. older(m) \in leases' /\ KeyOf(older(m)) = k /\ older(m).worker = m.worker
      BY <1>1, <1>2, <2>2
    <3> QED BY <2>2, <3>1, <1>3 DEF OwnersHold, KeyOf
  <2> QED BY <2>1, <2>2
<1>5. liveKeys' \subseteq liveKeys
  <2>1. liveKeys' = {KeyOf(m) : m \in {n \in {older(l) : l \in leases} : LiveOnAll(n)}}
    BY <1>1 DEF liveKeys, KeyOf, LiveOnAll, ActiveFor
  <2>2. \A l \in leases : LiveOnAll(older(l)) => LiveOnAll(l)
    BY <1>2, QueueAssumption DEF LiveOnAll, ActiveFor
  <2> QED BY <2>1, <2>2, <1>2 DEF liveKeys
<1> QED BY <1>4, <1>5 DEF Lock!Expire, owners, liveKeys, LiveOnAll

-----------------------------------------------------------------------------
\* Every step of the queue is a step of the lock, or leaves it alone.
LEMMA StepImplementsLock ==
    IInv /\ IInv' /\ [Next]_queueVars => [Lock!Next]_(Lock!lockVars)
<1> SUFFICES ASSUME IInv, IInv', [Next]_queueVars
             PROVE  Lock!Next \/ UNCHANGED Lock!lockVars
  OBVIOUS
<1> DEFINE Goal == Lock!Next \/ UNCHANGED Lock!lockVars
<1>1. CASE leases' = leases
  BY <1>1, SameLeases DEF Lock!lockVars, owners, liveKeys, LiveOnAll
<1>2. ASSUME NEW w \in Workers, leases' = Kept(w) PROVE Goal
  BY <1>2, EndIsDrop DEF Lock!Next
<1>3. ASSUME NEW w \in Workers, Grant(w) PROVE Goal
  BY <1>3, GrantIsAcquire DEF Lock!Next, Bundle
<1>4. ASSUME NEW w \in Workers, NEW l \in leases, Heartbeat(w, l) \/ Release(w, l)
      PROVE  Goal
  <2>1. KeyOf(l) \in LockKeys
    BY KeyInLock DEF IInv, TypeOK
  <2> QED BY <1>4, <2>1, HeartbeatIsRenew, ReleaseIsGiveUp DEF Lock!Next
<1>5. CASE Tick
  BY <1>5, TickIsExpire DEF Lock!Next
<1>6. ASSUME NEW w \in Workers, ClaimStep(w) PROVE Goal
  <2> HIDE DEF Goal
  <2>1. CASE NoCandidate(w) \/ Refuse(w)
    BY <2>1, <1>2 DEF NoCandidate, Refuse
  <2>2. CASE ClaimNextTask(w) \/ (\E t \in Tasks : ClaimReviewTask(w, t))
             \/ LockCandidate(w) \/ Rollback(w)
    <3>1. leases' = leases
      BY <2>2 DEF ClaimNextTask, ClaimReviewTask, Begin, LockCandidate, Rollback
    <3> QED BY <3>1, <1>1 DEF Goal
  <2> QED BY <1>6, <2>1, <2>2, <1>3 DEF ClaimStep
<1>7. CASE OtherStep
  <2>1. CASE ~Tick
    <3>1. leases' = leases
      BY <1>7, <2>1 DEF OtherStep, SetStatus, AddDependency
    <3> QED BY <3>1, <1>1
  <2> QED BY <2>1, <1>5
<1>8. CASE UNCHANGED queueVars
  BY <1>8, <1>1 DEF queueVars
<1> HIDE DEF Goal
<1> QED BY <1>4, <1>6, <1>7, <1>8 DEF Next, HoldStep, Goal

\* A queue with no lease is a lock with no owner.
LEMMA InitImplementsLock == Init => Lock!Init
BY DEF Init, Lock!Init, OwnerOf

\* The claim queue implements the lock: a claim takes a task together with
\* its repository or takes neither, and never takes a key whose lease is live
\* on every clock, whatever other transactions, heartbeats and releases run
\* between its three steps.
THEOREM QueueImplementsLock == Spec => ImplementsLock
BY InitImplementsLock, StepImplementsLock, QueueInvariant, PTL
DEF Spec, ImplementsLock, Lock!Spec
=============================================================================
