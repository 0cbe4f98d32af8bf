------------------------ MODULE MemoryTrackerProofs -------------------------
(***************************************************************************)
(* What holds of the tracker in memory for any tasks, proposals, workers,  *)
(* policy and limit.                                                       *)
(*                                                                         *)
(* The calls that wait are the difficulty: a proposal whose task is made   *)
(* but that is not there yet counts in no window, and its task can be      *)
(* claimed.  The inductive invariant says what such a proposal is.         *)
(***************************************************************************)
EXTENDS MemoryTracker, FiniteSetTheorems, TLAPS

\* People's tasks and proposals are apart, a lease has a holder and lasts, and
\* no caller but a claim makes a task claimed.
MemoryConstants ==
    /\ Ordinary \cap Proposed = {}
    /\ NoWorker \notin Workers
    /\ Ttl \in Nat \ {0}
    /\ Limit \in Nat /\ Overlapping \in Nat
    /\ "claimed" \notin Requested

Supervisor == {"none", "proposed", "approved", "auto_approved", "rejected"}
Lease == [kind : {"task", "repository"}, task : Tasks, worker : Workers, left : 0..Ttl]

Typed ==
    /\ status \in [Tasks -> Status \cup {"absent"}]
    /\ supervisor \in [Tasks -> Supervisor]
    /\ recent \cup cleaning \subseteq Proposed /\ blocked \subseteq Tasks
    /\ leases \subseteq Lease

\* A proposal, a lease, belongs to a task that exists.
ExistsFirst ==
    /\ \A t \in Tasks : supervisor[t] # "none" => Exists(t)
    /\ \A l \in leases : Exists(l.task)

\* A proposal that waits for its record has not moved.
WaitsInTriage == \A p \in Proposed \ LowRisk : Waiting(p) => status[p] = "triage"

\* A key has one lease.
OneLease == \A l, m \in leases : KeyOf(l) = KeyOf(m) => l = m

IInv == Typed /\ ExistsFirst /\ WaitsInTriage /\ OneLease /\ ExecutedIsApproved

-----------------------------------------------------------------------------
\* The graph leads from statuses to statuses, past a claim only from "ready"
\* by a claim, and out of the final ones nowhere.
LEMMA Graph ==
    /\ {"ready", "triage", "claimed", "fixing_review", "cancelled", "failed"} \subseteq Status
    /\ "absent" \notin Status
    /\ \A s \in Status : \A r : CanTransition(s, r) => r \in Status
    /\ \A s \in Status \cap NotStarted : \A r :
         CanTransition(s, r) => r \in NotStarted \cup {"claimed"}
    /\ \A r : /\ CanTransition("done", r) => r = "done"
              /\ CanTransition("cancelled", r) => r = "cancelled"
BY DEF CanTransition, AllowedTransitions, Status, NotStarted

LEMMA InitIInv == MemoryConstants /\ Init => IInv
<1> SUFFICES ASSUME MemoryConstants, Init PROVE IInv
  OBVIOUS
<1>1. Typed
  BY Graph DEF Init, Typed, Tasks, Supervisor
<1>2. ExistsFirst /\ OneLease
  BY DEF Init, ExistsFirst, OneLease
<1>3. \A p \in Proposed : p \in Tasks /\ status[p] = "absent"
  BY DEF MemoryConstants, Init, Tasks
<1>4. WaitsInTriage /\ ExecutedIsApproved
  BY <1>3 DEF WaitsInTriage, ExecutedIsApproved, Waiting, Exists, NotStarted
<1> QED BY <1>1, <1>2, <1>4 DEF IInv

-----------------------------------------------------------------------------
(* Steps *)

\* A step that changes only the windows, the keys, the dependencies or the cleanup.
LEMMA AsideKeepsIInv ==
    ASSUME IInv, UNCHANGED <<status, supervisor, leases>>,
           (recent \cup cleaning)' \subseteq Proposed, blocked' \subseteq Tasks
    PROVE  IInv'
<1> USE DEF IInv
<1>1. Typed' /\ ExistsFirst' /\ OneLease'
  BY DEF Typed, ExistsFirst, OneLease, Exists, KeyOf
<1>2. WaitsInTriage' /\ ExecutedIsApproved'
  BY DEF WaitsInTriage, ExecutedIsApproved, Waiting, Exists
<1> QED BY <1>1, <1>2

\* A step that changes the leases of tasks that exist, one to a key.
LEMMA LeasesKeepIInv ==
    ASSUME IInv, leases' \subseteq Lease, OneLease',
           \A l \in leases' : Exists(l.task),
           UNCHANGED <<status, supervisor, recent, blocked, cleaning>>
    PROVE  IInv'
<1> USE DEF IInv
<1>1. Typed' /\ ExistsFirst'
  BY DEF Typed, ExistsFirst, Exists
<1>2. WaitsInTriage' /\ ExecutedIsApproved'
  BY DEF WaitsInTriage, ExecutedIsApproved, Waiting, Exists
<1> QED BY <1>1, <1>2

\* A step that changes the status of a task, and perhaps the decision about it:
\* the task stays, one that waits goes on waiting, and what is past its claim
\* is approved.
LEMMA StatusKeepsIInv ==
    ASSUME IInv, NEW t \in Tasks, NEW s \in Status, NEW d \in Supervisor,
           status' = [status EXCEPT ![t] = s],
           supervisor' = [supervisor EXCEPT ![t] = d],
           Exists(t),
           t \in Proposed /\ d = "none" => t \in LowRisk,
           t \in Proposed /\ s \notin NotStarted => d \in {"none", "approved", "auto_approved"},
           UNCHANGED <<recent, blocked, leases>>, cleaning' \subseteq Proposed
    PROVE  IInv'
<1> USE DEF IInv
<1>0. /\ s # "absent"
      /\ \A u \in Tasks : /\ status'[u] = IF u = t THEN s ELSE status[u]
                          /\ supervisor'[u] = IF u = t THEN d ELSE supervisor[u]
  BY Graph DEF Typed
<1>1. \A u \in Tasks : Exists(u)' <=> Exists(u)
  BY <1>0 DEF Exists
<1>2. Typed'
  BY DEF Typed
<1>3. ExistsFirst'
  <2>1. \A l \in leases : l.task \in Tasks
    BY DEF Typed, Lease
  <2> QED BY <1>0, <1>1, <2>1 DEF ExistsFirst
<1>4. OneLease'
  BY DEF OneLease, KeyOf
<1>5. \A p \in Proposed : p \in Tasks
  BY DEF Tasks
<1>6. WaitsInTriage'
  BY <1>0, <1>1, <1>5 DEF WaitsInTriage, Waiting
<1>7. ExecutedIsApproved'
  BY <1>0, <1>1, <1>5 DEF ExecutedIsApproved, Waiting
<1> QED BY <1>2, <1>3, <1>4, <1>6, <1>7

\* A claim of an eligible task: its two leases are the only ones of their keys.
LEMMA TakeKeepsIInv ==
    ASSUME MemoryConstants, IInv, NEW w \in Workers, NEW t \in Tasks,
           NEW s \in {"claimed", "fixing_review"},
           Eligible(t, {"ready", "claimed", "review"}), Take(w, t, s)
    PROVE  IInv'
<1> USE DEF IInv
<1>0. /\ s \in Status /\ s # "absent" /\ Exists(t)
      /\ t \in Proposed => supervisor[t] \in {"approved", "auto_approved"} \/ (supervisor[t] = "none" /\ t \in LowRisk)
  BY Graph DEF Eligible, Approved, Exists, WaitsInTriage, Waiting
<1>1. /\ supervisor' = [supervisor EXCEPT ![t] = supervisor[t]]
      /\ status' = [status EXCEPT ![t] = s]
      /\ UNCHANGED <<supervisor, recent, blocked, cleaning>>
  BY DEF Take, Typed
<1>2. \A u \in Tasks : status'[u] = IF u = t THEN s ELSE status[u]
  BY <1>1 DEF Typed
<1>3. \A u \in Tasks : Exists(u)' <=> Exists(u)
  BY <1>0, <1>2 DEF Exists
<1>4. NewLeases(w, t) \subseteq Lease
  BY DEF NewLeases, Lease, MemoryConstants
<1>5. /\ leases' \subseteq Lease
      /\ \A l \in leases' : l.task = t \/ l \in leases
  BY <1>4 DEF Take, NewLeases, Typed
<1>6. OneLease'
  <2>1. \A m, n \in NewLeases(w, t) : KeyOf(m) = KeyOf(n) => m = n
    BY DEF NewLeases, KeyOf
  <2>2. \A l \in leases' : l \in NewLeases(w, t) \/ (l \in leases /\ \A m \in NewLeases(w, t) : KeyOf(l) # KeyOf(m))
    BY DEF Take
  <2>3. \A l, m \in leases' : KeyOf(l) = KeyOf(m) => l = m
    BY <2>1, <2>2 DEF OneLease
  <2> QED BY <2>3 DEF OneLease, KeyOf
<1>7. Typed'
  BY <1>0, <1>1, <1>5 DEF Typed
<1>8. ExistsFirst'
  <2>1. \A l \in leases : l.task \in Tasks
    BY DEF Typed, Lease
  <2> QED BY <1>0, <1>1, <1>3, <1>5, <2>1 DEF ExistsFirst
<1>9. \A p \in Proposed : p \in Tasks
  BY DEF Tasks
<1>10. WaitsInTriage'
  BY <1>0, <1>1, <1>2, <1>3, <1>9 DEF WaitsInTriage, Waiting
<1>11. ExecutedIsApproved'
  BY <1>0, <1>1, <1>2, <1>3, <1>9 DEF ExecutedIsApproved, Waiting
<1> QED BY <1>6, <1>7, <1>8, <1>10, <1>11

\* A lease is renewed: it keeps its key.
LEMMA HeartbeatKeepsIInv ==
    ASSUME MemoryConstants, IInv, NEW l \in leases, HeartbeatLease(l)
    PROVE  IInv'
<1> DEFINE r == [l EXCEPT !.left = Ttl]
<1>1. l \in Lease /\ Exists(l.task)
  BY DEF IInv, Typed, ExistsFirst
<1>2. r \in Lease /\ r.kind = l.kind /\ r.task = l.task
  BY <1>1 DEF Lease, MemoryConstants
<1>3. KeyOf(r) = KeyOf(l)
  BY <1>2 DEF KeyOf
<1>4. leases' = (leases \ {l}) \cup {r}
  BY DEF HeartbeatLease
<1> HIDE DEF r
<1>5. OneLease'
  <2>1. \A m, n \in leases' : KeyOf(m) = KeyOf(n) => m = n
    BY <1>3, <1>4 DEF IInv, OneLease
  <2> QED BY <2>1 DEF OneLease, KeyOf
<1>6. leases' \subseteq Lease /\ \A m \in leases' : Exists(m.task)
  BY <1>1, <1>2, <1>4 DEF IInv, Typed, ExistsFirst
<1> QED BY <1>5, <1>6, LeasesKeepIInv DEF HeartbeatLease

\* Time passes: every lease keeps its key.
LEMMA TickKeepsIInv ==
    ASSUME MemoryConstants, IInv, Tick
    PROVE  IInv'
<1> DEFINE older(l) == [l EXCEPT !.left = IF l.left > 0 THEN l.left - 1 ELSE 0]
<1>1. leases' = {older(l) : l \in leases}
  BY DEF Tick
<1>2. \A l \in leases : /\ older(l) \in Lease
                        /\ older(l).task = l.task /\ older(l).kind = l.kind
                        /\ Exists(l.task)
  BY DEF IInv, Typed, ExistsFirst, Lease, MemoryConstants
<1> HIDE DEF older
<1>3. \A l \in leases : KeyOf(older(l)) = KeyOf(l)
  BY <1>2 DEF KeyOf
<1>4. OneLease'
  <2>1. \A m, n \in leases' : KeyOf(m) = KeyOf(n) => m = n
    BY <1>1, <1>3 DEF IInv, OneLease
  <2> QED BY <2>1 DEF OneLease, KeyOf
<1>5. leases' \subseteq Lease /\ \A m \in leases' : Exists(m.task)
  BY <1>1, <1>2
<1> QED BY <1>4, <1>5, LeasesKeepIInv DEF Tick

\* A decision is about a proposal that is there, and moves it to a status where
\* nothing is executed.
LEMMA DecideKeepsIInv ==
    ASSUME IInv, NEW p \in Proposed, NEW d \in {"approved", "rejected"},
           NEW s \in {"ready", "cancelled"}, Decide(p, d, s), cleaning' \subseteq Proposed
    PROVE  IInv'
<1>1. p \in Tasks /\ Exists(p)
  BY DEF Decide, IInv, ExistsFirst, Tasks
<1>2. s \in Status /\ s \in NotStarted /\ d \in Supervisor /\ d # "none"
  BY Graph DEF NotStarted, Supervisor
<1> QED BY <1>1, <1>2, StatusKeepsIInv DEF Decide

\* A proposal's task is made, or the proposal added to it.
LEMMA ProposeKeepsIInv ==
    ASSUME MemoryConstants, IInv, NEW p \in Proposed, ProposeTask(p) \/ AddProposal(p)
    PROVE  IInv'
<1> USE DEF IInv
<1>0. p \in Tasks /\ \A q \in Proposed : q \in Tasks
  BY DEF Tasks
<1>1. CASE ProposeTask(p)
  <2>1. \A u \in Tasks : status'[u] = IF u = p THEN IF p \in LowRisk THEN "ready" ELSE "triage"
                                               ELSE status[u]
    BY <1>0, <1>1 DEF ProposeTask, Typed
  <2>2. /\ status[p] = "absent" /\ supervisor[p] = "none"
        /\ UNCHANGED <<supervisor, recent, stored, blocked, leases, cleaning>>
    BY <1>0, <1>1 DEF ProposeTask, Exists, ExistsFirst
  <2>3. Typed'
    BY <1>0, <1>1, <2>2, Graph DEF ProposeTask, Typed
  <2>4. \A u \in Tasks : Exists(u) => Exists(u)'
    BY <2>1 DEF Exists
  <2>5. ExistsFirst' /\ OneLease'
    <3>1. \A l \in leases : l.task \in Tasks
      BY DEF Typed, Lease
    <3> QED BY <2>2, <2>4, <3>1 DEF ExistsFirst, OneLease, KeyOf
  <2>6. WaitsInTriage' /\ ExecutedIsApproved'
    BY <1>0, <2>1, <2>2 DEF WaitsInTriage, ExecutedIsApproved, Waiting, Exists, NotStarted
  <2> QED BY <2>3, <2>5, <2>6
<1>2. CASE AddProposal(p)
  <2>1. \A u \in Tasks : supervisor'[u] = IF u = p THEN IF p \in LowRisk THEN "auto_approved" ELSE "proposed"
                                                   ELSE supervisor[u]
    BY <1>0, <1>2 DEF AddProposal, Typed
  <2>2. Exists(p) /\ supervisor[p] = "none" /\ UNCHANGED <<status, blocked, leases, cleaning>>
    BY <1>2 DEF AddProposal, Waiting
  <2>3. Typed'
    BY <1>0, <1>2, <2>2 DEF AddProposal, Typed, Supervisor
  <2>4. ExistsFirst' /\ OneLease'
    BY <2>1, <2>2 DEF ExistsFirst, Exists, OneLease, KeyOf
  <2>5. WaitsInTriage'
    BY <1>0, <2>1, <2>2 DEF WaitsInTriage, Waiting, Exists
  <2>6. ExecutedIsApproved'
    BY <1>0, <2>1, <2>2 DEF WaitsInTriage, ExecutedIsApproved, Waiting, Exists, NotStarted
  <2> QED BY <2>3, <2>4, <2>5, <2>6
<1> QED BY <1>1, <1>2

\* Somebody moves a task that is reachable along the graph.
LEMMA MoveKeepsIInv ==
    ASSUME MemoryConstants, IInv, NEW t \in Tasks, NEW s \in Requested \cup {"ready"},
           Reachable(t), CanTransition(status[t], s), status' = [status EXCEPT ![t] = s],
           UNCHANGED <<supervisor, recent, stored, blocked, leases, cleaning>>
    PROVE  IInv'
<1>1. status[t] \in Status /\ s \in Status /\ s # "claimed" /\ Exists(t)
  BY Graph DEF Reachable, Exists, MemoryConstants, IInv, Typed
<1>2. supervisor' = [supervisor EXCEPT ![t] = supervisor[t]] /\ supervisor[t] \in Supervisor
  BY DEF IInv, Typed
<1>3. t \in Proposed => supervisor[t] # "none"
  BY DEF Reachable, Waiting
<1>4. t \in Proposed /\ s \notin NotStarted => supervisor[t] \in {"approved", "auto_approved"}
  BY <1>1, <1>3, Graph DEF IInv, ExecutedIsApproved, Waiting
<1>5. cleaning' \subseteq Proposed
  BY DEF IInv, Typed
<1> QED BY <1>1, <1>2, <1>3, <1>4, <1>5, StatusKeepsIInv

LEMMA NextKeepsIInv == MemoryConstants /\ IInv /\ [Next]_vars => IInv'
<1> SUFFICES ASSUME MemoryConstants, IInv, [Next]_vars PROVE IInv'
  OBVIOUS
<1>1. recent \subseteq Proposed /\ cleaning \subseteq Proposed /\ blocked \subseteq Tasks
  BY DEF IInv, Typed
<1>2. ASSUME NEW p \in Proposed, ApproveProposal(p) \/ RejectProposal(p) \/ CleanNext(p)
      PROVE  IInv'
  <2>1. CASE ApproveProposal(p)
    BY <1>1, <2>1, DecideKeepsIInv DEF ApproveProposal
  <2>2. CASE RejectProposal(p)
    BY <1>1, <2>2, DecideKeepsIInv DEF RejectProposal
  <2>3. CASE Decide(p, "rejected", "cancelled") /\ cleaning' = cleaning \ {p}
    BY <1>1, <2>3, DecideKeepsIInv
  <2>4. CASE /\ cleaning' \in {cleaning \ {p}, {}}
             /\ UNCHANGED <<status, supervisor, recent, stored, blocked, leases>>
    BY <1>1, <2>4, AsideKeepsIInv
  <2> QED BY <1>2, <2>1, <2>2, <2>3, <2>4 DEF CleanNext
<1>3. ASSUME NEW p \in Proposed, LeaveWindow(p) PROVE IInv'
  BY <1>1, <1>3, AsideKeepsIInv DEF LeaveWindow
<1>4. ASSUME NEW w \in Workers, ClaimNextTask(w) \/ \E t \in Tasks : ClaimReviewTask(w, t)
      PROVE  IInv'
  <2>1. PICK t \in Tasks, s \in {"claimed", "fixing_review"} :
          Eligible(t, {"ready", "claimed", "review"}) /\ Take(w, t, s)
    BY <1>4 DEF ClaimNextTask, ClaimReviewTask, Eligible
  <2> QED BY <2>1, TakeKeepsIInv
<1>5. ASSUME NEW l \in leases, HeartbeatLease(l) \/ ReleaseLease(l) PROVE IInv'
  <2>1. CASE ReleaseLease(l)
    <3>1. leases' \subseteq leases
      BY <2>1 DEF ReleaseLease
    <3>2. OneLease'
      BY <3>1 DEF IInv, OneLease, KeyOf
    <3> QED BY <2>1, <3>1, <3>2, LeasesKeepIInv DEF ReleaseLease, IInv, Typed, ExistsFirst
  <2> QED BY <1>5, <2>1, HeartbeatKeepsIInv
<1>6. ASSUME NEW t \in Tasks,
             RecordHumanAnswer(t) \/ AddDependency(t) \/ \E s \in Requested : SetStatus(t, s)
      PROVE  IInv'
  <2>1. CASE RecordHumanAnswer(t)
    <3>1. CanTransition(status[t], "ready")
      BY <2>1 DEF RecordHumanAnswer, CanTransition, AllowedTransitions
    <3> QED BY <2>1, <3>1, MoveKeepsIInv DEF RecordHumanAnswer
  <2>2. CASE AddDependency(t)
    BY <1>1, <2>2, AsideKeepsIInv DEF AddDependency
  <2>3. ASSUME NEW s \in Requested, SetStatus(t, s) PROVE IInv'
    BY <2>3, MoveKeepsIInv DEF SetStatus
  <2> QED BY <1>6, <2>1, <2>2, <2>3
<1>7. CASE UNCHANGED vars
  BY <1>1, <1>7, AsideKeepsIInv DEF vars
<1>8. CASE Clean
  BY <1>1, <1>8, AsideKeepsIInv DEF Clean
<1> QED BY <1>2, <1>3, <1>4, <1>5, <1>6, <1>7, <1>8, ProposeKeepsIInv, TickKeepsIInv DEF Next

\* The inductive invariant holds in every reachable state.
THEOREM MemoryInvariant == ASSUME MemoryConstants PROVE Spec => []IInv
BY InitIInv, NextKeepsIInv, PTL DEF Spec

\* Type correctness of the tracker in memory.
THEOREM TypeCorrect == ASSUME MemoryConstants PROVE Spec => []TypeOK
<1>1. IInv => TypeOK
  BY DEF IInv, Typed, ExistsFirst, TypeOK, Lease, Supervisor
<1> QED BY <1>1, MemoryInvariant, PTL

\* No proposal is past its claim unless an approval stands, or the policy
\* approves it by itself and its call is about to say so.
THEOREM Executed == ASSUME MemoryConstants PROVE Spec => []ExecutedIsApproved
BY MemoryInvariant, PTL DEF IInv

-----------------------------------------------------------------------------
(* The window *)

\* The calls that wait between their task and their proposal.
Waits == {p \in Proposed : Waiting(p)}

\* Every one of them was let in by a count below the limit, and becomes one
\* proposal of the window.
RoomIsCounted ==
    /\ IsFiniteSet(recent) /\ IsFiniteSet(Waits)
    /\ Cardinality(recent) + Cardinality(Waits) < Limit + Overlapping

LEMMA ShrinkKeepsRoom ==
    ASSUME MemoryConstants, RoomIsCounted, recent' \subseteq recent, Waits' \subseteq Waits
    PROVE  RoomIsCounted'
<1>1. /\ IsFiniteSet(recent') /\ Cardinality(recent') <= Cardinality(recent)
      /\ Cardinality(recent) \in Nat /\ Cardinality(recent') \in Nat
  BY FS_Subset, FS_CardinalityType DEF RoomIsCounted
<1>2. /\ IsFiniteSet(Waits') /\ Cardinality(Waits') <= Cardinality(Waits)
      /\ Cardinality(Waits) \in Nat /\ Cardinality(Waits') \in Nat
  BY FS_Subset, FS_CardinalityType DEF RoomIsCounted
<1> QED BY <1>1, <1>2 DEF RoomIsCounted, MemoryConstants

\* A call creates its task only below the limit, and only so many wait.
LEMMA ProposeKeepsRoom ==
    ASSUME MemoryConstants, IInv, RoomIsCounted, NEW p \in Proposed, ProposeTask(p)
    PROVE  RoomIsCounted'
<1>1. Waits' \subseteq Waits \cup {p} /\ recent' = recent
  BY DEF ProposeTask, Waits, Waiting, Exists, IInv, Typed, Tasks
<1>2. /\ Cardinality(recent) < Limit /\ Cardinality(Waits) < Overlapping
      /\ Cardinality(recent) \in Nat /\ Cardinality(Waits) \in Nat
  BY FS_CardinalityType DEF ProposeTask, WithinLimit, Waits, RoomIsCounted
<1>3. /\ IsFiniteSet(Waits \cup {p})
      /\ Cardinality(Waits \cup {p}) \in {Cardinality(Waits), Cardinality(Waits) + 1}
  BY FS_AddElement DEF RoomIsCounted
<1>4. /\ IsFiniteSet(Waits') /\ Cardinality(Waits') \in Nat
      /\ Cardinality(Waits') <= Cardinality(Waits \cup {p})
  BY <1>1, <1>3, FS_Subset, FS_CardinalityType
<1> QED BY <1>1, <1>2, <1>3, <1>4 DEF RoomIsCounted, MemoryConstants

\* A call adds its proposal: one more in the window, one less that waits.
LEMMA AddKeepsRoom ==
    ASSUME MemoryConstants, IInv, RoomIsCounted, NEW p \in Proposed, AddProposal(p)
    PROVE  RoomIsCounted'
<1>1. p \in Waits /\ Waits' = Waits \ {p} /\ recent' = recent \cup {p}
  BY DEF AddProposal, Waits, Waiting, Exists, IInv, Typed, Tasks
<1>2. /\ IsFiniteSet(Waits') /\ Cardinality(Waits') = Cardinality(Waits) - 1
      /\ Cardinality(Waits) \in Nat
  BY <1>1, FS_RemoveElement, FS_CardinalityType DEF RoomIsCounted
<1>3. /\ IsFiniteSet(recent') /\ Cardinality(recent) \in Nat
      /\ Cardinality(recent') \in {Cardinality(recent), Cardinality(recent) + 1}
  BY <1>1, FS_AddElement, FS_CardinalityType DEF RoomIsCounted
<1> QED BY <1>1, <1>2, <1>3 DEF RoomIsCounted, MemoryConstants

\* Nothing else makes a call wait or enters the window: a task that exists
\* goes on existing, and a decision is never taken back.
LEMMA NextKeepsRoom == MemoryConstants /\ IInv /\ RoomIsCounted /\ [Next]_vars => RoomIsCounted'
<1> SUFFICES ASSUME MemoryConstants, IInv, RoomIsCounted, [Next]_vars PROVE RoomIsCounted'
  OBVIOUS
<1>0. /\ status \in [Tasks -> Status \cup {"absent"}] /\ supervisor \in [Tasks -> Supervisor]
      /\ \A p \in Proposed : p \in Tasks
  BY DEF IInv, Typed, Tasks
<1>1. ASSUME recent' \subseteq recent, supervisor' = supervisor, NEW t \in Tasks, Exists(t),
             \A u \in Tasks : u # t => status'[u] = status[u]
      PROVE  RoomIsCounted'
  BY <1>0, <1>1, ShrinkKeepsRoom DEF Waits, Waiting, Exists
<1>2. ASSUME recent' \subseteq recent, supervisor' = supervisor, status' = status
      PROVE  RoomIsCounted'
  BY <1>2, ShrinkKeepsRoom DEF Waits, Waiting, Exists
<1>3. ASSUME NEW p \in Proposed, NEW d \in {"approved", "rejected"}, NEW s, Decide(p, d, s)
      PROVE  RoomIsCounted'
  <2>1. Waits' \subseteq Waits
    BY <1>0, <1>3 DEF Decide, Waits, Waiting, Exists, IInv, ExistsFirst
  <2> QED BY <1>3, <2>1, ShrinkKeepsRoom DEF Decide
<1>4. ASSUME NEW w \in Workers, ClaimNextTask(w) \/ \E t \in Tasks : ClaimReviewTask(w, t)
      PROVE  RoomIsCounted'
  <2>1. PICK t \in Tasks, s \in {"claimed", "fixing_review"} :
          Eligible(t, {"ready", "claimed", "review"}) /\ Take(w, t, s)
    BY <1>4 DEF ClaimNextTask, ClaimReviewTask, Eligible
  <2> QED BY <1>0, <1>1, <2>1 DEF Take, Eligible, Exists
<1>5. ASSUME NEW t \in Tasks,
             RecordHumanAnswer(t) \/ AddDependency(t) \/ \E s \in Requested : SetStatus(t, s)
      PROVE  RoomIsCounted'
  BY <1>0, <1>1, <1>2, <1>5 DEF RecordHumanAnswer, AddDependency, SetStatus, Reachable
<1>6. ASSUME NEW p \in Proposed, ApproveProposal(p) \/ RejectProposal(p) \/ CleanNext(p) \/ LeaveWindow(p)
      PROVE  RoomIsCounted'
  BY <1>2, <1>3, <1>6 DEF ApproveProposal, RejectProposal, CleanNext, LeaveWindow
<1>7. CASE Clean \/ Tick \/ UNCHANGED vars \/ \E l \in leases : HeartbeatLease(l) \/ ReleaseLease(l)
  BY <1>2, <1>7 DEF Clean, Tick, vars, HeartbeatLease, ReleaseLease
<1> QED BY <1>4, <1>5, <1>6, <1>7, ProposeKeepsRoom, AddKeepsRoom DEF Next

\* Calls that overlap exceed the limit by fewer than wait at one time.
THEOREM Overshoot == ASSUME MemoryConstants PROVE Spec => []OvershootIsBounded
<1>1. Init /\ Limit > 0 => RoomIsCounted
  <2> SUFFICES ASSUME Init, Limit > 0 PROVE RoomIsCounted
    OBVIOUS
  <2>1. recent = {} /\ Waits = {}
    BY DEF MemoryConstants, Init, Waits, Waiting, Exists, Tasks
  <2> QED BY <2>1, FS_EmptySet DEF RoomIsCounted, MemoryConstants
<1>2. RoomIsCounted => OvershootIsBounded
  BY FS_CardinalityType DEF RoomIsCounted, OvershootIsBounded, MemoryConstants
<1>3. CASE Limit > 0
  BY <1>1, <1>2, <1>3, NextKeepsRoom, MemoryInvariant, PTL DEF Spec
<1>4. CASE ~(Limit > 0)
  <2>1. OvershootIsBounded
    BY <1>4 DEF OvershootIsBounded
  <2> QED BY <2>1, PTL
<1> QED BY <1>3, <1>4

-----------------------------------------------------------------------------
(* Twins *)

\* What comes alive in a step has failed before, or is proposed by it.
LEMMA ComesAlive ==
    ASSUME IInv, [Next]_vars, NEW q \in Proposed, Alive(q)', ~Alive(q)
    PROVE  status[q] = "failed" \/ ProposeTask(q)
<1>0. /\ status \in [Tasks -> Status \cup {"absent"}] /\ supervisor \in [Tasks -> Supervisor]
      /\ \A p \in Proposed : p \in Tasks
  BY DEF IInv, Typed, Tasks
<1> SUFFICES ASSUME status[q] # "failed", ~ProposeTask(q) PROVE FALSE
  OBVIOUS
<1>1. status[q] \in {"absent", "done", "cancelled"} \/ supervisor[q] = "rejected"
  BY DEF Alive, Exists
<1>2. ASSUME supervisor' = supervisor, status'[q] = status[q] PROVE FALSE
  BY <1>2 DEF Alive, Exists
<1>3. ASSUME supervisor'[q] = supervisor[q], NEW s, CanTransition(status[q], s), status'[q] = s,
             status[q] # "absent"
      PROVE  FALSE
  BY <1>1, <1>3, Graph DEF Alive
<1>4. ASSUME NEW p \in Proposed, NEW d \in {"approved", "rejected"}, NEW s, Decide(p, d, s)
      PROVE  FALSE
  <2>1. CASE p # q
    BY <1>0, <1>4, <2>1 DEF Decide, Alive, Exists
  <2>2. CASE p = q
    <3>1. status[q] \in {"done", "cancelled"} /\ status'[q] = s
      BY <1>0, <1>1, <1>4, <2>2 DEF Decide, IInv, ExistsFirst, Exists
    <3> QED BY <1>4, <2>2, <3>1, Graph DEF Decide, Alive
  <2> QED BY <2>1, <2>2
<1>5. ASSUME NEW w \in Workers, ClaimNextTask(w) \/ \E t \in Tasks : ClaimReviewTask(w, t)
      PROVE  FALSE
  <2>1. PICK t \in Tasks, s \in {"claimed", "fixing_review"} :
          Eligible(t, {"ready", "claimed", "review"}) /\ Take(w, t, s)
    BY <1>5 DEF ClaimNextTask, ClaimReviewTask, Eligible
  <2>2. CASE t # q
    BY <1>0, <1>2, <2>1, <2>2 DEF Take
  <2>3. CASE t = q
    BY <1>1, <2>1, <2>3 DEF Eligible, Approved
  <2> QED BY <2>2, <2>3
<1>6. ASSUME NEW t \in Tasks,
             RecordHumanAnswer(t) \/ AddDependency(t) \/ \E s \in Requested : SetStatus(t, s)
      PROVE  FALSE
  <2>1. CASE AddDependency(t)
    BY <1>2, <2>1 DEF AddDependency
  <2>2. CASE RecordHumanAnswer(t)
    <3>1. CanTransition(status[t], "ready")
      BY <2>2 DEF RecordHumanAnswer, CanTransition, AllowedTransitions
    <3>2. CASE t # q
      BY <1>0, <1>2, <2>2, <3>2 DEF RecordHumanAnswer
    <3>3. CASE t = q
      BY <1>0, <1>3, <2>2, <3>1, <3>3 DEF RecordHumanAnswer, Reachable, Exists
    <3> QED BY <3>2, <3>3
  <2>3. ASSUME NEW s \in Requested, SetStatus(t, s) PROVE FALSE
    <3>1. CASE t # q
      BY <1>0, <1>2, <2>3, <3>1 DEF SetStatus
    <3>2. CASE t = q
      BY <1>0, <1>3, <2>3, <3>2 DEF SetStatus, Reachable, Exists
    <3> QED BY <3>1, <3>2
  <2> QED BY <1>6, <2>1, <2>2, <2>3
<1>7. ASSUME NEW p \in Proposed, ProposeTask(p) PROVE FALSE
  <2>1. p # q
    BY <1>7
  <2> QED BY <1>0, <1>2, <1>7, <2>1 DEF ProposeTask
<1>8. ASSUME NEW p \in Proposed, AddProposal(p) PROVE FALSE
  <2>1. supervisor[q] # "rejected" \/ p # q
    BY <1>8 DEF AddProposal, Waiting
  <2> QED BY <1>0, <1>1, <1>8, <2>1 DEF AddProposal, Alive, Exists, Waiting
<1>9. ASSUME NEW p \in Proposed, ApproveProposal(p) \/ RejectProposal(p) \/ CleanNext(p) \/ LeaveWindow(p)
      PROVE  FALSE
  BY <1>2, <1>4, <1>9 DEF ApproveProposal, RejectProposal, CleanNext, LeaveWindow
<1>10. CASE Clean \/ Tick \/ UNCHANGED vars \/ \E l \in leases : HeartbeatLease(l) \/ ReleaseLease(l)
  BY <1>2, <1>10 DEF Clean, Tick, vars, HeartbeatLease, ReleaseLease
<1> QED BY <1>5, <1>6, <1>7, <1>8, <1>9, <1>10 DEF Next

\* Two proposals of one title come to be alive side by side only when one that
\* has failed is tried again, although calls wait between their look for
\* duplicates and their own proposal.
THEOREM TwinsOnlyByRetry == ASSUME MemoryConstants PROVE Spec => OnlyRetriesMakeTwins
<1>1. IInv /\ [Next]_vars => [TwinsByRetry]_vars
  <2> SUFFICES ASSUME IInv, [Next]_vars, NEW p \in Proposed, NEW q \in Proposed,
                      p # q, Title[p] = Title[q], Alive(p)', Alive(q)', ~(Alive(p) /\ Alive(q))
               PROVE  "failed" \in {status[p], status[q]}
    BY DEF TwinsByRetry, Twins
  <2>1. \A r \in Proposed : r \in Tasks
    BY DEF Tasks
  <2>2. ASSUME NEW r \in Proposed, NEW o \in Proposed \ {r}, Title[r] = Title[o],
               Alive(o)', ProposeTask(r)
        PROVE  FALSE
    <3>1. Alive(o)
      BY <2>1, <2>2 DEF ProposeTask, Alive, Exists, IInv, Typed
    <3> QED BY <2>2, <3>1 DEF ProposeTask, Duplicate, SameAs
  <2>3. CASE ~Alive(p)
    BY <2>2, <2>3, ComesAlive
  <2>4. CASE ~Alive(q)
    BY <2>2, <2>4, ComesAlive
  <2> QED BY <2>3, <2>4
<1> QED BY <1>1, MemoryInvariant, PTL DEF Spec, OnlyRetriesMakeTwins

-----------------------------------------------------------------------------
(* The lock *)

\* The lock's state in a state of the tracker.
owners   == [k \in LockKeys |-> OwnerOf(k)]
liveKeys == {KeyOf(l) : l \in {m \in leases : Live(m)}}
Bundle(t) == {<<"task", t>>, <<"repository", RepoOf[t]>>}

\* The owner of a key is the worker of its lease, and NoWorker if it has none.
OwnersHold ==
    /\ owners \in [LockKeys -> Workers \cup {NoWorker}]
    /\ \A l \in leases : KeyOf(l) \in LockKeys /\ owners[KeyOf(l)] = l.worker
    /\ \A k \in LockKeys : (\A l \in leases : KeyOf(l) # k) => owners[k] = NoWorker

LEMMA OwnerIsHolder == IInv => OwnersHold
<1> SUFFICES ASSUME IInv PROVE OwnersHold
  OBVIOUS
<1>1. ASSUME NEW l \in leases
      PROVE  OwnerOf(KeyOf(l)) = l.worker /\ KeyOf(l) \in LockKeys /\ l.worker \in Workers
  <2>1. (CHOOSE m \in leases : KeyOf(m) = KeyOf(l)) = l
    BY DEF IInv, OneLease
  <2>2. KeyOf(l) \in LockKeys /\ l.worker \in Workers
    BY DEF IInv, Typed, Lease, KeyOf, LockKeys
  <2> QED BY <2>1, <2>2 DEF OwnerOf
<1>2. \A k \in LockKeys : (\A l \in leases : KeyOf(l) # k) => OwnerOf(k) = NoWorker
  BY DEF OwnerOf
<1>3. ASSUME NEW k \in LockKeys PROVE OwnerOf(k) \in Workers \cup {NoWorker}
  <2>1. CASE \A l \in leases : KeyOf(l) # k
    BY <2>1, <1>2
  <2>2. ASSUME NEW l \in leases, KeyOf(l) = k PROVE OwnerOf(k) \in Workers
    BY <2>2, <1>1
  <2> QED BY <2>1, <2>2
<1> QED BY <1>1, <1>2, <1>3 DEF OwnersHold, owners

\* The same in the next state.
LEMMA OwnerIsHolderNext == IInv' => OwnersHold'
BY OwnerIsHolder, PTL

\* A step that leaves the leases alone leaves the lock alone.
LEMMA SameLeases ==
    ASSUME leases' = leases
    PROVE  UNCHANGED Lock!lockVars
BY DEF Lock!lockVars, OwnerOf, Live, KeyOf

\* A claim takes a task with its repository, neither of them live.
LEMMA TakeIsAcquire ==
    ASSUME MemoryConstants, IInv, IInv', NEW w \in Workers, NEW t \in Tasks, NEW s,
           ~Leased(t), Take(w, t, s)
    PROVE  Lock!Acquire(w, Bundle(t))
<1> DEFINE K == Bundle(t)
<1>0. OwnersHold /\ OwnersHold'
  BY OwnerIsHolder, OwnerIsHolderNext
<1>1. /\ K = {KeyOf(n) : n \in NewLeases(w, t)}
      /\ \A n \in NewLeases(w, t) : n.worker = w /\ Live(n)
  <2> DEFINE row(k) == [kind |-> k, task |-> t, worker |-> w, left |-> Ttl]
  <2>1. NewLeases(w, t) = {row("task"), row("repository")}
    BY DEF NewLeases
  <2>2. KeyOf(row("task")) = <<"task", t>> /\ KeyOf(row("repository")) = <<"repository", RepoOf[t]>>
    BY DEF KeyOf
  <2>3. \A k \in {"task", "repository"} : row(k).worker = w /\ Live(row(k))
    BY DEF Live, MemoryConstants
  <2> HIDE DEF row
  <2> QED BY <2>1, <2>2, <2>3 DEF Bundle
<1>2. K \cap liveKeys = {}
  BY DEF Leased, liveKeys, Bundle
<1> HIDE DEF K
<1>3. /\ \A l \in leases' : l \in NewLeases(w, t) \/ (l \in leases /\ KeyOf(l) \notin K)
      /\ \A l \in leases : KeyOf(l) \notin K => l \in leases'
      /\ NewLeases(w, t) \subseteq leases'
  BY <1>1 DEF Take
<1>4. ASSUME NEW k \in K PROVE k \in LockKeys /\ owners'[k] = w
  <2>1. PICK n \in NewLeases(w, t) : KeyOf(n) = k
    BY <1>1
  <2> QED BY <1>0, <1>1, <1>3, <2>1 DEF OwnersHold, KeyOf
<1>5. ASSUME NEW k \in LockKeys \ K PROVE owners'[k] = owners[k]
  <2>1. CASE \A l \in leases : KeyOf(l) # k
    BY <1>0, <1>1, <1>3, <2>1 DEF OwnersHold, KeyOf
  <2>2. ASSUME NEW l \in leases, KeyOf(l) = k PROVE owners'[k] = owners[k]
    <3>1. owners'[KeyOf(l)] = l.worker
      BY <1>0, <1>3, <2>2 DEF OwnersHold, KeyOf
    <3> QED BY <1>0, <2>2, <3>1 DEF OwnersHold
  <2> QED BY <2>1, <2>2
<1>6. liveKeys' = liveKeys \cup K
  <2>1. liveKeys' = {KeyOf(l) : l \in {m \in leases' : Live(m)}}
    BY DEF liveKeys, KeyOf, Live
  <2> QED BY <1>1, <1>2, <1>3, <2>1 DEF liveKeys
<1>7. owners' \in [LockKeys -> Workers \cup {NoWorker}]
  BY <1>0 DEF OwnersHold
<1> QED
  BY <1>2, <1>4, <1>5, <1>6, <1>7
  DEF Lock!Acquire, Lock!KeptOrDropped, owners, liveKeys, K

\* A heartbeat renews the term of its key.
LEMMA HeartbeatIsRenew ==
    ASSUME MemoryConstants, IInv, IInv', NEW l \in leases, HeartbeatLease(l)
    PROVE  Lock!Renew(KeyOf(l)) /\ KeyOf(l) \in LockKeys
<1> DEFINE r == [l EXCEPT !.left = Ttl]
<1>0. OwnersHold /\ OwnersHold'
  BY OwnerIsHolder, OwnerIsHolderNext
<1>1. l \in Lease /\ leases' = (leases \ {l}) \cup {r} /\ Live(l)
  BY DEF HeartbeatLease, IInv, Typed
<1>2. KeyOf(r) = KeyOf(l) /\ r.worker = l.worker /\ Live(r)
  BY <1>1 DEF KeyOf, Lease, Live, MemoryConstants
<1> HIDE DEF r
<1>3. owners' = owners
  <2> SUFFICES ASSUME NEW k \in LockKeys PROVE owners'[k] = owners[k]
    BY <1>0 DEF OwnersHold
  <2>1. CASE \A m \in leases : KeyOf(m) # k
    BY <1>0, <1>1, <1>2, <2>1 DEF OwnersHold, KeyOf
  <2>2. ASSUME NEW m \in leases, KeyOf(m) = k PROVE owners'[k] = owners[k]
    <3>1. PICK n \in leases' : KeyOf(n) = k /\ n.worker = m.worker
      BY <1>1, <1>2, <2>2
    <3> QED BY <1>0, <2>2, <3>1 DEF OwnersHold, KeyOf
  <2> QED BY <2>1, <2>2
<1>4. owners[KeyOf(l)] # NoWorker
  BY <1>0, <1>1 DEF OwnersHold, Lease, MemoryConstants
<1>5. liveKeys' = liveKeys \cup {KeyOf(l)}
  <2>1. liveKeys' = {KeyOf(m) : m \in {n \in leases' : Live(n)}}
    BY DEF liveKeys, KeyOf, Live
  <2> QED BY <1>1, <1>2, <2>1 DEF liveKeys
<1> QED BY <1>0, <1>3, <1>4, <1>5 DEF Lock!Renew, owners, liveKeys, OwnersHold

\* A release gives its key up.
LEMMA ReleaseIsGiveUp ==
    ASSUME IInv, IInv', NEW l \in leases, ReleaseLease(l)
    PROVE  Lock!GiveUp(KeyOf(l)) /\ KeyOf(l) \in LockKeys
<1>0. OwnersHold /\ OwnersHold'
  BY OwnerIsHolder, OwnerIsHolderNext
<1>1. leases' = leases \ {l}
  BY DEF ReleaseLease
<1>2. \A m \in leases : KeyOf(m) = KeyOf(l) => m = l
  BY DEF IInv, OneLease
<1>3. ASSUME NEW k \in LockKeys
      PROVE  owners'[k] = IF k = KeyOf(l) THEN NoWorker ELSE owners[k]
  <2>1. CASE \A m \in leases' : KeyOf(m) # k
    BY <1>0, <1>1, <2>1 DEF OwnersHold, KeyOf
  <2>2. ASSUME NEW m \in leases', KeyOf(m) = k
        PROVE  owners'[k] = owners[k] /\ k # KeyOf(l)
    BY <1>0, <1>1, <1>2, <2>2 DEF OwnersHold, KeyOf
  <2> QED BY <2>1, <2>2
<1>4. owners' = [owners EXCEPT ![KeyOf(l)] = NoWorker]
  BY <1>0, <1>3 DEF OwnersHold
<1>5. liveKeys' = liveKeys \ {KeyOf(l)}
  <2>1. liveKeys' = {KeyOf(m) : m \in {n \in leases' : Live(n)}}
    BY DEF liveKeys, KeyOf, Live
  <2> QED BY <1>1, <1>2, <2>1 DEF liveKeys
<1> QED BY <1>0, <1>4, <1>5 DEF Lock!GiveUp, OwnersHold, owners, liveKeys

\* A tick ends terms and changes no owner.
LEMMA TickIsExpire ==
    ASSUME MemoryConstants, IInv, IInv', Tick
    PROVE  Lock!Expire
<1> DEFINE older(l) == [l EXCEPT !.left = IF l.left > 0 THEN l.left - 1 ELSE 0]
<1>0. OwnersHold /\ OwnersHold'
  BY OwnerIsHolder, OwnerIsHolderNext
<1>1. leases' = {older(l) : l \in leases}
  BY DEF Tick
<1>2. \A l \in leases : /\ older(l).worker = l.worker
                        /\ older(l).kind = l.kind /\ older(l).task = l.task
                        /\ Live(older(l)) => Live(l)
  BY DEF IInv, Typed, Lease, Live, MemoryConstants
<1> HIDE DEF older
<1>3. \A l \in leases : KeyOf(older(l)) = KeyOf(l)
  BY <1>2 DEF KeyOf
<1>4. owners' = owners
  <2> SUFFICES ASSUME NEW k \in LockKeys PROVE owners'[k] = owners[k]
    BY <1>0 DEF OwnersHold
  <2>1. CASE \A m \in leases : KeyOf(m) # k
    BY <1>0, <1>1, <1>3, <2>1 DEF OwnersHold, KeyOf
  <2>2. ASSUME NEW m \in leases, KeyOf(m) = k PROVE owners'[k] = owners[k]
    <3>1. older(m) \in leases' /\ KeyOf(older(m)) = k /\ older(m).worker = m.worker
      BY <1>1, <1>2, <1>3, <2>2
    <3> QED BY <1>0, <2>2, <3>1 DEF OwnersHold, KeyOf
  <2> QED BY <2>1, <2>2
<1>5. liveKeys' \subseteq liveKeys
  <2>1. liveKeys' = {KeyOf(m) : m \in {n \in leases' : Live(n)}}
    BY DEF liveKeys, KeyOf, Live
  <2> QED BY <1>1, <1>2, <1>3, <2>1 DEF liveKeys
<1> QED BY <1>4, <1>5 DEF Lock!Expire, owners, liveKeys

\* Every step of the tracker is a step of the lock, or leaves it alone.
LEMMA StepImplementsLock ==
    MemoryConstants /\ IInv /\ IInv' /\ [Next]_vars => [LockStep]_vars
<1> SUFFICES ASSUME MemoryConstants, IInv, IInv', Next PROVE LockStep
  OBVIOUS
<1>1. CASE leases' = leases
  BY <1>1, SameLeases DEF LockStep
<1>2. ASSUME NEW w \in Workers, ClaimNextTask(w) \/ \E t \in Tasks : ClaimReviewTask(w, t)
      PROVE  LockStep
  <2>1. PICK t \in Tasks, s \in {"claimed", "fixing_review"} : ~Leased(t) /\ Take(w, t, s)
    BY <1>2 DEF ClaimNextTask, ClaimReviewTask, Eligible
  <2>2. Lock!Acquire(w, Bundle(t))
    BY <2>1, TakeIsAcquire
  <2> QED BY <2>2 DEF LockStep, Lock!Next, Bundle
<1>3. ASSUME NEW l \in leases, HeartbeatLease(l) \/ ReleaseLease(l) PROVE LockStep
  BY <1>3, HeartbeatIsRenew, ReleaseIsGiveUp DEF LockStep, Lock!Next
<1>4. CASE Tick
  BY <1>4, TickIsExpire DEF LockStep, Lock!Next
<1>5. ASSUME NEW p \in Proposed,
             \/ ProposeTask(p) \/ AddProposal(p) \/ ApproveProposal(p) \/ RejectProposal(p)
             \/ CleanNext(p) \/ LeaveWindow(p)
      PROVE  leases' = leases
  BY <1>5 DEF ProposeTask, AddProposal, ApproveProposal, RejectProposal, Decide, CleanNext,
              LeaveWindow
<1>6. ASSUME NEW t \in Tasks,
             RecordHumanAnswer(t) \/ AddDependency(t) \/ \E s \in Requested : SetStatus(t, s)
      PROVE  leases' = leases
  BY <1>6 DEF RecordHumanAnswer, AddDependency, SetStatus
<1>7. CASE Clean
  BY <1>1, <1>7 DEF Clean
<1> QED BY <1>1, <1>2, <1>3, <1>4, <1>5, <1>6, <1>7 DEF Next

\* The tracker in memory implements the lock that the tables of PostgreSQL
\* implement: a claim takes a task with its repository or neither, and no key
\* from an owner whose lease is live.
THEOREM MemoryImplementsLock == ASSUME MemoryConstants PROVE Spec => ImplementsLock
<1>1. Init => Lock!Init
  BY DEF Init, Lock!Init, OwnerOf, LockKeys
<1> QED BY <1>1, StepImplementsLock, MemoryInvariant, PTL DEF Spec, ImplementsLock
=============================================================================
