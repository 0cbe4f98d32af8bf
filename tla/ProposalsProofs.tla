--------------------------- MODULE ProposalsProofs ----------------------------
(***************************************************************************)
(* What holds of proposals for any connections, ids, keys and limits,      *)
(* although no read that decides something takes a lock.                   *)
(*                                                                         *)
(* ExecutedIsApproved is inductive: a decision writes both tables at once, *)
(* and the only way past a claim is a claim.  RetriesDoNotCollide needs    *)
(* what the advisory lock gives: CreatedOnce.                              *)
(***************************************************************************)
EXTENDS Proposals, FiniteSetTheorems, TLAPS

\* A key that has made a task is stored, and one that is about to is not, by
\* one connection only.
CreatedOnce ==
    /\ \A p \in Ids : status[p] # "absent" /\ Key[p] # NoKey => stored[Key[p]] = p
    /\ \A c \in Processes : Creating(c) =>
         /\ c \in Callers
         /\ call[c].id \in Ids
         /\ Key[call[c].id] # NoKey =>
              /\ stored[Key[call[c].id]] = NoId
              /\ \A d \in Callers \ {c} : Creating(d) => Key[call[d].id] # Key[call[c].id]

\* A proposal, and a decision about it, belong to a task that exists.
DecidedExists ==
    /\ \A p \in Ids : status[p] = "absent" => supervisor[p] = "none"
    /\ \A c \in Processes : call[c].step \in {"approving", "rejecting"} =>
         call[c].id \in Ids /\ status[call[c].id] # "absent"

IInv == TypeOK /\ ExecutedIsApproved /\ CreatedOnce /\ DecidedExists

\* "absent" is no status, and the graph leads past a claim only through it.
LEMMA Graph ==
    /\ {"ready", "triage", "claimed", "cancelled"} \subseteq Status
    /\ "absent" \notin Status
    /\ \A s \in Status \cap NotStarted, r \in Requested :
         CanTransition(s, r) => r \in NotStarted
BY ProposalAssumption DEF CanTransition, AllowedTransitions, Status, NotStarted

\* No row of a proposal that is not there.
LEMMA InitIInv == Init => IInv
<1> SUFFICES ASSUME Init PROVE IInv
  OBVIOUS
<1> USE ProposalAssumption DEF Init, NoCall
<1>1. TypeOK
  BY DEF TypeOK, Call
<1>2. ExecutedIsApproved
  BY DEF ExecutedIsApproved, NotStarted
<1>3. CreatedOnce /\ DecidedExists
  BY DEF CreatedOnce, DecidedExists, Creating
<1> QED BY <1>1, <1>2, <1>3 DEF IInv

\* A step that only opens, moves or closes a transaction that creates nothing.
LEMMA CallKeepsIInv ==
    ASSUME IInv, NEW c \in Processes, NEW next \in Call,
           call' = [call EXCEPT ![c] = next],
           next.step \in {"approving", "rejecting"} =>
             next.id \in Ids /\ status[next.id] # "absent",
           next.step \in {"counting", "inserting"} =>
             Creating(c) /\ next.id = call[c].id,
           UNCHANGED <<rows, stale>>
    PROVE  IInv'
<1> USE DEF IInv, rows
<1>1. \A d \in Processes : call'[d] = IF d = c THEN next ELSE call[d]
  BY DEF TypeOK
<1>2. TypeOK'
  BY DEF TypeOK
<1>3. ExecutedIsApproved'
  BY DEF ExecutedIsApproved
<1>4. CreatedOnce'
  <2>1. \A d \in Processes : Creating(d)' => Creating(d) /\ call'[d].id = call[d].id
    BY <1>1 DEF Creating
  <2>2. Callers \subseteq Processes
    BY DEF Processes
  <2> QED BY <2>1, <2>2 DEF CreatedOnce
<1>5. DecidedExists'
  BY <1>1 DEF DecidedExists
<1> QED BY <1>2, <1>3, <1>4, <1>5

\* A proposal is checked: the advisory lock keeps the key to this call.
LEMMA ProposeKeepsIInv ==
    ASSUME IInv, NEW c \in Callers, NEW p \in Ids, ProposeTask(c, p)
    PROVE  IInv'
<1> USE DEF IInv, rows
<1> DEFINE next == [step |-> "counting", id |-> p, todo |-> {}]
<1>0. c \in Processes /\ Callers \subseteq Processes /\ call[c] \in Call
  BY DEF Processes, TypeOK
<1>1. call' = [call EXCEPT ![c] = next] /\ next \in Call
  BY <1>0 DEF ProposeTask, Open, Call
<1>2. \A d \in Processes : call'[d] = IF d = c THEN next ELSE call[d]
  BY <1>1 DEF TypeOK
<1>3. UNCHANGED <<status, supervisor, recent, today, stored, stale>>
  BY DEF ProposeTask
<1>4. TypeOK'
  BY <1>1, <1>3 DEF TypeOK
<1>5. ExecutedIsApproved'
  BY <1>3 DEF ExecutedIsApproved
<1>6. CreatedOnce'
  <2>1. Key[p] # NoKey => /\ stored[Key[p]] = NoId
                          /\ \A d \in Callers : Creating(d) => Key[call[d].id] # Key[p]
    BY DEF ProposeTask, KeyLocked, Creating
  <2>2. ASSUME NEW d \in Processes, Creating(d)'
        PROVE  /\ d \in Callers
               /\ call'[d].id \in Ids
               /\ Key[call'[d].id] # NoKey =>
                    /\ stored'[Key[call'[d].id]] = NoId
                    /\ \A e \in Callers \ {d} :
                         Creating(e)' => Key[call'[e].id] # Key[call'[d].id]
    <3>1. CASE d = c
      BY <3>1, <1>0, <1>2, <1>3, <2>1 DEF Creating
    <3>2. CASE d # c
      BY <3>2, <2>2, <1>0, <1>2, <1>3, <2>1 DEF CreatedOnce, Creating
    <3> QED BY <3>1, <3>2
  <2> QED BY <2>2, <1>3 DEF CreatedOnce, Creating
<1>7. DecidedExists'
  BY <1>2, <1>3 DEF DecidedExists
<1> QED BY <1>4, <1>5, <1>6, <1>7

\* A proposal is inserted: its key was kept to this call until now.
LEMMA InsertKeepsIInv ==
    ASSUME IInv, NEW c \in Callers, InsertProposal(c)
    PROVE  IInv'
<1> USE DEF IInv
<1> DEFINE p == call[c].id
<1>0. /\ c \in Processes /\ Callers \subseteq Processes /\ Creating(c) /\ p \in Ids
      /\ Key[p] # NoKey => Key[p] \in Keys
  BY DEF Processes, InsertProposal, Creating, CreatedOnce, Keys
<1>1. \A d \in Processes : call'[d] = IF d = c THEN NoCall ELSE call[d]
  BY <1>0 DEF InsertProposal, TypeOK
<1>2. TypeOK'
  <2>1. NoCall \in Call
    BY DEF NoCall, Call
  <2>2. call' \in [Processes -> Call] /\ stored' \in [Keys -> Ids \cup {NoId}]
    BY <1>0, <2>1 DEF InsertProposal, TypeOK
  <2>3. status' \in [Ids -> Status \cup {"absent"}]
        /\ supervisor' \in [Ids -> {"none", "proposed", "rejected"} \cup Approved]
    BY <1>0, Graph DEF InsertProposal, TypeOK, Approved
  <2> QED BY <1>0, <2>2, <2>3 DEF InsertProposal, TypeOK
<1>3. ExecutedIsApproved'
  BY <1>0 DEF InsertProposal, ExecutedIsApproved, TypeOK, NotStarted
<1>4. CreatedOnce'
  <2>1. \A q \in Ids : status'[q] # "absent" /\ Key[q] # NoKey => stored'[Key[q]] = q
    <3> SUFFICES ASSUME NEW q \in Ids, status'[q] # "absent", Key[q] # NoKey
                 PROVE  stored'[Key[q]] = q
      OBVIOUS
    <3>1. Key[q] \in Keys
      BY DEF Keys
    <3>2. CASE q = p
      BY <3>1, <3>2 DEF InsertProposal
    <3>3. CASE q # p
      <4>1. status[q] # "absent" /\ stored[Key[q]] = q
        BY <3>3 DEF InsertProposal, TypeOK, CreatedOnce
      <4>2. Key[q] # Key[p]
        BY <4>1, <1>0, ProposalAssumption DEF CreatedOnce
      <4> QED BY <3>1, <4>1, <4>2 DEF InsertProposal
    <3> QED BY <3>2, <3>3
  <2>2. \A d \in Processes : Creating(d)' => d # c /\ Creating(d) /\ call'[d] = call[d]
    BY <1>1 DEF Creating, NoCall
  <2>3. ASSUME NEW d \in Processes, Creating(d)'
        PROVE  /\ d \in Callers
               /\ call'[d].id \in Ids
               /\ Key[call'[d].id] # NoKey =>
                    /\ stored'[Key[call'[d].id]] = NoId
                    /\ \A e \in Callers \ {d} :
                         Creating(e)' => Key[call'[e].id] # Key[call'[d].id]
    <3>1. d # c /\ Creating(d) /\ call'[d] = call[d] /\ d \in Callers /\ call[d].id \in Ids
      BY <2>2, <2>3 DEF CreatedOnce
    <3>2. ASSUME Key[call[d].id] # NoKey
          PROVE  stored'[Key[call[d].id]] = NoId
      <4>1. stored[Key[call[d].id]] = NoId /\ Key[p] # Key[call[d].id]
        BY <3>1, <3>2, <1>0 DEF CreatedOnce
      <4>2. Key[call[d].id] \in Keys
        BY <3>1, <3>2 DEF Keys
      <4> QED BY <4>1, <4>2 DEF InsertProposal
    <3>3. ASSUME Key[call[d].id] # NoKey, NEW e \in Callers \ {d}, Creating(e)'
          PROVE  Key[call'[e].id] # Key[call'[d].id]
      BY <3>1, <3>3, <2>2, <1>0 DEF CreatedOnce
    <3> QED BY <3>1, <3>2, <3>3
  <2> QED BY <2>1, <2>3 DEF CreatedOnce
<1>5. DecidedExists'
  <2>1. \A q \in Ids : status'[q] = "absent" => q # p /\ status[q] = "absent"
    BY <1>0 DEF InsertProposal, TypeOK
  <2>2. \A q \in Ids : q # p => supervisor'[q] = supervisor[q]
    BY <1>0 DEF InsertProposal, TypeOK
  <2>3. \A q \in Ids : status[q] # "absent" => status'[q] # "absent"
    BY <1>0 DEF InsertProposal, TypeOK
  <2> QED BY <1>1, <2>1, <2>2, <2>3 DEF DecidedExists, NoCall
<1> QED BY <1>2, <1>3, <1>4, <1>5

\* A task changes its status, and perhaps its decision, and none appears.
LEMMA StatusKeepsIInv ==
    ASSUME IInv, NEW p \in Ids, NEW s \in Status, NEW d \in {supervisor[p], "approved", "rejected"},
           status[p] # "absent",
           status' = [status EXCEPT ![p] = s],
           supervisor' = [supervisor EXCEPT ![p] = d],
           s \notin NotStarted => d \in Approved,
           \/ call' = call
           \/ \E c \in Processes, next \in Call :
                /\ call' = [call EXCEPT ![c] = next]
                /\ next.step \in {"idle", "listed"},
           UNCHANGED <<recent, today, stale, stored>>
    PROVE  IInv'
<1> USE DEF IInv
<1>1. TypeOK'
  BY DEF TypeOK, Approved
<1>2. ExecutedIsApproved'
  BY DEF ExecutedIsApproved, TypeOK
<1>3. \A q \in Ids : status'[q] # "absent" <=> status[q] # "absent"
  BY Graph DEF TypeOK
<1>4. \A c \in Processes :
        \/ call'[c] = call[c]
        \/ call'[c].step \in {"idle", "listed"}
  BY DEF TypeOK
<1>5. CreatedOnce'
  <2>1. \A c \in Processes : Creating(c)' => Creating(c) /\ call'[c] = call[c]
    BY <1>4 DEF Creating
  <2>2. Callers \subseteq Processes
    BY DEF Processes
  <2> QED BY <1>3, <2>1, <2>2 DEF CreatedOnce
<1>6. DecidedExists'
  <2>1. \A q \in Ids : status'[q] = "absent" => supervisor'[q] = "none"
    BY <1>3 DEF DecidedExists, TypeOK
  <2> QED BY <1>3, <1>4, <2>1 DEF DecidedExists
<1> QED BY <1>1, <1>2, <1>5, <1>6

\* Every step keeps the inductive invariant.
LEMMA NextKeepsIInv == IInv /\ [Next]_vars => IInv'
<1> SUFFICES ASSUME IInv, [Next]_vars PROVE IInv'
  OBVIOUS
<1> USE ProposalAssumption DEF IInv
<1>0. NoCall \in Call
  BY DEF NoCall, Call
<1>1. ASSUME NEW c \in Processes, Reject(c) PROVE IInv'
  <2> DEFINE next == IF c = Cleaner THEN [call[c] EXCEPT !.step = "listed", !.id = NoId]
                                    ELSE NoCall
  <2>1. next \in Call /\ next.step \in {"idle", "listed"}
    BY <1>0 DEF TypeOK, Call, NoCall
  <2>2. call' = [call EXCEPT ![c] = next]
    BY <1>1 DEF Reject
  <2>3. call[c].id \in Ids /\ status[call[c].id] # "absent"
    BY <1>1 DEF Reject, DecidedExists
  <2> HIDE DEF next
  <2> QED BY <1>1, <2>1, <2>2, <2>3, StatusKeepsIInv, Graph DEF Reject, NotStarted
<1>2. ASSUME NEW c \in Processes, Approve(c) PROVE IInv'
  <2>1. call[c].id \in Ids /\ status[call[c].id] # "absent"
    BY <1>2 DEF Approve, DecidedExists
  <2> QED BY <1>0, <1>2, <2>1, StatusKeepsIInv, Graph DEF Approve, NotStarted, NoCall
<1>3. ASSUME NEW c \in Processes, Rollback(c) PROVE IInv'
  BY <1>0, <1>3, CallKeepsIInv DEF Rollback, NoCall
<1>4. ASSUME NEW c \in Callers, CallerStep(c) PROVE IInv'
  <2>0. c \in Processes /\ call[c] \in Call
    BY DEF Processes, TypeOK
  <2>1. ASSUME NEW p \in Ids, ProposeTask(c, p) PROVE IInv'
    BY <2>1, ProposeKeepsIInv
  <2>2. ASSUME NEW p \in Ids, ApproveProposal(c, p) \/ RejectProposal(c, p) PROVE IInv'
    <3> DEFINE next(step) == [step |-> step, id |-> p, todo |-> {}]
    <3>1. PICK step \in {"approving", "rejecting"} : call' = [call EXCEPT ![c] = next(step)]
      BY <2>0, <2>2 DEF ApproveProposal, RejectProposal, Open, Call
    <3>2. next(step) \in Call
      BY <2>0 DEF Call
    <3>3. status[p] # "absent"
      BY <2>2 DEF ApproveProposal, RejectProposal, Decidable, DecidedExists
    <3> QED BY <2>0, <2>2, <3>1, <3>2, <3>3, CallKeepsIInv DEF ApproveProposal, RejectProposal
  <2>3. CASE CountWindows(c)
    <3>1. call[c].step = "counting"
      BY <2>3 DEF CountWindows
    <3>2. CASE Open(c, "inserting", call[c].id)
      <4> DEFINE next == [step |-> "inserting", id |-> call[c].id, todo |-> {}]
      <4>1. next \in Call /\ call' = [call EXCEPT ![c] = next]
        BY <2>0, <3>2 DEF Open, Call
      <4> QED BY <2>0, <2>3, <3>1, <4>1, CallKeepsIInv DEF CountWindows, Creating
    <3>3. CASE call' = [call EXCEPT ![c] = NoCall]
      BY <1>0, <2>0, <2>3, <3>3, CallKeepsIInv DEF CountWindows, NoCall
    <3> QED BY <2>3, <3>2, <3>3 DEF CountWindows
  <2>4. CASE InsertProposal(c)
    BY <2>4, InsertKeepsIInv
  <2> QED BY <1>1, <1>2, <1>3, <1>4, <2>0, <2>1, <2>2, <2>3, <2>4 DEF CallerStep
<1>5. CASE CleanerStep
  <2>0. Cleaner \in Processes /\ call[Cleaner] \in Call
    BY DEF Processes, TypeOK
  <2>1. CASE ListStale(Cleaner)
    <3> DEFINE next == [call[Cleaner] EXCEPT !.step = "listed",
                          !.todo = {p \in stale : supervisor[p] = "proposed"}]
    <3>1. next \in Call /\ next.step = "listed" /\ call' = [call EXCEPT ![Cleaner] = next]
      BY <2>0, <2>1 DEF ListStale, Call, TypeOK
    <3> HIDE DEF next
    <3> QED BY <2>0, <2>1, <3>1, CallKeepsIInv DEF ListStale
  <2>2. CASE CleanNext(Cleaner)
    <3>1. PICK next \in Call :
            /\ call' = [call EXCEPT ![Cleaner] = next]
            /\ \/ next.step \in {"idle", "listed"}
               \/ next.step = "rejecting" /\ next.id \in Ids /\ Decidable(next.id, "cancelled")
      <4>1. CASE call' = [call EXCEPT ![Cleaner] = NoCall]
        BY <4>1, <1>0 DEF NoCall
      <4>2. ASSUME NEW p \in call[Cleaner].todo, Decidable(p, "cancelled"),
                   call' = [call EXCEPT ![Cleaner] =
                              [step |-> "rejecting", id |-> p, todo |-> @.todo \ {p}]]
            PROVE  \E next \in Call :
                     /\ call' = [call EXCEPT ![Cleaner] = next]
                     /\ next.step = "rejecting" /\ next.id \in Ids /\ Decidable(next.id, "cancelled")
        <5> DEFINE next == [step |-> "rejecting", id |-> p, todo |-> call[Cleaner].todo \ {p}]
        <5>1. next \in Call /\ p \in Ids
          BY <2>0, <4>2 DEF Call
        <5> QED BY <4>2, <5>1
      <4>3. ASSUME NEW p \in call[Cleaner].todo,
                   call' = [call EXCEPT ![Cleaner].todo = @ \ {p}]
            PROVE  \E next \in Call : /\ call' = [call EXCEPT ![Cleaner] = next]
                                      /\ next.step = "listed"
        <5> DEFINE next == [call[Cleaner] EXCEPT !.todo = call[Cleaner].todo \ {p}]
        <5>1. next \in Call /\ next.step = "listed" /\ call' = [call EXCEPT ![Cleaner] = next]
          BY <2>0, <2>2, <4>3 DEF CleanNext, Call
        <5> HIDE DEF next
        <5> QED BY <5>1
      <4> QED BY <2>2, <4>1, <4>2, <4>3 DEF CleanNext
    <3>2. next.step = "rejecting" => next.id \in Ids /\ status[next.id] # "absent"
      BY <3>1 DEF Decidable, DecidedExists
    <3> QED BY <2>0, <2>2, <3>1, <3>2, CallKeepsIInv DEF CleanNext
  <2> QED BY <1>1, <1>3, <1>5, <2>0, <2>1, <2>2 DEF CleanerStep
<1>6. ASSUME NEW p \in Ids, TaskStep(p) PROVE IInv'
  <2>1. CASE Claim(p)
    BY <2>1, StatusKeepsIInv, Graph DEF Claim, Claimable, TypeOK
  <2>2. ASSUME NEW s \in Requested, SetStatus(p, s) PROVE IInv'
    <3>1. s \in Status /\ status[p] \in Status /\ status[p] # "absent"
      BY <2>2 DEF SetStatus, TypeOK
    <3>2. s \notin NotStarted => supervisor[p] \in Approved
      BY <2>2, <3>1, Graph DEF SetStatus, ExecutedIsApproved
    <3>3. supervisor' = [supervisor EXCEPT ![p] = supervisor[p]]
      BY <2>2 DEF SetStatus, TypeOK
    <3> QED BY <2>2, <3>1, <3>2, <3>3, StatusKeepsIInv DEF SetStatus
  <2>3. CASE LeaveWindow(p) \/ GrowStale(p)
    BY <2>3 DEF LeaveWindow, GrowStale, rows, TypeOK, ExecutedIsApproved, CreatedOnce, Creating,
                DecidedExists
  <2> QED BY <1>6, <2>1, <2>2, <2>3 DEF TaskStep
<1>7. CASE Midnight \/ UNCHANGED vars
  BY <1>7 DEF Midnight, vars, TypeOK, ExecutedIsApproved, CreatedOnce, Creating, DecidedExists
<1> QED BY <1>4, <1>5, <1>6, <1>7 DEF Next

-----------------------------------------------------------------------------
\* The inductive invariant holds in every reachable state.
THEOREM ProposalInvariant == Spec => []IInv
BY InitIInv, NextKeepsIInv, PTL DEF Spec

\* Type correctness of the proposal tables and open calls.
THEOREM TypeCorrect == Spec => []TypeOK
BY ProposalInvariant, PTL DEF IInv

\* No proposed task is past its claim without an approval that stands, however
\* decisions, cleanups, people and claims interleave.
THEOREM Executed == Spec => []ExecutedIsApproved
BY ProposalInvariant, PTL DEF IInv

\* A retry never meets its own key, for any number of connections.
THEOREM RetriesAnswered == Spec => []RetriesDoNotCollide
<1>1. IInv => RetriesDoNotCollide
  <2> SUFFICES ASSUME IInv, NEW c \in Processes, Creating(c), Key[call[c].id] # NoKey,
                      NEW q \in Ids, status[q] # "absent", Key[q] = Key[call[c].id]
               PROVE  FALSE
    BY DEF RetriesDoNotCollide, KeyFree
  <2>1. stored[Key[q]] = q /\ stored[Key[q]] = NoId
    BY DEF IInv, CreatedOnce
  <2> QED BY <2>1, ProposalAssumption
<1> QED BY <1>1, ProposalInvariant, PTL

-----------------------------------------------------------------------------
(* The overshoot of the window *)

\* Connections that have seen room in the window and will insert on it.
Inserting == {c \in Callers : call[c].step = "inserting"}

\* Every insertion to come was allowed by a count below the limit, and there
\* are no more of them than connections: each moves one unit from the one
\* set to the other.
RoomIsCounted ==
    /\ IsFiniteSet(recent)
    /\ Cardinality(recent) + Cardinality(Inserting) < WindowLimit + Cardinality(Callers)

\* The open insertions are finitely many, at most one per connection.
LEMMA InsertingIsFinite ==
    /\ IsFiniteSet(Inserting)
    /\ Cardinality(Inserting) \in Nat
    /\ Cardinality(Callers) \in Nat
    /\ Cardinality(Inserting) <= Cardinality(Callers)
BY ProposalAssumption, FS_Subset, FS_CardinalityType DEF Inserting

\* Neither the window nor the open insertions grow.
LEMMA ShrinkKeepsRoom ==
    ASSUME RoomIsCounted, recent' \subseteq recent, Inserting' \subseteq Inserting
    PROVE  RoomIsCounted'
<1>1. /\ IsFiniteSet(recent') /\ Cardinality(recent') <= Cardinality(recent)
      /\ Cardinality(recent) \in Nat /\ Cardinality(recent') \in Nat
  BY FS_Subset, FS_CardinalityType DEF RoomIsCounted
<1>2. /\ Cardinality(Inserting') <= Cardinality(Inserting)
      /\ Cardinality(Inserting) \in Nat /\ Cardinality(Inserting') \in Nat
  BY InsertingIsFinite, FS_Subset, FS_CardinalityType
<1> QED BY <1>1, <1>2, InsertingIsFinite, ProposalAssumption DEF RoomIsCounted

\* A connection counts: it goes on only below the limit.
LEMMA CountKeepsRoom ==
    ASSUME IInv, RoomIsCounted, NEW c \in Callers, CountWindows(c)
    PROVE  RoomIsCounted'
<1>1. CASE WithinLimits
  <2>1. recent' = recent /\ Cardinality(recent) < WindowLimit /\ Cardinality(recent) \in Nat
    BY <1>1, FS_CardinalityType DEF CountWindows, rows, WithinLimits, RoomIsCounted
  <2>2. (Cardinality(Inserting) <= Cardinality(Callers) /\ Cardinality(Inserting) \in Nat)'
    BY InsertingIsFinite, PTL
  <2> QED BY <2>1, <2>2, InsertingIsFinite, ProposalAssumption DEF RoomIsCounted
<1>2. CASE ~WithinLimits
  <2>1. recent' = recent /\ call' = [call EXCEPT ![c] = NoCall]
    BY <1>2 DEF CountWindows, rows
  <2>2. Inserting' \subseteq Inserting
    BY <2>1 DEF Inserting, NoCall, IInv, TypeOK, Processes
  <2> QED BY <2>1, <2>2, ShrinkKeepsRoom
<1> QED BY <1>1, <1>2

\* A connection inserts: one more in the window, one less to come.
LEMMA InsertKeepsRoom ==
    ASSUME IInv, RoomIsCounted, NEW c \in Callers, InsertProposal(c)
    PROVE  RoomIsCounted'
<1>1. c \in Inserting /\ Inserting' = Inserting \ {c}
  BY DEF InsertProposal, Inserting, NoCall, IInv, TypeOK, Processes
<1>2. /\ Cardinality(Inserting') = Cardinality(Inserting) - 1
      /\ Cardinality(Inserting) \in Nat
  BY <1>1, InsertingIsFinite, FS_RemoveElement
<1>3. /\ IsFiniteSet(recent') /\ Cardinality(recent) \in Nat
      /\ Cardinality(recent') \in {Cardinality(recent), Cardinality(recent) + 1}
  <2>1. recent' = recent \cup {call[c].id}
    BY DEF InsertProposal
  <2> QED BY <2>1, FS_AddElement, FS_CardinalityType DEF RoomIsCounted
<1> QED BY <1>2, <1>3, InsertingIsFinite, ProposalAssumption DEF RoomIsCounted

LEMMA NextKeepsRoom == IInv /\ RoomIsCounted /\ [Next]_vars => RoomIsCounted'
<1> SUFFICES ASSUME IInv, RoomIsCounted, [Next]_vars PROVE RoomIsCounted'
  OBVIOUS
<1>0. /\ \A c \in Callers : c \in Processes /\ c # Cleaner
      /\ DOMAIN call = Processes /\ call \in [Processes -> Call]
  BY ProposalAssumption DEF Processes, IInv, TypeOK
<1>1. ASSUME \A c \in Callers : call'[c].step = "inserting" => call[c].step = "inserting",
             recent' \subseteq recent
      PROVE  RoomIsCounted'
  BY <1>1, ShrinkKeepsRoom DEF Inserting
<1>2. ASSUME NEW c \in Callers, CallerStep(c) PROVE RoomIsCounted'
  <2>1. ASSUME NEW p \in Ids, ProposeTask(c, p) \/ ApproveProposal(c, p) \/ RejectProposal(c, p)
        PROVE  RoomIsCounted'
    BY <1>0, <1>1, <2>1 DEF ProposeTask, ApproveProposal, RejectProposal, Open, rows
  <2>2. CASE Approve(c) \/ Reject(c) \/ Rollback(c)
    BY <1>0, <1>1, <2>2 DEF Approve, Reject, Rollback, NoCall, rows
  <2> QED BY <1>2, <2>1, <2>2, CountKeepsRoom, InsertKeepsRoom DEF CallerStep
<1>3. CASE CleanerStep
  <2>1. \A c \in Callers : call'[c] = call[c]
    BY <1>0, <1>3 DEF CleanerStep, ListStale, CleanNext, Reject, Rollback
  <2>2. recent' = recent
    BY <1>3 DEF CleanerStep, ListStale, CleanNext, Reject, Rollback, rows
  <2> QED BY <1>1, <2>1, <2>2
<1>4. ASSUME NEW p \in Ids, TaskStep(p) PROVE RoomIsCounted'
  <2>1. call' = call /\ recent' \subseteq recent
    BY <1>4 DEF TaskStep, Claim, SetStatus, LeaveWindow, GrowStale, rows
  <2> QED BY <1>1, <2>1
<1>5. CASE Midnight \/ UNCHANGED vars
  <2>1. call' = call /\ recent' = recent
    BY <1>5 DEF Midnight, vars
  <2> QED BY <1>1, <2>1
<1> QED BY <1>2, <1>3, <1>4, <1>5 DEF Next

\* Calls that overlap exceed the window's limit by fewer than there are
\* connections, for any limit and any number of them: each reads the count
\* before it inserts, and no lock keeps the count as it was.
THEOREM Overshoot == Spec => []OvershootIsBounded
<1>1. Init /\ WindowLimit > 0 => RoomIsCounted
  <2> SUFFICES ASSUME Init, WindowLimit > 0 PROVE RoomIsCounted
    OBVIOUS
  <2>1. Inserting = {} /\ recent = {}
    BY DEF Init, Inserting, NoCall, Processes
  <2> QED BY <2>1, FS_EmptySet, InsertingIsFinite, ProposalAssumption DEF RoomIsCounted
<1>2. RoomIsCounted => OvershootIsBounded
  BY InsertingIsFinite, FS_CardinalityType, ProposalAssumption
     DEF RoomIsCounted, OvershootIsBounded
<1>3. CASE WindowLimit > 0
  BY <1>1, <1>2, <1>3, NextKeepsRoom, ProposalInvariant, PTL DEF Spec
<1>4. CASE ~(WindowLimit > 0)
  <2>1. OvershootIsBounded
    BY <1>4 DEF OvershootIsBounded
  <2> QED BY <2>1, PTL
<1> QED BY <1>3, <1>4
=============================================================================
