------------------------ MODULE InternalWorkerProofs ------------------------
(***************************************************************************)
(* What holds of the workers of internal tracker mode for any number of    *)
(* workers, tasks and repositories.                                        *)
(*                                                                         *)
(* WorkersApart follows from the leases alone: a worker that holds a claim *)
(* is covered by two live leases of its own, and unreleased leases are     *)
(* exclusive.  It needs heartbeats in time, so "lapse" is no fault here.   *)
(* What is in a working copy then concerns one worker at a time, which is  *)
(* what OneTaskDirty and OnlyGatedIsPushed rest on.                        *)
(***************************************************************************)
EXTENDS InternalWorker, TLAPS

\* A worker that holds a claim has both leases of its task, and they are live.
Covered(w) ==
    \A k \in Q!LeaseKinds :
        \E l \in leases : l.kind = k /\ l.task = run[w].task /\ l.worker = w /\ l.left > 0
HoldersCovered == \A w \in Workers : Holding(w) => run[w].task \in Tasks /\ Covered(w)

\* From the checkout to the gates no other task of the repository is dirty in
\* the working copy.
InCheckout == {"looking", "prompting", "coded", "checking", "refixing", "repairing"}
CleanCheckout == \A w \in Workers : run[w].at \in InCheckout => ~DirtyElsewhere(run[w].task)

\* From the gates to the push the content stays as it passed.
PastGates == {"committing", "pushing"}
GatedUntilPushed == \A w \in Workers : run[w].at \in PastGates => branch[run[w].task].gated

\* Well-typed, and what a worker holds is a task.
Sound == TypeOK /\ \A w \in Workers : Holding(w) => run[w].task \in Tasks

IInv ==
    /\ TypeOK
    /\ Q!LeaseExclusive
    /\ HoldersCovered
    /\ OneTaskDirty
    /\ CleanCheckout
    /\ GatedUntilPushed

HoldersAlone == \A v, w \in Workers :
    v # w /\ Holding(v) /\ Holding(w) => RepoOf[run[v].task] # RepoOf[run[w].task]

-----------------------------------------------------------------------------
(* Leases *)

\* Two workers that hold claims hold them in different repositories: the live
\* repository leases of one repository are one lease, of one worker.
LEMMA HoldersStayAlone == HoldersCovered /\ Q!LeaseExclusive => HoldersAlone
<1> SUFFICES ASSUME HoldersCovered, Q!LeaseExclusive, NEW v \in Workers, NEW w \in Workers,
                    v # w, Holding(v), Holding(w)
             PROVE  RepoOf[run[v].task] # RepoOf[run[w].task]
  BY DEF HoldersAlone
<1>1. PICK l \in leases : l.kind = "repository" /\ l.task = run[v].task /\ l.worker = v
  BY DEF HoldersCovered, Covered, Q!LeaseKinds
<1>2. PICK m \in leases : m.kind = "repository" /\ m.task = run[w].task /\ m.worker = w
  BY DEF HoldersCovered, Covered, Q!LeaseKinds
<1>3. l # m
  BY <1>1, <1>2
<1> QED BY <1>1, <1>2, <1>3 DEF Q!LeaseExclusive, Q!SameKey

\* A step of one worker that takes no claim: what it holds afterwards it held
\* before, and only lapsed leases go, or its own when it holds none any more.
SameHold(w) ==
    /\ run' \in [Workers -> Run]
    /\ \A v \in Workers \ {w} : run'[v] = run[v]
    /\ Holding(w)' => Holding(w) /\ run'[w].task = run[w].task

LeasesKept(w) ==
    /\ leases' \subseteq leases
    /\ \A l \in leases : l.left > 0 /\ (l.worker # w \/ Holding(w)') => l \in leases'

LEMMA KeptLeasesKeepHolders ==
    ASSUME IInv, NEW w \in Workers, SameHold(w), LeasesKept(w)
    PROVE  Q!LeaseExclusive' /\ HoldersCovered'
<1>1. Q!LeaseExclusive'
  BY DEF IInv, LeasesKept, Q!LeaseExclusive, Q!SameKey
<1>2. ASSUME NEW v \in Workers, Holding(v)'
      PROVE  Holding(v) /\ run'[v].task = run[v].task /\ (v # w \/ Holding(w)')
  BY <1>2 DEF SameHold, Holding
<1>3. ASSUME NEW v \in Workers, Holding(v)' PROVE run'[v].task \in Tasks /\ Covered(v)'
  BY <1>2, <1>3 DEF IInv, HoldersCovered, Covered, LeasesKept
<1> QED BY <1>1, <1>3 DEF HoldersCovered

\* A claim: the candidate has no live lease on its task or its repository.
LEMMA ClaimKeepsHolders ==
    ASSUME IInv, NEW w \in Workers, NEW t \in Tasks, NEW for \in {"claim", "review"},
           Q!Candidate(w, t, for, Q!LapsedFor(w)), ~Holding(w),
           leases' = Live \cup Q!LeasePair(w, t),
           \A v \in Workers \ {w} : run'[v] = run[v],
           run'[w].task = t
    PROVE  Q!LeaseExclusive' /\ HoldersCovered'
<1> USE WorkerAssumption
<1>1. \A l \in Live : Q!RowOf(l) \notin Q!LapsedFor(w)
  <2> SUFFICES ASSUME NEW l \in Live, NEW m \in leases, Q!RowOf(l) = Q!RowOf(m), ~Q!ActiveFor(w, m)
               PROVE  FALSE
    BY DEF Q!LapsedFor
  <2>1. l = m
    BY DEF IInv, Live, Q!LeaseExclusive, Q!SameKey, Q!RowOf
  <2> QED BY <2>1 DEF Live, Q!ActiveFor
<1>2. \A l \in Live : /\ l.kind = "task" => l.task # t
                      /\ l.kind = "repository" => RepoOf[l.task] # RepoOf[t]
  BY <1>1 DEF Q!Candidate, Live
<1>3. \A l \in Q!LeasePair(w, t) : /\ l.kind \in {"task", "repository"} /\ l.task = t
                                   /\ l.worker = w /\ l.left > 0
  BY DEF Q!LeasePair, Q!LeaseKinds
<1>3a. ASSUME NEW k \in Q!LeaseKinds PROVE \E l \in Q!LeasePair(w, t) : l.kind = k
  <2> DEFINE row == [kind |-> k, task |-> t, worker |-> w,
                     left |-> Ttl + [v \in Workers |-> 0][w]]
  <2>1. row \in Q!LeasePair(w, t)
    BY Zenon DEF Q!LeasePair
  <2>2. row.kind = k
    OBVIOUS
  <2> QED BY <2>1, <2>2
<1>4. \A l, m \in Q!LeasePair(w, t) : l.kind = m.kind => l = m
  BY DEF Q!LeasePair
<1>5. Q!LeaseExclusive'
  <2> SUFFICES ASSUME NEW l \in leases', NEW m \in leases', Q!SameKey(l, m) PROVE l = m
    BY DEF Q!LeaseExclusive, Q!SameKey
  <2>1. CASE l \in Live /\ m \in Live
    BY <2>1 DEF IInv, Live, Q!LeaseExclusive
  <2>2. CASE l \in Q!LeasePair(w, t) /\ m \in Q!LeasePair(w, t)
    BY <1>4, <2>2 DEF Q!SameKey
  <2>3. CASE l \in Live /\ m \in Q!LeasePair(w, t)
    BY <1>2, <1>3, <2>3 DEF Q!SameKey
  <2>4. CASE l \in Q!LeasePair(w, t) /\ m \in Live
    BY <1>2, <1>3, <2>4 DEF Q!SameKey
  <2> QED BY <2>1, <2>2, <2>3, <2>4
<1>6. HoldersCovered'
  <2> SUFFICES ASSUME NEW v \in Workers, Holding(v)' PROVE run'[v].task \in Tasks /\ Covered(v)'
    BY DEF HoldersCovered
  <2>1. CASE v = w
    BY <1>3, <1>3a, <2>1 DEF Covered
  <2>2. CASE v # w
    BY <2>2 DEF IInv, HoldersCovered, Covered, Holding, Live
  <2> QED BY <2>1, <2>2
<1> QED BY <1>5, <1>6

-----------------------------------------------------------------------------
(* Working copies *)

\* What a step of one worker may do to the working copies: change the copy of
\* its own task while it holds a claim, dirty it only between the checkout and
\* the gates, and enter that stretch, and the one past the gates, in order.
OwnBranchOnly(w) ==
    /\ Holding(w)
    /\ branch' \in [Tasks -> Branch]
    /\ \A u \in Tasks \ {run[w].task} : branch'[u] = branch[u]
    /\ branch'[run[w].task].dirty => branch[run[w].task].dirty \/ run[w].at \in InCheckout

InOrder(w) ==
    /\ run'[w].at \in InCheckout =>
         /\ run'[w].task = run[w].task
         /\ run[w].at \in InCheckout \/ ~DirtyElsewhere(run[w].task)
    /\ run'[w].at \in PastGates =>
         /\ run'[w].task = run[w].task
         /\ \/ branch'[run[w].task].gated
            \/ /\ run[w].at \in PastGates
               /\ branch'[run[w].task].gated = branch[run[w].task].gated

Effect(w) ==
    /\ run' \in [Workers -> Run]
    /\ \A v \in Workers \ {w} : run'[v] = run[v]
    /\ branch' = branch \/ OwnBranchOnly(w)
    /\ InOrder(w)

\* Such a step keeps every working copy in order: the copies of the others are
\* in other repositories.
LEMMA EffectKeepsCopies ==
    ASSUME IInv, NEW w \in Workers, Effect(w)
    PROVE  OneTaskDirty' /\ CleanCheckout' /\ GatedUntilPushed'
<1>0. HoldersAlone
  BY HoldersStayAlone DEF IInv
<1>1. CASE branch' = branch
  <2>1. OneTaskDirty'
    BY <1>1 DEF IInv, OneTaskDirty
  <2>2. \A t : DirtyElsewhere(t)' <=> DirtyElsewhere(t)
    BY <1>1 DEF DirtyElsewhere
  <2>3. CleanCheckout'
    BY <2>2 DEF IInv, CleanCheckout, Effect, InOrder
  <2>4. GatedUntilPushed'
    BY <1>1 DEF IInv, GatedUntilPushed, Effect, InOrder
  <2> QED BY <2>1, <2>3, <2>4
<1>2. CASE OwnBranchOnly(w)
  <2>0. PICK t \in Tasks : t = run[w].task
    BY <1>2 DEF OwnBranchOnly, IInv, HoldersCovered
  <2>1. OneTaskDirty'
    <3> SUFFICES ASSUME NEW u \in Tasks, NEW x \in Tasks, branch'[u].dirty, branch'[x].dirty,
                        RepoOf[u] = RepoOf[x], u # x
                 PROVE  FALSE
      BY DEF OneTaskDirty
    <3>1. CASE u # t /\ x # t
      BY <1>2, <2>0, <3>1 DEF OwnBranchOnly, IInv, OneTaskDirty
    <3>2. CASE u = t \/ x = t
      <4>1. DirtyElsewhere(t)
        BY <1>2, <2>0, <3>2 DEF OwnBranchOnly, DirtyElsewhere
      <4>2. branch[t].dirty
        BY <1>2, <2>0, <3>2, <4>1 DEF OwnBranchOnly, IInv, CleanCheckout
      <4> QED BY <2>0, <4>1, <4>2 DEF IInv, OneTaskDirty, DirtyElsewhere
    <3> QED BY <3>1, <3>2
  <2>2. ASSUME NEW v \in Workers, v # w, Holding(v)
        PROVE  RepoOf[run[v].task] # RepoOf[t] /\ run[v].task # t /\ run[v].task \in Tasks
    BY <1>0, <1>2, <2>0, <2>2 DEF HoldersAlone, OwnBranchOnly, IInv, HoldersCovered
  <2>3. DirtyElsewhere(t)' => DirtyElsewhere(t)
    BY <1>2, <2>0 DEF OwnBranchOnly, DirtyElsewhere
  <2>4. ASSUME NEW v \in Workers, v # w, Holding(v)
        PROVE  DirtyElsewhere(run[v].task)' => DirtyElsewhere(run[v].task)
    <3>1. PICK u \in Tasks : u = run[v].task /\ u = run'[v].task
      BY <2>2, <2>4 DEF Effect
    <3>2. DirtyElsewhere(u)' => DirtyElsewhere(u)
      BY <1>2, <2>0, <2>2, <2>4, <3>1 DEF OwnBranchOnly, DirtyElsewhere
    <3> QED BY <3>1, <3>2 DEF DirtyElsewhere
  <2>5. \A v \in Workers : run[v].at \in InCheckout \cup PastGates => Holding(v)
    BY DEF InCheckout, PastGates, Holding
  <2>6. CleanCheckout'
    <3> SUFFICES ASSUME NEW v \in Workers, run'[v].at \in InCheckout
                 PROVE  ~DirtyElsewhere(run[v].task)'
      BY DEF CleanCheckout
    <3>1. CASE v = w
      BY <2>0, <2>3, <3>1 DEF Effect, InOrder, IInv, CleanCheckout, DirtyElsewhere
    <3>2. CASE v # w
      BY <2>4, <2>5, <3>2 DEF Effect, IInv, CleanCheckout
    <3> QED BY <3>1, <3>2
  <2>7. GatedUntilPushed'
    <3> SUFFICES ASSUME NEW v \in Workers, run'[v].at \in PastGates
                 PROVE  branch'[run'[v].task].gated
      BY DEF GatedUntilPushed
    <3>1. CASE v = w
      BY <3>1 DEF Effect, InOrder, IInv, GatedUntilPushed
    <3>2. CASE v # w
      BY <1>2, <2>0, <2>2, <2>5, <3>2 DEF Effect, OwnBranchOnly, IInv, GatedUntilPushed
    <3> QED BY <3>1, <3>2
  <2> QED BY <2>1, <2>6, <2>7
<1> QED BY <1>1, <1>2 DEF Effect

-----------------------------------------------------------------------------
(* The steps of a worker *)

\* A step that takes a worker on with the same claim.
Goes(w, S) ==
    /\ run' \in [Workers -> Run]
    /\ \A v \in Workers \ {w} : run'[v] = run[v]
    /\ run'[w].at \in S
    /\ run'[w].task = run[w].task
    /\ run'[w].for = run[w].for
    /\ run'[w].todo \subseteq run[w].todo

LEMMA GoGoes ==
    ASSUME TypeOK, NEW w \in Workers, NEW stage \in Stages, Go(w, stage)
    PROVE  Goes(w, {stage})
BY DEF TypeOK, Go, Goes, Run

LEMMA MoveGoes ==
    ASSUME TypeOK, NEW w \in Workers, NEW stage \in Stages, NEW s \in Status,
           run[w].task \in Tasks, Move(w, s, stage)
    PROVE  /\ Goes(w, {stage, "failing"})
           /\ status' \in [Tasks -> Status]
<1>1. "failing" \in Stages
  BY DEF Stages
<1>2. CASE Go(w, stage) /\ status' = [status EXCEPT ![run[w].task] = s]
  <2>1. Goes(w, {stage})
    BY <1>2, GoGoes
  <2> QED BY <1>2, <2>1 DEF Goes, TypeOK
<1>3. CASE Go(w, "failing") /\ UNCHANGED status
  <2>1. Goes(w, {"failing"})
    BY <1>1, <1>3, GoGoes
  <2> QED BY <1>3, <2>1 DEF Goes, TypeOK
<1> QED BY <1>2, <1>3 DEF Move

\* How a handler ends when the external tracker may be out of reach.
LEMMA UnwoundGoes ==
    ASSUME TypeOK, NEW w \in Workers, NEW stage \in Stages,
           NEW next \in Unwound(w, stage), run' = [run EXCEPT ![w] = next]
    PROVE  Goes(w, {stage})
<1>1. \/ next = [run[w] EXCEPT !.at = stage, !.handled = TRUE]
      \/ next = [run[w] EXCEPT !.at = stage]
      \/ next = [run[w] EXCEPT !.at = stage, !.handled = TRUE, !.todo = {}]
  BY DEF Unwound
<1>2. run[w] \in Run
  BY DEF TypeOK
<1>3. /\ next \in Run /\ next.at = stage /\ next.task = run[w].task
      /\ next.for = run[w].for /\ next.todo \subseteq run[w].todo
  BY <1>1, <1>2 DEF Run
<1> QED BY <1>3 DEF TypeOK, Goes

\* What every step of a worker but a claim keeps in order.
KeepsOrder(w) == TypeOK' /\ LeasesKept(w) /\ Effect(w) /\ SameHold(w)

\* A step that changes no working copy.
LEMMA PlainStep ==
    ASSUME Sound, NEW w \in Workers, Holding(w), NEW S, Goes(w, S),
           S \cap PastGates = {}, S \cap InCheckout = {} \/ run[w].at \in InCheckout,
           status' \in [Tasks -> Status], notes' \in [Tasks -> Notes],
           UNCHANGED <<leases, branch, answering>>
    PROVE  KeepsOrder(w)
<1>1. TypeOK'
  BY DEF Sound, TypeOK, Goes
<1>2. Effect(w)
  BY DEF Goes, Effect, InOrder
<1>3. SameHold(w)
  BY DEF Goes, SameHold, Holding
<1> QED BY <1>1, <1>2, <1>3 DEF KeepsOrder, LeasesKept

\* A step that changes the working copy of the worker's own task.
LEMMA CopyStep ==
    ASSUME Sound, NEW w \in Workers, NEW S, Goes(w, S), OwnBranchOnly(w),
           S \cap InCheckout = {} \/ run[w].at \in InCheckout \/ ~DirtyElsewhere(run[w].task),
           \/ S \cap PastGates = {}
           \/ branch'[run[w].task].gated
           \/ run[w].at \in PastGates /\ branch'[run[w].task].gated = branch[run[w].task].gated,
           notes' \in [Tasks -> Notes], UNCHANGED <<status, leases, answering>>
    PROVE  KeepsOrder(w)
<1>1. TypeOK'
  BY DEF Sound, TypeOK, Goes, OwnBranchOnly
<1>2. Effect(w)
  BY DEF Goes, Effect, InOrder
<1>3. SameHold(w)
  BY DEF Goes, SameHold, Holding, OwnBranchOnly
<1> QED BY <1>1, <1>2, <1>3 DEF KeepsOrder, LeasesKept

\* Steps that set a status.
LEMMA MovingSteps ==
    ASSUME Sound, NEW w \in Workers,
           \/ StartAnalysis(w) \/ Pause(w) \/ Split(w) \/ StartCoding(w)
           \/ StartChecking(w) \/ StartRepair(w) \/ Finish(w) \/ BackToReview(w)
    PROVE  KeepsOrder(w)
<1> DEFINE Into == {"analyzing", "mirroring", "planning", "coding", "failing"}
           Within == {"checking", "repairing", "failing"}
<1>0. /\ {"analyzing", "awaiting_human", "decomposing", "implementing", "validating",
           "review", "fixing_review"} \subseteq Status
      /\ Into \cup Within \subseteq Stages
      /\ (Into \cup Within) \cap PastGates = {} /\ Into \cap InCheckout = {}
  BY DEF Status, AllowedTransitions, Stages, PastGates, InCheckout
<1>1. Holding(w) /\ run[w].task \in Tasks
  BY DEF StartAnalysis, Pause, Split, StartCoding, StartChecking, StartRepair, Finish,
         BackToReview, Holding, Sound
<1>2. UNCHANGED <<leases, notes, branch, answering>> /\ notes' \in [Tasks -> Notes]
  BY DEF StartAnalysis, Pause, Split, StartCoding, StartChecking, StartRepair, Finish,
         BackToReview, outside, Sound, TypeOK
<1>3. CASE StartAnalysis(w) \/ Pause(w) \/ Split(w) \/ StartCoding(w) \/ Finish(w)
             \/ BackToReview(w)
  <2>1. \E s \in Status, stage \in Into : Move(w, s, stage)
    BY <1>0, <1>3 DEF StartAnalysis, Pause, Split, StartCoding, Finish, BackToReview
  <2>2. Goes(w, Into) /\ status' \in [Tasks -> Status]
    BY <1>0, <1>1, <2>1, MoveGoes DEF Goes, Sound
  <2> QED BY <1>0, <1>1, <1>2, <2>2, PlainStep
<1>4. CASE StartChecking(w) \/ StartRepair(w)
  <2>1. run[w].at \in InCheckout /\ \E s \in Status, stage \in Within : Move(w, s, stage)
    BY <1>0, <1>4 DEF StartChecking, StartRepair, InCheckout
  <2>2. Goes(w, Within) /\ status' \in [Tasks -> Status]
    BY <1>0, <1>1, <2>1, MoveGoes DEF Goes, Sound
  <2> QED BY <1>0, <1>1, <1>2, <2>1, <2>2, PlainStep
<1> QED BY <1>3, <1>4

\* Steps that only decide, ask or record.
LEMMA NotingSteps ==
    ASSUME Sound, NEW w \in Workers, Analyze(w) \/ Ask(w) \/ Plan(w) \/ Record(w) \/ Mirror(w)
    PROVE  KeepsOrder(w)
<1> DEFINE Into == {"starting", "asking", "holding", "splitting", "waiting", "failing",
                    "finishing", "leaving"}
<1>0. Into \subseteq Stages /\ Into \cap PastGates = {} /\ Into \cap InCheckout = {}
  BY DEF Stages, PastGates, InCheckout
<1>1. Holding(w) /\ run[w].task \in Tasks
  BY DEF Analyze, Ask, Plan, Record, Mirror, Holding, Sound
<1>2. UNCHANGED <<status, leases, branch, answering>>
  BY DEF Analyze, Ask, Plan, Record, Mirror, outside, tracker
<1>3. notes' \in [Tasks -> Notes]
  <2>1. PICK t \in Tasks : t = run[w].task
    BY <1>1
  <2>2. notes[t] \in Notes /\ notes \in [Tasks -> Notes]
    BY DEF Sound, TypeOK
  <2>3. CASE notes' = notes
    BY <2>2, <2>3
  <2>4. ASSUME NEW v \in Verdicts, notes' = [notes EXCEPT ![t].decision = v]
        PROVE  notes' \in [Tasks -> Notes]
    BY <2>2, <2>4, WorkerAssumption DEF Notes
  <2>5. CASE notes' = [notes EXCEPT ![t].dialog = "asked"]
    BY <2>2, <2>5 DEF Notes
  <2>6. CASE notes' = [notes EXCEPT ![t].recorded = TRUE]
    BY <2>2, <2>6 DEF Notes
  <2> QED BY <2>1, <2>3, <2>4, <2>5, <2>6 DEF Analyze, Ask, Plan, Record, Mirror, tracker
<1>4. \E stage \in Into : Go(w, stage)
  <2>1. \A d \in {"implement", "ask", "human", "decompose"} : Route[d] \in Into
    BY DEF Route
  <2>2. \A t \in Tasks : notes[t].decision \in {"none", "implement", "ask", "human", "decompose"}
    BY DEF Sound, TypeOK, Notes
  <2> QED BY <1>1, <2>1, <2>2, WorkerAssumption DEF Analyze, Ask, Plan, Record, Mirror
<1>5. Goes(w, Into)
  BY <1>0, <1>4, GoGoes DEF Goes, Sound
<1>6. status' \in [Tasks -> Status]
  BY <1>2 DEF Sound, TypeOK
<1> QED BY <1>0, <1>1, <1>2, <1>3, <1>5, <1>6, PlainStep

\* Steps that may change the working copy: the checkout, Codex, the gates, git
\* and what GitLab then says of the branch.
LEMMA CheckoutSteps ==
    ASSUME Sound, NEW w \in Workers, Checkout(w) \/ Prompt(w)
    PROVE  KeepsOrder(w)
<1>0. {"looking", "failing", "coded", "asking"} \subseteq Stages
  BY DEF Stages
<1>1. PICK t \in Tasks : t = run[w].task /\ Holding(w)
  BY DEF Checkout, Prompt, Holding, Sound
<1>2. /\ branch \in [Tasks -> Branch] /\ branch[t] \in Branch /\ notes' \in [Tasks -> Notes]
      /\ UNCHANGED <<status, notes, leases, answering>>
  BY DEF Checkout, Prompt, tracker, Sound, TypeOK
<1>3. CASE Checkout(w)
  <2>1. OwnBranchOnly(w)
    BY <1>1, <1>2, <1>3 DEF Checkout, OwnBranchOnly, Branch
  <2>2. CASE DirtyElsewhere(t)
    <3>1. Goes(w, {"failing"})
      BY <1>0, <1>1, <1>3, <2>2, GoGoes DEF Checkout, Sound
    <3> QED BY <1>2, <2>1, <3>1, CopyStep DEF InCheckout, PastGates
  <2>3. CASE ~DirtyElsewhere(t)
    <3>1. Goes(w, {"looking"})
      BY <1>0, <1>1, <1>3, <2>3, GoGoes DEF Checkout, Sound
    <3> QED BY <1>1, <1>2, <2>1, <2>3, <3>1, CopyStep DEF PastGates
  <2> QED BY <2>2, <2>3
<1>4. CASE Prompt(w)
  <2>1. run[w].at \in InCheckout
    BY <1>4 DEF Prompt, InCheckout
  <2>2. OwnBranchOnly(w)
    <3>1. branch' = branch \/ branch' = [branch EXCEPT ![t].dirty = TRUE, ![t].gated = FALSE]
      BY <1>1, <1>4 DEF Prompt
    <3>2. [branch[t] EXCEPT !.dirty = TRUE, !.gated = FALSE] \in Branch
      BY <1>2 DEF Branch
    <3>3. branch' \in [Tasks -> Branch] /\ \A u \in Tasks \ {t} : branch'[u] = branch[u]
      BY <1>2, <3>1, <3>2
    <3> QED BY <1>1, <2>1, <3>3 DEF OwnBranchOnly
  <2>3. Goes(w, {"coded", "asking"})
    <3>1. Goes(w, {"coded"}) \/ Goes(w, {"asking"})
      BY <1>0, <1>4, GoGoes DEF Prompt, Sound
    <3> QED BY <3>1 DEF Goes
  <2> QED BY <1>2, <2>1, <2>2, <2>3, CopyStep DEF PastGates
<1> QED BY <1>3, <1>4

LEMMA GateSteps ==
    ASSUME Sound, NEW w \in Workers, Check(w)
    PROVE  KeepsOrder(w)
<1>0. {"committing", "refixing", "failing"} \subseteq Stages
  BY DEF Stages
<1>1. PICK t \in Tasks : t = run[w].task /\ Holding(w)
  BY DEF Check, Holding, Sound
<1>2. /\ branch \in [Tasks -> Branch] /\ branch[t] \in Branch /\ notes' \in [Tasks -> Notes]
      /\ UNCHANGED <<status, notes, leases, answering>>
  BY DEF Check, tracker, Sound, TypeOK
<1>3. run[w].at \in InCheckout
  BY DEF Check, InCheckout
<1>4. \E b \in BOOLEAN : branch' = [branch EXCEPT ![t].gated = b]
  BY <1>1 DEF Check
<1>5. OwnBranchOnly(w)
  BY <1>1, <1>2, <1>4 DEF OwnBranchOnly, Branch
<1>6. CASE Changed(t) /\ branch' = [branch EXCEPT ![t].gated = TRUE] /\ Go(w, "committing")
  <2>1. Goes(w, {"committing"})
    BY <1>0, <1>6, GoGoes DEF Sound
  <2>2. branch'[t].gated
    BY <1>2, <1>6 DEF Branch
  <2> QED BY <1>1, <1>2, <1>3, <1>5, <2>1, <2>2, CopyStep
<1>7. CASE /\ TriesLeft(w)
           /\ run' = [run EXCEPT ![w].at = "refixing", ![w].tries = NextTry(w)]
  <2>1. run[w] \in Run /\ run[w].tries + 1 \in 0..MaxFix
    BY <1>7, WorkerAssumption DEF Sound, TypeOK, Run, TriesLeft
  <2>2. Goes(w, {"refixing"})
    BY <1>0, <1>7, <2>1 DEF Sound, TypeOK, Run, NextTry, Goes
  <2> QED BY <1>2, <1>3, <1>5, <2>2, CopyStep DEF PastGates
<1>8. CASE Go(w, "failing")
  <2>1. Goes(w, {"failing"})
    BY <1>0, <1>8, GoGoes DEF Sound
  <2> QED BY <1>2, <1>3, <1>5, <2>1, CopyStep DEF PastGates
<1> QED BY <1>1, <1>6, <1>7, <1>8 DEF Check

LEMMA PublishingSteps ==
    ASSUME Sound, NEW w \in Workers, Commit(w) \/ Push(w) \/ Open(w) \/ Reply(w)
    PROVE  KeepsOrder(w)
<1>0. {"pushing", "failing", "opening", "replying", "recording", "reviewing"} \subseteq Stages
  BY DEF Stages
<1>1. PICK t \in Tasks : t = run[w].task /\ Holding(w)
  BY DEF Commit, Push, Open, Reply, Holding, Sound
<1>2. /\ branch \in [Tasks -> Branch] /\ branch[t] \in Branch
      /\ notes \in [Tasks -> Notes] /\ notes[t] \in Notes
      /\ UNCHANGED <<status, leases, answering>>
  BY DEF Commit, Push, Open, Reply, tracker, Sound, TypeOK
<1>3. CASE Commit(w)
  <2>1. OwnBranchOnly(w)
    <3>1. \/ branch' = branch
          \/ branch[t].dirty /\ branch' = [branch EXCEPT ![t].dirty = FALSE, ![t].ahead = "local"]
      BY <1>1, <1>3 DEF Commit
    <3>2. [branch[t] EXCEPT !.dirty = FALSE, !.ahead = "local"] \in Branch
      BY <1>2 DEF Branch
    <3>3. branch' \in [Tasks -> Branch] /\ \A u \in Tasks \ {t} : branch'[u] = branch[u]
      BY <1>2, <3>1, <3>2
    <3> QED BY <1>1, <3>1, <3>3 DEF OwnBranchOnly
  <2>2. Goes(w, {"pushing", "failing"})
    <3>1. Goes(w, {"pushing"}) \/ Goes(w, {"failing"})
      BY <1>0, <1>3, GoGoes DEF Commit, Sound
    <3> QED BY <3>1 DEF Goes
  <2>3. run[w].at \in PastGates /\ branch'[t].gated = branch[t].gated
    BY <1>1, <1>2, <1>3 DEF Commit, PastGates, Branch
  <2>4. notes' \in [Tasks -> Notes]
    BY <1>2, <1>3 DEF Commit, tracker
  <2> QED BY <1>1, <1>2, <2>1, <2>2, <2>3, <2>4, CopyStep DEF InCheckout
<1>4. CASE Push(w)
  <2>1. OwnBranchOnly(w)
    BY <1>1, <1>2, <1>4 DEF Push, OwnBranchOnly, Branch
  <2>2. Goes(w, {"opening", "replying"})
    <3>1. Goes(w, {"opening"}) \/ Goes(w, {"replying"})
      BY <1>0, <1>4, GoGoes DEF Push, Sound
    <3> QED BY <3>1 DEF Goes
  <2>3. notes' \in [Tasks -> Notes]
    BY <1>2, <1>4 DEF Push, tracker
  <2> QED BY <1>2, <2>1, <2>2, <2>3, CopyStep DEF InCheckout, PastGates
<1>5. CASE Open(w)
  <2>1. OwnBranchOnly(w)
    BY <1>1, <1>2, <1>5 DEF Open, OwnBranchOnly, Branch
  <2>2. Goes(w, {"recording"})
    <3>1. run' = [run EXCEPT ![w].at = "recording", ![w].found = FALSE]
      BY <1>5 DEF Open
    <3>2. run \in [Workers -> Run] /\ run[w] \in Run
      BY DEF Sound, TypeOK
    <3>3. [run[w] EXCEPT !.at = "recording", !.found = FALSE] \in Run
      BY <1>0, <3>2 DEF Run
    <3>4. run' \in [Workers -> Run]
      BY <3>1, <3>2, <3>3
    <3> QED BY <3>1, <3>2, <3>4 DEF Goes, Run
  <2>3. notes' \in [Tasks -> Notes]
    <3>1. CASE notes' = notes
      BY <1>2, <3>1
    <3>2. CASE notes' = [notes EXCEPT ![t].recorded = FALSE]
      BY <1>2, <3>2 DEF Notes
    <3> QED BY <1>1, <1>5, <3>1, <3>2 DEF Open
  <2> QED BY <1>2, <2>1, <2>2, <2>3, CopyStep DEF InCheckout, PastGates
<1>6. CASE Reply(w)
  <2>1. OwnBranchOnly(w)
    BY <1>1, <1>2, <1>6 DEF Reply, OwnBranchOnly, Branch
  <2>2. Goes(w, {"reviewing"})
    BY <1>0, <1>6, GoGoes DEF Reply, Sound
  <2>3. notes' \in [Tasks -> Notes]
    BY <1>2, <1>6 DEF Reply, tracker
  <2> QED BY <1>2, <2>1, <2>2, <2>3, CopyStep DEF InCheckout, PastGates
<1> QED BY <1>3, <1>4, <1>5, <1>6

\* Looking at what is there, starting a fix, and the ways a handler ends.
LEMMA EndingSteps ==
    ASSUME Sound, NEW w \in Workers, Reuse(w) \/ StartFix(w) \/ Retry(w) \/ Fail(w)
    PROVE  KeepsOrder(w)
<1>0. {"recording", "coded", "prompting", "failing", "reviewing", "retrying", "leaving"}
        \subseteq Stages
  BY DEF Stages
<1>1. PICK t \in Tasks : t = run[w].task /\ Holding(w)
  BY DEF Reuse, StartFix, Retry, Fail, Holding, Sound
<1>2. /\ UNCHANGED <<leases, notes, branch, answering>> /\ notes' \in [Tasks -> Notes]
      /\ status \in [Tasks -> Status] /\ branch \in [Tasks -> Branch]
      /\ run \in [Workers -> Run]
  BY DEF Reuse, StartFix, Retry, Fail, tracker, outside, Sound, TypeOK
<1>3. CASE Reuse(w)
  <2>1. run[w].at \in InCheckout /\ "validating" \in Status
    BY <1>3 DEF Reuse, InCheckout, Status, AllowedTransitions
  <2>2. ReusePoint(t) \in {"recording", "coded", "prompting"}
    BY DEF ReusePoint
  <2>3. /\ Goes(w, {"recording", "coded", "prompting", "failing"})
        /\ status' \in [Tasks -> Status]
    <3>1. CASE Move(w, "validating", ReusePoint(t))
      BY <1>0, <1>1, <2>1, <2>2, <3>1, MoveGoes DEF Goes, Sound
    <3>2. CASE /\ run' = [run EXCEPT ![w].at = ReusePoint(t),
                                     ![w].found = branch[t].mr = "opened"]
               /\ status' = status
      <4>1. ReusePoint(t) \in Stages
        BY <1>0, <2>2
      <4>2. PICK b \in BOOLEAN : b = (branch[t].mr = "opened")
        OBVIOUS
      <4>3. run' = [run EXCEPT ![w].at = ReusePoint(t), ![w].found = b]
        BY <3>2, <4>2
      <4>4. [run[w] EXCEPT !.at = ReusePoint(t), !.found = b] \in Run
        BY <1>2, <4>1 DEF Run
      <4>5. run' \in [Workers -> Run]
        BY <1>2, <4>3, <4>4
      <4> QED BY <1>2, <2>2, <3>2, <4>3, <4>5 DEF Goes, Run
    <3> QED BY <1>1, <1>3, <3>1, <3>2 DEF Reuse
  <2> QED BY <1>1, <1>2, <2>1, <2>3, PlainStep DEF PastGates
<1>4. CASE StartFix(w)
  <2>1. OwnBranchOnly(w)
    BY <1>1, <1>2 DEF OwnBranchOnly
  <2>2. CASE Go(w, "reviewing")
    <3>1. Goes(w, {"reviewing"})
      BY <1>0, <2>2, GoGoes DEF Sound
    <3> QED BY <1>2, <1>4, <2>1, <3>1, CopyStep DEF StartFix, tracker, InCheckout, PastGates
  <2>3. ASSUME NEW stage \in {"retrying", "prompting"},
               run' = [run EXCEPT ![w].handled = TRUE, ![w].at = stage]
        PROVE  Goes(w, {stage})
    <3>1. [run[w] EXCEPT !.handled = TRUE, !.at = stage] \in Run
      BY <1>0, <1>2 DEF Run
    <3>2. run' \in [Workers -> Run]
      BY <1>2, <2>3, <3>1
    <3> QED BY <1>2, <2>3, <3>2 DEF Goes, Run
  <2>4. CASE /\ DirtyElsewhere(t)
             /\ run' = [run EXCEPT ![w].handled = TRUE, ![w].at = "retrying"]
    BY <1>2, <1>4, <2>1, <2>3, <2>4, CopyStep DEF StartFix, tracker, InCheckout, PastGates
  <2>5. CASE /\ ~DirtyElsewhere(t)
             /\ run' = [run EXCEPT ![w].handled = TRUE, ![w].at = "prompting"]
    BY <1>1, <1>2, <1>4, <2>1, <2>3, <2>5, CopyStep DEF StartFix, tracker, PastGates
  <2> QED BY <1>1, <1>4, <2>2, <2>4, <2>5 DEF StartFix
<1>5. CASE Retry(w) \/ Fail(w)
  <2>1. status' \in [Tasks -> Status]
    BY <1>1, <1>2, <1>5 DEF Retry, Fail, Status, AllowedTransitions
  <2>2. Goes(w, {"leaving"})
    <3>1. CASE \E next \in Unwound(w, "leaving") : run' = [run EXCEPT ![w] = next]
      BY <1>0, <3>1, UnwoundGoes DEF Sound
    <3>2. CASE run' = [run EXCEPT ![w].at = "leaving", ![w].handled = TRUE, ![w].todo = {}]
      <4>1. [run[w] EXCEPT !.at = "leaving", !.handled = TRUE, !.todo = {}] \in Run
        BY <1>0, <1>2 DEF Run
      <4>2. run' \in [Workers -> Run]
        BY <1>2, <3>2, <4>1
      <4> QED BY <1>2, <3>2, <4>2 DEF Goes, Run
    <3> QED BY <1>5, <3>1, <3>2 DEF Retry, Fail
  <2> QED BY <1>1, <1>2, <2>1, <2>2, PlainStep DEF InCheckout, PastGates
<1> QED BY <1>3, <1>4, <1>5

\* A worker that holds nothing after the step.
LEMMA FreeStep ==
    ASSUME Sound, NEW w \in Workers, run' \in [Workers -> Run],
           \A v \in Workers \ {w} : run'[v] = run[v], ~Holding(w)', LeasesKept(w),
           status' \in [Tasks -> Status], UNCHANGED <<notes, branch, answering>>
    PROVE  KeepsOrder(w)
<1>1. TypeOK'
  BY DEF Sound, TypeOK, LeasesKept
<1>2. run'[w].at \notin InCheckout /\ run'[w].at \notin PastGates
  BY DEF Holding, InCheckout, PastGates
<1>3. Effect(w)
  BY <1>2 DEF Effect, InOrder
<1>4. SameHold(w)
  BY DEF SameHold
<1> QED BY <1>1, <1>3, <1>4 DEF KeepsOrder

LEMMA DoingInRun == \A stage \in Stages : Doing(stage) \in Run /\ Doing(stage).at = stage
BY WorkerAssumption DEF Doing, Run

LEMMA CycleSteps ==
    ASSUME Sound, NEW w \in Workers,
           Poll(w) \/ ListLeases(w) \/ Recover(w) \/ Settle(w) \/ Skip(w) \/ EndCycle(w)
    PROVE  KeepsOrder(w)
<1> DEFINE Free == {"down", "idle", "listing", "reconciling", "inspecting"}
<1>0. Free \subseteq Stages /\ {"review", "human_testing", "awaiting_human"} \subseteq Status
  BY DEF Stages, Status, AllowedTransitions
<1>1. UNCHANGED <<notes, branch, answering>> /\ LeasesKept(w)
  BY DEF Poll, ListLeases, Recover, Settle, Skip, EndCycle, tracker, outside, Live, LeasesKept
<1>2. /\ status \in [Tasks -> Status] /\ run \in [Workers -> Run] /\ run[w] \in Run
      /\ notes \in [Tasks -> Notes]
  BY DEF Sound, TypeOK
<1>3. /\ status' \in [Tasks -> Status]
      /\ \E next \in Run : next.at \in Free /\ run' = [run EXCEPT ![w] = next]
  <2>1. CASE Poll(w)
    <3>1. UnderReview \in SUBSET [task : Tasks, stale : BOOLEAN]
      <4> SUFFICES ASSUME NEW u \in Tasks, NEW b \in BOOLEAN
                   PROVE  [task |-> u, stale |-> b] \in [task : Tasks, stale : BOOLEAN]
        BY Zenon DEF UnderReview
      <4> QED OBVIOUS
    <3>2. [Doing("listing") EXCEPT !.todo = UnderReview] \in Run
      <4>1. Doing("listing") \in Run
        BY <1>0, DoingInRun
      <4> QED BY <3>1, <4>1 DEF Run
    <3>3. [Doing("listing") EXCEPT !.todo = UnderReview].at \in Free
      BY DEF Doing
    <3> QED BY <1>2, <2>1, <3>2, <3>3 DEF Poll, tracker
  <2>2. CASE ListLeases(w)
    <3> DEFINE left == {c \in run[w].todo : c.stale => ~InHand(c.task)}
    <3>1. left \in SUBSET [task : Tasks, stale : BOOLEAN]
      BY <1>2 DEF Run
    <3>2. run' = [run EXCEPT ![w].at = "reconciling", ![w].todo = left]
      BY <2>2 DEF ListLeases
    <3> HIDE DEF left
    <3>3. [run[w] EXCEPT !.at = "reconciling", !.todo = left] \in Run
      BY <1>0, <1>2, <3>1 DEF Run
    <3>4. [run[w] EXCEPT !.at = "reconciling", !.todo = left].at \in Free
      BY <1>2 DEF Run
    <3>5. run' = [run EXCEPT ![w] = [run[w] EXCEPT !.at = "reconciling", !.todo = left]]
      BY <1>2, <3>2
    <3> QED BY <1>2, <2>2, <3>3, <3>4, <3>5 DEF ListLeases, tracker
  <2>3. CASE Recover(w)
    <3>1. PICK c \in run[w].todo :
             LET next == [run[w] EXCEPT !.at = "inspecting", !.task = c.task, !.todo = @ \ {c}] IN
             \/ run' = [run EXCEPT ![w] = next] /\ status' = status
             \/ run' = [run EXCEPT ![w] = next] /\ status' = [status EXCEPT ![c.task] = "review"]
             \/ run' = [run EXCEPT ![w] = Doing("idle")] /\ status' = status
      BY <2>3 DEF Recover
    <3>2. c.task \in Tasks /\ run[w].todo \ {c} \in SUBSET [task : Tasks, stale : BOOLEAN]
      BY <1>2, <3>1 DEF Run
    <3>3. /\ [run[w] EXCEPT !.at = "inspecting", !.task = c.task, !.todo = @ \ {c}] \in Run
          /\ [run[w] EXCEPT !.at = "inspecting", !.task = c.task, !.todo = @ \ {c}].at \in Free
      BY <1>0, <1>2, <3>2 DEF Run
    <3>4. Doing("idle") \in Run /\ Doing("idle").at \in Free
      BY <1>0, DoingInRun
    <3> QED BY <1>0, <1>2, <3>1, <3>2, <3>3, <3>4
  <2>4. CASE Settle(w)
    <3>1. CASE run' = [run EXCEPT ![w] = Doing("idle")] /\ status' = status
      BY <1>0, <1>2, <3>1, DoingInRun
    <3>2. ASSUME NEW next \in Unwound(w, "reconciling"), run' = [run EXCEPT ![w] = next]
          PROVE  next \in Run /\ next.at \in Free
      <4>1. \/ next = [run[w] EXCEPT !.at = "reconciling", !.handled = TRUE]
            \/ next = [run[w] EXCEPT !.at = "reconciling"]
            \/ next = [run[w] EXCEPT !.at = "reconciling", !.handled = TRUE, !.todo = {}]
        BY DEF Unwound
      <4> QED BY <1>0, <1>2, <4>1 DEF Run
    <3>3. status' \in [Tasks -> Status]
      BY <1>0, <1>2, <2>4 DEF Settle
    <3> QED BY <2>4, <3>1, <3>2, <3>3 DEF Settle
  <2>5. CASE Skip(w)
    <3>1. run' = [run EXCEPT ![w].at = "reconciling"] /\ status' = status
      BY <2>5 DEF Skip, Go
    <3>2. /\ [run[w] EXCEPT !.at = "reconciling"] \in Run
          /\ [run[w] EXCEPT !.at = "reconciling"].at \in Free
      BY <1>0, <1>2 DEF Run
    <3>3. run' = [run EXCEPT ![w] = [run[w] EXCEPT !.at = "reconciling"]]
      BY <3>1
    <3> QED BY <1>2, <3>1, <3>2, <3>3
  <2>6. CASE EndCycle(w)
    BY <1>0, <1>2, <2>6, DoingInRun DEF EndCycle
  <2> QED BY <2>1, <2>2, <2>3, <2>4, <2>5, <2>6
<1>4. /\ run' \in [Workers -> Run] /\ \A v \in Workers \ {w} : run'[v] = run[v]
      /\ ~Holding(w)'
  BY <1>2, <1>3 DEF Holding
<1> QED BY <1>1, <1>3, <1>4, FreeStep

\* Errors, crashes and releases.
LEMMA FaultSteps ==
    ASSUME Sound, NEW w \in Workers,
           TemporaryError(w) \/ PermanentError(w) \/ Crash(w) \/ Restart(w) \/ Leave(w)
    PROVE  KeepsOrder(w)
<1>0. {"idle", "down", "reconciling", "leaving", "retrying", "failing"} \subseteq Stages
  BY DEF Stages
<1>1. /\ UNCHANGED <<status, notes, branch, answering>>
      /\ status' \in [Tasks -> Status] /\ notes' \in [Tasks -> Notes]
      /\ run \in [Workers -> Run] /\ run[w] \in Run
  BY DEF TemporaryError, PermanentError, Crash, Restart, Leave, tracker, outside, Sound, TypeOK
<1>2. ASSUME NEW stage \in {"idle", "down"}, run' = [run EXCEPT ![w] = Doing(stage)],
             LeasesKept(w)
      PROVE  KeepsOrder(w)
  <2>1. Doing(stage) \in Run /\ Doing(stage).at = stage
    BY <1>0, DoingInRun
  <2>2. run' \in [Workers -> Run] /\ ~Holding(w)'
    BY <1>1, <1>2, <2>1 DEF Holding
  <2> QED BY <1>1, <1>2, <2>2, FreeStep
<1>3. ASSUME Go(w, "reconciling"), LeasesKept(w) PROVE KeepsOrder(w)
  <2>1. Goes(w, {"reconciling"})
    BY <1>0, <1>3, GoGoes DEF Sound
  <2>2. ~Holding(w)'
    BY <2>1 DEF Goes, Holding
  <2> QED BY <1>1, <1>3, <2>1, <2>2, FreeStep DEF Goes
<1>4. ASSUME NEW stage \in {"leaving", "retrying", "failing"}, Go(w, stage), Holding(w),
             leases' = leases
      PROVE  KeepsOrder(w)
  <2>1. Goes(w, {stage})
    BY <1>0, <1>4, GoGoes DEF Sound
  <2>2. {stage} \cap PastGates = {} /\ {stage} \cap InCheckout = {}
    BY DEF PastGates, InCheckout
  <2> QED BY <1>1, <1>4, <2>1, <2>2, PlainStep
<1>5. leases' = leases => LeasesKept(w)
  BY DEF LeasesKept
<1>6. CASE TemporaryError(w)
  BY <1>3, <1>4, <1>5, <1>6 DEF TemporaryError, tracker, Fallible, Holding
<1>7. CASE PermanentError(w)
  BY <1>2, <1>4, <1>5, <1>7 DEF PermanentError, tracker, Working
<1>8. CASE Crash(w) \/ Restart(w)
  BY <1>2, <1>5, <1>8 DEF Crash, Restart, tracker
<1>9. CASE Leave(w)
  <2>1. run'[w].at \in {"idle", "reconciling"}
    <3>1. Doing("idle").at = "idle"
      BY DEF Doing
    <3>2. CASE run' = [run EXCEPT ![w] = Doing("idle")]
      BY <1>1, <3>1, <3>2
    <3>3. CASE Go(w, "reconciling")
      BY <1>0, <3>3, GoGoes DEF Goes, Sound
    <3> QED BY <1>9, <3>2, <3>3 DEF Leave
  <2>2. ~Holding(w)'
    BY <2>1 DEF Holding
  <2>3. LeasesKept(w)
    BY <1>9, <2>2 DEF Leave, LeasesKept
  <2> QED BY <1>2, <1>3, <1>9, <2>3 DEF Leave
<1> QED BY <1>6, <1>7, <1>8, <1>9

\* Every step of a worker but its claims and heartbeats.
Steps(w) ==
    \/ Poll(w) \/ ListLeases(w) \/ Recover(w) \/ Settle(w) \/ Skip(w) \/ EndCycle(w) \/ Leave(w)
    \/ Process(w) \/ Fault(w) \/ Restart(w)

LEMMA StepsKeepOrder ==
    ASSUME Sound, NEW w \in Workers, Steps(w)
    PROVE  KeepsOrder(w)
<1>1. CASE Process(w)
  BY <1>1, MovingSteps, NotingSteps, CheckoutSteps, GateSteps, PublishingSteps, EndingSteps
     DEF Process
<1>2. CASE ~Process(w)
  BY <1>2, CycleSteps, FaultSteps DEF Steps, Fault
<1> QED BY <1>1, <1>2

LEMMA KeptOrderIsSound ==
    ASSUME Sound, NEW w \in Workers, KeepsOrder(w)
    PROVE  Sound'
BY DEF KeepsOrder, SameHold, Sound, Holding

\* A claim is taken by a worker that holds none.
LEMMA ClaimSteps ==
    ASSUME Sound, NEW w \in Workers, ClaimTask(w) \/ ClaimReview(w)
    PROVE  /\ TypeOK' /\ Effect(w) /\ ~Holding(w)
           /\ \E t \in Tasks, for \in {"claim", "review"} :
                 /\ Q!Candidate(w, t, for, Q!LapsedFor(w))
                 /\ leases' = Live \cup Q!LeasePair(w, t)
                 /\ run'[w].task = t
<1>0. {"picked", "fixing"} \subseteq Stages /\ {"claimed", "fixing_review"} \subseteq Status
  BY DEF Stages, Status, AllowedTransitions
<1>1. /\ UNCHANGED <<notes, branch, answering>> /\ ~Holding(w)
      /\ status \in [Tasks -> Status] /\ run \in [Workers -> Run] /\ run[w] \in Run
      /\ leases \subseteq Q!Lease
  BY DEF ClaimTask, ClaimReview, Holding, outside, Sound, TypeOK
<1>2. PICK t \in Tasks, for \in {"claim", "review"}, next \in Run :
        /\ Q!Candidate(w, t, for, Q!LapsedFor(w))
        /\ leases' = Live \cup Q!LeasePair(w, t)
        /\ run' = [run EXCEPT ![w] = next] /\ next.task = t /\ next.at \in {"picked", "fixing"}
        /\ status' \in [Tasks -> Status]
  <2>1. CASE ClaimTask(w)
    <3>1. PICK t \in Best(w) :
             /\ status' = [status EXCEPT ![t] = "claimed"]
             /\ leases' = Live \cup Q!LeasePair(w, t)
             /\ run' = [run EXCEPT ![w] = [Doing("picked") EXCEPT !.task = t]]
      BY <2>1 DEF ClaimTask
    <3>2. t \in Tasks /\ Q!Candidate(w, t, "claim", Q!LapsedFor(w))
      BY DEF Best
    <3>3. /\ [Doing("picked") EXCEPT !.task = t] \in Run
          /\ [Doing("picked") EXCEPT !.task = t].task = t
          /\ [Doing("picked") EXCEPT !.task = t].at = "picked"
      <4>1. Doing("picked") \in Run /\ Doing("picked").at = "picked"
        BY <1>0, DoingInRun
      <4> QED BY <3>2, <4>1 DEF Run
    <3> QED BY <1>0, <1>1, <3>1, <3>2, <3>3
  <2>2. CASE ClaimReview(w)
    <3> DEFINE next == [run[w] EXCEPT !.at = "fixing", !.for = "review", !.tries = 0]
    <3>1. Q!Candidate(w, run[w].task, "review", Q!LapsedFor(w))
      BY <2>2 DEF ClaimReview
    <3>2. run[w].task \in Tasks
      BY <3>1 DEF Q!Candidate
    <3>3. run' = [run EXCEPT ![w] = next]
      BY <1>1, <2>2 DEF ClaimReview
    <3>4. next \in Run /\ next.task = run[w].task /\ next.at = "fixing"
      <4>1. 0 \in 0..MaxFix
        BY WorkerAssumption
      <4> QED BY <1>0, <1>1, <4>1 DEF Run
    <3>5. status' \in [Tasks -> Status] /\ leases' = Live \cup Q!LeasePair(w, run[w].task)
      BY <1>0, <1>1, <2>2 DEF ClaimReview
    <3> HIDE DEF next
    <3> QED BY <3>1, <3>2, <3>3, <3>4, <3>5
  <2> QED BY <2>1, <2>2
<1>3. Q!LeasePair(w, t) \subseteq Q!Lease
  <2> SUFFICES ASSUME NEW k \in Q!LeaseKinds
               PROVE  [kind |-> k, task |-> t, worker |-> w,
                       left |-> Ttl + [v \in Workers |-> 0][w]] \in Q!Lease
    BY Zenon DEF Q!LeasePair
  <2> QED BY WorkerAssumption DEF Q!Lease
<1>4. run' \in [Workers -> Run] /\ \A v \in Workers \ {w} : run'[v] = run[v]
  BY <1>1, <1>2
<1>5. TypeOK'
  BY <1>1, <1>2, <1>3, <1>4 DEF Sound, TypeOK, Live
<1>6. Effect(w)
  BY <1>1, <1>2, <1>4 DEF Effect, InOrder, InCheckout, PastGates
<1> QED BY <1>1, <1>2, <1>4, <1>5, <1>6

-----------------------------------------------------------------------------
(* Time, heartbeats and people *)

\* The same rows, with another time left.
Again(S, f) == {[l EXCEPT !.left = f[l]] : l \in S}

LEMMA AgainInLease ==
    ASSUME leases \subseteq Q!Lease, NEW f \in [leases -> Nat]
    PROVE  /\ Again(leases, f) \subseteq Q!Lease
           /\ \A l \in leases : [l EXCEPT !.left = f[l]] \in Again(leases, f)
           /\ \A m \in Again(leases, f) : \E l \in leases :
                 /\ m.kind = l.kind /\ m.task = l.task /\ m.worker = l.worker
                 /\ m = [l EXCEPT !.left = f[l]]
<1>1. ASSUME NEW l \in leases
      PROVE  /\ [l EXCEPT !.left = f[l]] \in Q!Lease
             /\ [l EXCEPT !.left = f[l]].kind = l.kind
             /\ [l EXCEPT !.left = f[l]].task = l.task
             /\ [l EXCEPT !.left = f[l]].worker = l.worker
             /\ [l EXCEPT !.left = f[l]].left = f[l]
  BY DEF Q!Lease
<1> QED BY <1>1 DEF Again

\* Such rows stay exclusive, and cover whom the live ones cover.
LEMMA AgainKeepsHolders ==
    ASSUME IInv, NEW f \in [leases -> Nat], leases' = Again(leases, f), run' = run,
           \A w \in Workers, l \in leases :
              Holding(w) /\ l.worker = w /\ l.task = run[w].task /\ l.left > 0 => f[l] > 0
    PROVE  Q!LeaseExclusive' /\ HoldersCovered'
<1>0. leases \subseteq Q!Lease
  BY DEF IInv, TypeOK
<1>1. Q!LeaseExclusive'
  <2> SUFFICES ASSUME NEW l \in leases', NEW m \in leases', Q!SameKey(l, m) PROVE l = m
    BY DEF Q!LeaseExclusive, Q!SameKey
  <2>1. PICK l0 \in leases : /\ l.kind = l0.kind /\ l.task = l0.task /\ l.worker = l0.worker
                            /\ l = [l0 EXCEPT !.left = f[l0]]
    BY <1>0, AgainInLease
  <2>2. PICK m0 \in leases : /\ m.kind = m0.kind /\ m.task = m0.task /\ m.worker = m0.worker
                            /\ m = [m0 EXCEPT !.left = f[m0]]
    BY <1>0, AgainInLease
  <2>3. l0 = m0
    BY <2>1, <2>2 DEF IInv, Q!LeaseExclusive, Q!SameKey
  <2> QED BY <2>1, <2>2, <2>3
<1>2. HoldersCovered'
  <2> SUFFICES ASSUME NEW w \in Workers, Holding(w), NEW k \in Q!LeaseKinds
               PROVE  /\ run[w].task \in Tasks
                      /\ \E l \in leases' : /\ l.kind = k /\ l.task = run[w].task
                                            /\ l.worker = w /\ l.left > 0
    BY DEF HoldersCovered, Covered, Holding, Q!LeaseKinds
  <2>1. PICK l \in leases : l.kind = k /\ l.task = run[w].task /\ l.worker = w /\ l.left > 0
    BY DEF IInv, HoldersCovered, Covered
  <2>2. /\ [l EXCEPT !.left = f[l]] \in leases'
        /\ [l EXCEPT !.left = f[l]].kind = k /\ [l EXCEPT !.left = f[l]].task = run[w].task
        /\ [l EXCEPT !.left = f[l]].worker = w /\ [l EXCEPT !.left = f[l]].left = f[l]
    BY <1>0, <2>1, AgainInLease DEF Q!Lease
  <2>3. f[l] > 0
    BY <2>1
  <2> QED BY <2>2, <2>3 DEF IInv, HoldersCovered
<1> QED BY <1>1, <1>2

\* A heartbeat makes some rows last.
LEMMA HeartbeatAgain ==
    ASSUME Sound, NEW w \in Workers, Heartbeat(w)
    PROVE  \E f \in [leases -> Nat] :
              /\ leases' = Again(leases, f)
              /\ \A l \in leases : f[l] = l.left \/ f[l] > 0
<1> DEFINE f == [l \in leases |-> IF Renewed(w, l) THEN Ttl ELSE l.left]
<1>1. f \in [leases -> Nat] /\ \A l \in leases : f[l] = l.left \/ f[l] > 0
  BY WorkerAssumption DEF Sound, TypeOK, Q!Lease
<1>2. ASSUME NEW l \in leases
      PROVE  (IF Renewed(w, l) THEN [l EXCEPT !.left = Ttl] ELSE l) = [l EXCEPT !.left = f[l]]
  <2>1. CASE Renewed(w, l)
    BY <2>1
  <2>2. CASE ~Renewed(w, l)
    <3>1. f[l] = l.left
      BY <2>2
    <3>2. [l EXCEPT !.left = l.left] = l
      BY DEF Sound, TypeOK, Q!Lease
    <3> QED BY <2>2, <3>1, <3>2
  <2> QED BY <2>1, <2>2
<1>3. leases' = Again(leases, f)
  <2> HIDE DEF f
  <2>1. leases' = {IF Renewed(w, l) THEN [l EXCEPT !.left = Ttl] ELSE l : l \in leases}
    BY DEF Heartbeat
  <2> QED BY <1>2, <2>1 DEF Again
<1> QED BY <1>1, <1>3

\* Time runs out one tick at a time; if heartbeats are in time it does not run
\* out for a holder.
LEMMA TickAgain ==
    ASSUME Sound, Tick
    PROVE  \E f \in [leases -> Nat] :
              /\ leases' = Again(leases, f)
              /\ "lapse" \notin Faults =>
                   \A w \in Workers, l \in leases :
                      Holding(w) /\ l.worker = w /\ l.task = run[w].task /\ l.left > 0
                        => f[l] > 0
<1> DEFINE f == [l \in leases |-> IF l.left > 0 THEN l.left - 1 ELSE 0]
<1>1. f \in [leases -> Nat] /\ \A l \in leases : l.left \in Nat
  BY DEF Sound, TypeOK, Q!Lease
<1>2. leases' = Again(leases, f)
  BY Zenon DEF Tick, Q!Tick, Again
<1>3. ASSUME "lapse" \notin Faults, NEW w \in Workers, NEW l \in leases,
             Holding(w), l.worker = w, l.task = run[w].task, l.left > 0
      PROVE  f[l] > 0
  <2>1. l.left # 1
    BY <1>3 DEF Tick
  <2> QED BY <1>1, <1>3, <2>1
<1> QED BY <1>1, <1>2, <1>3

\* People touch no lease and no working copy.
LEMMA PeopleSteps ==
    ASSUME Sound, NEW t \in Tasks, People(t)
    PROVE  /\ TypeOK' /\ leases' = leases /\ run' = run
           /\ \A u \in Tasks : /\ branch'[u].dirty = branch[u].dirty
                               /\ branch'[u].gated = branch[u].gated
<1>0. /\ status \in [Tasks -> Status] /\ notes \in [Tasks -> Notes] /\ notes[t] \in Notes
      /\ branch \in [Tasks -> Branch] /\ branch[t] \in Branch
      /\ answering \in [Tasks -> {"no", "stored", "waking"}]
      /\ leases \subseteq Q!Lease /\ run \in [Workers -> Run]
      /\ {"ready", "blocked", "cancelled"} \subseteq Status
  BY DEF Sound, TypeOK, Status, AllowedTransitions
<1>1. ASSUME NEW a \in Answers, Answer(t, a)
      PROVE  TypeOK' /\ leases' = leases /\ run' = run /\ branch' = branch
  <2>1. PICK d \in {"none", "resume", "cancel"} : notes' = [notes EXCEPT ![t].dialog = d]
    <3>1. CASE notes[t].dialog = "none"
      BY <1>0, <1>1, <3>1 DEF Answer
    <3>2. CASE notes[t].dialog # "none"
      BY <1>0, <1>1, <3>2, WorkerAssumption DEF Answer
    <3> QED BY <3>1, <3>2
  <2>2. notes' \in [Tasks -> Notes]
    BY <1>0, <2>1 DEF Notes
  <2> QED BY <1>0, <1>1, <2>2 DEF Answer, TypeOK
<1>2. ASSUME AnswerReads(t) \/ AnswerWakes(t)
      PROVE  TypeOK' /\ leases' = leases /\ run' = run /\ branch' = branch
  BY <1>0, <1>2 DEF AnswerReads, AnswerWakes, tracker, TypeOK
<1>3. ASSUME NEW s \in Commands, Command(t, s)
      PROVE  TypeOK' /\ leases' = leases /\ run' = run /\ branch' = branch
  BY <1>0, <1>3, WorkerAssumption DEF Command, Q!SetStatus, outside, TypeOK
<1>4. ASSUME NEW r \in Reviews, Review(t, r)
      PROVE  /\ TypeOK' /\ leases' = leases /\ run' = run
             /\ \A u \in Tasks : /\ branch'[u].dirty = branch[u].dirty
                                 /\ branch'[u].gated = branch[u].gated
  <2>1. PICK m \in {"none", "opened", "merged", "closed"}, p \in {"no", "yes", "again"} :
           branch' = [branch EXCEPT ![t].mr = m, ![t].pending = p]
    <3> DEFINE m == CASE r = "merge" -> "merged" [] r = "close" -> "closed"
                      [] OTHER -> branch[t].mr
               p == IF r # "comment" THEN branch[t].pending
                    ELSE IF branch[t].pending # "no" /\ \E w \in Workers :
                               Holding(w) /\ run[w].task = t /\ run[w].for = "review"
                         THEN "again" ELSE "yes"
    <3>1. m \in {"none", "opened", "merged", "closed"} /\ p \in {"no", "yes", "again"}
      BY <1>0 DEF Branch
    <3>2. branch' = [branch EXCEPT ![t].mr = m, ![t].pending = p]
      BY <1>0, <1>4 DEF Review
    <3> QED BY <3>1, <3>2
  <2>2. branch' \in [Tasks -> Branch]
    BY <1>0, <2>1 DEF Branch
  <2>3. \A u \in Tasks : branch'[u].dirty = branch[u].dirty /\ branch'[u].gated = branch[u].gated
    BY <1>0, <2>1 DEF Branch
  <2> QED BY <1>0, <1>4, <2>2, <2>3 DEF Review, tracker, TypeOK
<1> QED BY <1>1, <1>2, <1>3, <1>4 DEF People

LEMMA SameCopiesStayInOrder ==
    ASSUME IInv, run' = run,
           \A u \in Tasks : branch'[u].dirty = branch[u].dirty /\ branch'[u].gated = branch[u].gated
    PROVE  OneTaskDirty' /\ CleanCheckout' /\ GatedUntilPushed'
<1>1. OneTaskDirty'
  BY DEF IInv, OneTaskDirty
<1>2. CleanCheckout'
  <2> SUFFICES ASSUME NEW w \in Workers, run[w].at \in InCheckout,
                      NEW u \in Tasks \ {run[w].task}, RepoOf[u] = RepoOf[run[w].task],
                      branch'[u].dirty
               PROVE  FALSE
    BY DEF CleanCheckout, DirtyElsewhere
  <2> QED BY DEF IInv, CleanCheckout, DirtyElsewhere
<1>3. GatedUntilPushed'
  BY DEF IInv, GatedUntilPushed, PastGates, HoldersCovered, Holding
<1> QED BY <1>1, <1>2, <1>3

-----------------------------------------------------------------------------
(* The invariants *)

LEMMA InitIInv == Init => Sound /\ IInv
<1> SUFFICES ASSUME Init PROVE Sound /\ IInv
  OBVIOUS
<1>1. Doing("idle") \in Run /\ Doing("idle").at = "idle"
  BY DoingInRun DEF Stages
<1>2. \A w \in Workers : run[w].at = "idle"
  BY <1>1 DEF Init
<1>3. TypeOK
  BY <1>1 DEF Init, TypeOK, Notes, Branch, Status, AllowedTransitions
<1>4. \A w \in Workers : ~Holding(w) /\ run[w].at \notin InCheckout \cup PastGates
  BY <1>2 DEF Holding, InCheckout, PastGates
<1>5. Q!LeaseExclusive /\ OneTaskDirty
  BY DEF Init, Q!LeaseExclusive, OneTaskDirty
<1> QED BY <1>3, <1>4, <1>5 DEF Sound, IInv, HoldersCovered, CleanCheckout, GatedUntilPushed

LEMMA NextKeepsSound == Sound /\ [Next]_vars => Sound'
<1> SUFFICES ASSUME Sound, [Next]_vars PROVE Sound'
  OBVIOUS
<1>1. ASSUME NEW w \in Workers, Cycle(w) \/ Process(w) \/ Fault(w) \/ Restart(w) PROVE Sound'
  <2>1. CASE Steps(w)
    BY <2>1, StepsKeepOrder, KeptOrderIsSound
  <2>2. CASE ClaimTask(w) \/ ClaimReview(w)
    <3>1. PICK t \in Tasks : run'[w].task = t
      BY <2>2, ClaimSteps
    <3>2. TypeOK' /\ Effect(w)
      BY <2>2, ClaimSteps
    <3> QED BY <3>1, <3>2 DEF Effect, Sound, Holding
  <2> QED BY <1>1, <2>1, <2>2 DEF Cycle, Steps
<1>2. ASSUME NEW f \in [leases -> Nat], leases' = Again(leases, f),
             UNCHANGED <<status, notes, branch, answering, run>>
      PROVE  Sound'
  <2>1. leases' \subseteq Q!Lease
    BY <1>2, AgainInLease DEF Sound, TypeOK
  <2> QED BY <1>2, <2>1 DEF Sound, TypeOK, Holding
<1>3. ASSUME NEW w \in Workers, Heartbeat(w) PROVE Sound'
  BY <1>2, <1>3, HeartbeatAgain DEF Heartbeat, outside
<1>4. CASE Tick
  BY <1>2, <1>4, TickAgain DEF Tick, Q!Tick, outside
<1>5. ASSUME NEW t \in Tasks, People(t) PROVE Sound'
  BY <1>5, PeopleSteps DEF Sound, Holding
<1>6. CASE UNCHANGED vars
  BY <1>6 DEF vars, Sound, TypeOK, Holding
<1> QED BY <1>1, <1>3, <1>4, <1>5, <1>6 DEF Next

LEMMA NextKeepsIInv ==
    ASSUME "lapse" \notin Faults, IInv, [Next]_vars
    PROVE  IInv'
<1>0. Sound
  BY DEF IInv, Sound, HoldersCovered
<1>1. TypeOK'
  BY <1>0, NextKeepsSound DEF Sound
<1>2. ASSUME NEW w \in Workers, Cycle(w) \/ Process(w) \/ Fault(w) \/ Restart(w) PROVE IInv'
  <2>1. CASE Steps(w)
    <3>1. KeepsOrder(w)
      BY <1>0, <2>1, StepsKeepOrder
    <3> QED BY <1>1, <3>1, KeptLeasesKeepHolders, EffectKeepsCopies DEF KeepsOrder, IInv
  <2>2. CASE ClaimTask(w) \/ ClaimReview(w)
    <3>1. Effect(w) /\ ~Holding(w)
      BY <1>0, <2>2, ClaimSteps
    <3>2. PICK t \in Tasks, for \in {"claim", "review"} :
             /\ Q!Candidate(w, t, for, Q!LapsedFor(w))
             /\ leases' = Live \cup Q!LeasePair(w, t)
             /\ run'[w].task = t
      BY <1>0, <2>2, ClaimSteps
    <3>3. Q!LeaseExclusive' /\ HoldersCovered'
      BY <3>1, <3>2, ClaimKeepsHolders DEF Effect
    <3> QED BY <1>1, <3>1, <3>3, EffectKeepsCopies DEF IInv
  <2> QED BY <1>2, <2>1, <2>2 DEF Cycle, Steps
<1>3. ASSUME NEW f \in [leases -> Nat], leases' = Again(leases, f),
             UNCHANGED <<status, notes, branch, answering, run>>,
             \A w \in Workers, l \in leases :
                Holding(w) /\ l.worker = w /\ l.task = run[w].task /\ l.left > 0 => f[l] > 0
      PROVE  IInv'
  BY <1>1, <1>3, AgainKeepsHolders, SameCopiesStayInOrder DEF IInv
<1>4. ASSUME NEW w \in Workers, Heartbeat(w) PROVE IInv'
  <2>1. PICK f \in [leases -> Nat] : /\ leases' = Again(leases, f)
                                    /\ \A l \in leases : f[l] = l.left \/ f[l] > 0
    BY <1>0, <1>4, HeartbeatAgain
  <2>2. \A l \in leases : l.left > 0 => f[l] > 0
    BY <2>1
  <2> QED BY <1>3, <1>4, <2>1, <2>2 DEF Heartbeat, outside
<1>5. CASE Tick
  BY <1>0, <1>3, <1>5, TickAgain DEF Tick, Q!Tick, outside
<1>6. ASSUME NEW t \in Tasks, People(t) PROVE IInv'
  <2>1. leases' = leases /\ run' = run
        /\ \A u \in Tasks : branch'[u].dirty = branch[u].dirty /\ branch'[u].gated = branch[u].gated
    BY <1>0, <1>6, PeopleSteps
  <2>2. Q!LeaseExclusive' /\ HoldersCovered'
    BY <2>1 DEF IInv, Q!LeaseExclusive, Q!SameKey, HoldersCovered, Holding, Covered
  <2> QED BY <1>1, <2>1, <2>2, SameCopiesStayInOrder DEF IInv
<1>7. CASE UNCHANGED vars
  <2>1. run' = run /\ leases' = leases /\ branch' = branch
    BY <1>7 DEF vars
  <2>2. Q!LeaseExclusive' /\ HoldersCovered'
    BY <2>1 DEF IInv, Q!LeaseExclusive, Q!SameKey, HoldersCovered, Holding, Covered
  <2> QED BY <1>1, <2>1, <2>2, SameCopiesStayInOrder DEF IInv
<1> QED BY <1>2, <1>4, <1>5, <1>6, <1>7 DEF Next

-----------------------------------------------------------------------------
(* What follows *)

\* A worker is always in a state the code knows, and what it works on is a task,
\* whatever fails, lapses or is answered.
THEOREM TypeCorrect == Spec => []TypeOK
<1>1. Init => Sound
  BY InitIInv
<1>2. Sound => TypeOK
  BY DEF Sound
<1> QED BY <1>1, <1>2, NextKeepsSound, PTL DEF Spec

\* Whoever holds a claim has live leases on its task and its repository, nobody
\* else has one, and working copies are in order.
THEOREM WorkerInvariant ==
    ASSUME "lapse" \notin Faults
    PROVE  Spec => []IInv
<1>1. IInv /\ [Next]_vars => IInv'
  BY NextKeepsIInv
<1> QED BY <1>1, InitIInv, PTL DEF Spec

\* Workers never share a working copy (claimNextTask, claimReviewTask and the
\* heartbeat of withLeaseHeartbeat, among any number of workers).
THEOREM Apart ==
    ASSUME "lapse" \notin Faults
    PROVE  Spec => []WorkersApart
<1>1. IInv => WorkersApart
  BY HoldersStayAlone DEF IInv, HoldersAlone, WorkersApart, Working
<1> QED BY <1>1, WorkerInvariant, PTL

\* Uncommitted changes in a working copy are those of one task (the refusal of
\* checkoutBranch, with every error and crash that leaves changes behind).
THEOREM DirtyAlone ==
    ASSUME "lapse" \notin Faults
    PROVE  Spec => []OneTaskDirty
<1>1. IInv => OneTaskDirty
  BY DEF IInv
<1> QED BY <1>1, WorkerInvariant, PTL

\* What is pushed has passed the gates as it stands: nothing touches the working
\* copy between validateRepositoryState and the push.
THEOREM GatedPushes ==
    ASSUME "lapse" \notin Faults
    PROVE  Spec => OnlyGatedIsPushed
<1>1. IInv => PushesAreGated
  BY DEF IInv, GatedUntilPushed, PastGates, PushesAreGated, Push
<1>2. IInv => [PushesAreGated]_vars
  BY <1>1
<1> QED BY <1>2, WorkerInvariant, PTL DEF OnlyGatedIsPushed

-----------------------------------------------------------------------------
(* Reviews of a single worker *)

\* A single worker keeps its promise about reviews: a task shown as under
\* review, or handed to human testing, has its merge request on record,
\* so the reconciliation of some later cycle looks at it.
\*
\* The record of a task is dropped in one place, when a merge request is
\* opened anew, and written again by the next step.  What has to be shown
\* is that nothing in between, before or after a failure, takes the task
\* for one under review: not the worker itself, whose claim is on a task
\* that is not, and not the list of reviews it has still to go through,
\* which is empty while it holds a claim.  The second part is where other
\* workers would come in (RecoveryIsRightful does not hold), hence one.

OneWorker == \A v, w \in Workers : v = w

InReview == {"review", "human_testing", "fixing_review"}
Recorded(t) == notes[t].recorded

\* At the end of a claim the task may have come to review.
Ends == {"mirroring", "failing", "leaving"}
FixOnly == {"fixing", "replying", "reviewing", "retrying"}

ReviewsRecorded == \A t \in Tasks : status[t] \in InReview => Recorded(t)
TodoRecorded == \A w \in Workers : \A c \in run[w].todo : Recorded(c.task)

\* A claim on a task: nothing left of the list, a task that is not under review
\* before the end, and no step of a review fix.
ClaimInOrder(w) ==
    /\ run[w].todo = {}
    /\ run[w].at \notin FixOnly
    /\ run[w].at \notin Ends => status[run[w].task] \notin InReview
    /\ run[w].at = "finishing" => Recorded(run[w].task)
\* A claim on a review: on record, and never published as if it were new.
FixInOrder(w) == Recorded(run[w].task) /\ run[w].at # "opening"

HeldInOrder(w) ==
    Holding(w) => IF run[w].for = "claim" THEN ClaimInOrder(w) ELSE FixInOrder(w)

RInv ==
    /\ ReviewsRecorded
    /\ TodoRecorded
    /\ \A w \in Workers : HeldInOrder(w)

-----------------------------------------------------------------------------
(* Kinds of steps *)

RecordsKept == \A u \in Tasks : Recorded(u) => notes'[u].recorded

\* A step on with a claim, to one of the stages S, that drops no record and
\* moves, if any task, its own.
Moved(u, w, S) ==
    \/ status'[u] = status[u]
    \/ status'[u] \notin InReview
    \/ /\ u = run[w].task
       /\ Recorded(u)
       /\ S \subseteq Ends \/ run[w].for = "review"

Onward(w, S) ==
    /\ Holding(w)
    /\ Goes(w, S)
    /\ RecordsKept
    /\ \A u \in Tasks : Moved(u, w, S)
    /\ run[w].at \in Ends => S \subseteq Ends \/ run[w].for = "review"
    /\ "finishing" \in S => \A u \in Tasks : u = run[w].task => notes'[u].recorded
    /\ "opening" \in S => run[w].for = "claim"
    /\ S \cap FixOnly # {} => run[w].for = "review"

LEMMA OnwardKeepsRInv ==
    ASSUME OneWorker, Sound, RInv, NEW w \in Workers, NEW S, Onward(w, S)
    PROVE  RInv'
<1> USE DEF Onward, Moved
<1>0. run[w].task \in Tasks /\ \A v \in Workers : v = w
  BY DEF Sound, OneWorker
<1>1. PICK t \in Tasks : t = run[w].task /\ t = run'[w].task
  BY <1>0 DEF Goes
<1>2. run[w].for \in {"claim", "review"}
  BY DEF Sound, TypeOK, Run
<1>3. ReviewsRecorded'
  BY <1>1 DEF RInv, ReviewsRecorded, Recorded, RecordsKept
<1>4. TodoRecorded'
  <2> SUFFICES ASSUME NEW c \in run'[w].todo PROVE notes'[c.task].recorded
    BY <1>0 DEF TodoRecorded, Recorded
  <2>1. c \in run[w].todo
    BY DEF Goes
  <2>2. c.task \in Tasks
    BY <2>1 DEF Sound, TypeOK, Run
  <2> QED BY <2>1, <2>2 DEF RInv, TodoRecorded, Recorded, RecordsKept
<1>5. CASE run[w].for = "claim"
  <2>1. run'[w].for = "claim" /\ run'[w].todo = {} /\ run'[w].at \notin FixOnly
    BY <1>0, <1>5 DEF Goes, RInv, HeldInOrder, ClaimInOrder
  <2>2. ASSUME run'[w].at \notin Ends PROVE status'[t] \notin InReview
    <3>1. run[w].at \notin Ends /\ ~(S \subseteq Ends)
      BY <1>5, <2>2 DEF Goes
    <3> QED BY <1>1, <1>5, <3>1 DEF RInv, HeldInOrder, ClaimInOrder
  <2>3. run'[w].at = "finishing" => notes'[t].recorded
    BY <1>1 DEF Goes, RecordsKept, Recorded
  <2>4. ClaimInOrder(w)'
    BY <1>1, <2>1, <2>2, <2>3 DEF ClaimInOrder, Recorded
  <2> QED BY <1>0, <1>3, <1>4, <2>1, <2>4 DEF RInv, HeldInOrder
<1>6. CASE run[w].for = "review"
  <2>1. notes[t].recorded
    BY <1>1, <1>6 DEF RInv, HeldInOrder, FixInOrder, Recorded
  <2>2. run'[w].for = "review" /\ run'[w].at # "opening" /\ notes'[t].recorded
    BY <1>1, <1>6, <2>1 DEF Goes, RecordsKept, Recorded
  <2>3. FixInOrder(w)'
    BY <1>1, <2>2 DEF FixInOrder, Recorded
  <2> QED BY <1>0, <1>3, <1>4, <2>2, <2>3 DEF RInv, HeldInOrder
<1> QED BY <1>2, <1>5, <1>6

\* A step after which the worker holds nothing.
LEMMA FreeKeepsRInv ==
    ASSUME OneWorker, Sound, RInv, NEW w \in Workers, ~Holding(w)', RecordsKept,
           \A u \in Tasks : status'[u] \in InReview => Recorded(u),
           \A c \in run'[w].todo : c.task \in Tasks /\ Recorded(c.task)
    PROVE  RInv'
<1>1. \A v \in Workers : v = w
  BY DEF OneWorker
<1>2. ReviewsRecorded'
  BY DEF ReviewsRecorded, Recorded, RecordsKept
<1>3. TodoRecorded'
  BY <1>1 DEF TodoRecorded, Recorded, RecordsKept
<1> QED BY <1>1, <1>2, <1>3 DEF RInv, HeldInOrder

LEMMA SameNotes == notes' = notes => RecordsKept
BY DEF RecordsKept, Recorded

-----------------------------------------------------------------------------
(* The steps of the worker *)

LEMMA MoveKeepsRInv ==
    ASSUME OneWorker, Sound, RInv, NEW w \in Workers, Holding(w),
           NEW s \in Status, NEW stage \in Stages, Move(w, s, stage), notes' = notes,
           run[w].at \notin Ends, stage \notin FixOnly \cup {"opening", "finishing"},
           s \notin InReview \/ (Recorded(run[w].task)
                                 /\ (stage \in Ends \/ run[w].for = "review"))
    PROVE  RInv'
<1>0. RecordsKept /\ run[w].task \in Tasks /\ status \in [Tasks -> Status] /\ TypeOK
  BY SameNotes DEF Sound, TypeOK
<1>1. /\ "failing" \in Stages /\ "failing" \in Ends
      /\ "failing" \notin FixOnly \cup {"opening", "finishing"}
  BY DEF Stages, Ends, FixOnly
<1>2. CASE Go(w, stage) /\ status' = [status EXCEPT ![run[w].task] = s]
  <2>1. Goes(w, {stage})
    BY <1>0, <1>2, GoGoes
  <2>2. \A u \in Tasks : Moved(u, w, {stage})
    BY <1>0, <1>2 DEF Moved
  <2>3. Onward(w, {stage})
    BY <1>0, <2>1, <2>2 DEF Onward
  <2> QED BY <2>3, OnwardKeepsRInv
<1>3. CASE Go(w, "failing") /\ status' = status
  <2>1. Goes(w, {"failing"})
    BY <1>0, <1>1, <1>3, GoGoes
  <2>2. Onward(w, {"failing"})
    BY <1>0, <1>1, <1>3, <2>1 DEF Onward, Moved
  <2> QED BY <2>2, OnwardKeepsRInv
<1> QED BY <1>2, <1>3 DEF Move

LEMMA MovesKeepRInv ==
    ASSUME OneWorker, Sound, RInv, NEW w \in Workers,
           \/ StartAnalysis(w) \/ Pause(w) \/ Split(w) \/ StartCoding(w)
           \/ StartChecking(w) \/ StartRepair(w) \/ Finish(w) \/ BackToReview(w)
    PROVE  RInv'
<1>0. /\ {"analyzing", "awaiting_human", "decomposing", "implementing", "validating",
           "review", "fixing_review"} \subseteq Status
      /\ {"analyzing", "mirroring", "planning", "coding", "checking", "repairing"} \subseteq Stages
      /\ {"analyzing", "awaiting_human", "decomposing", "implementing", "validating"}
           \cap InReview = {}
      /\ "mirroring" \in Ends
      /\ {"analyzing", "mirroring", "planning", "coding", "checking", "repairing"}
           \cap (FixOnly \cup {"opening", "finishing"}) = {}
  BY DEF Status, AllowedTransitions, Stages, InReview, Ends, FixOnly
<1>1. Holding(w) /\ run[w].task \in Tasks /\ notes' = notes /\ run[w].at \notin Ends
  BY DEF StartAnalysis, Pause, Split, StartCoding, StartChecking, StartRepair, Finish,
         BackToReview, Holding, Sound, Ends
<1>2. run[w].for \in {"claim", "review"}
  BY DEF Sound, TypeOK, Run
<1>3. CASE StartAnalysis(w) \/ Pause(w) \/ Split(w) \/ StartCoding(w) \/ StartChecking(w)
  BY <1>0, <1>1, <1>3, MoveKeepsRInv DEF StartAnalysis, Pause, Split, StartCoding, StartChecking
<1>4. CASE StartRepair(w)
  <2>1. CASE run[w].for = "claim"
    BY <1>0, <1>1, <1>4, <2>1, MoveKeepsRInv DEF StartRepair
  <2>2. CASE run[w].for = "review"
    <3>1. Recorded(run[w].task)
      BY <1>1, <2>2 DEF RInv, HeldInOrder, FixInOrder
    <3> QED BY <1>0, <1>1, <1>4, <2>2, <3>1, MoveKeepsRInv DEF StartRepair
  <2> QED BY <1>2, <2>1, <2>2
<1>5. CASE Finish(w) \/ BackToReview(w)
  <2>1. Recorded(run[w].task)
    BY <1>1, <1>2, <1>5
       DEF Finish, BackToReview, RInv, HeldInOrder, FixInOrder, ClaimInOrder, FixOnly
  <2> QED BY <1>0, <1>1, <1>5, <2>1, MoveKeepsRInv DEF Finish, BackToReview
<1> QED BY <1>3, <1>4, <1>5

\* The other steps of a handler keep the claim as well.
Onwards(w) ==
    \/ Analyze(w) \/ Ask(w) \/ Plan(w) \/ Checkout(w) \/ Reuse(w) \/ Prompt(w) \/ Check(w)
    \/ Commit(w) \/ Push(w) \/ Open(w) \/ Record(w) \/ Mirror(w) \/ StartFix(w) \/ Reply(w)
    \/ Retry(w) \/ Fail(w)
ErrorAtWork(w) == Holding(w) /\ (TemporaryError(w) \/ PermanentError(w))

LEMMA OnwardsGo ==
    ASSUME Sound, NEW w \in Workers, Onwards(w) \/ ErrorAtWork(w)
    PROVE  Holding(w) /\ Goes(w, {run'[w].at})
<1>1. /\ run \in [Workers -> Run] /\ run[w] \in Run
      /\ run' \in [Workers -> Run] /\ \A v \in Workers \ {w} : run'[v] = run[v]
  <2>1. Steps(w)
    BY DEF Onwards, ErrorAtWork, Steps, Process, Fault
  <2>2. TypeOK' /\ SameHold(w)
    BY <2>1, StepsKeepOrder DEF KeepsOrder
  <2> QED BY <2>2 DEF SameHold, Sound, TypeOK
<1>2. CASE \E stage : Go(w, stage) /\ Holding(w)
  BY <1>1, <1>2 DEF Go, Goes, Run
<1>3. CASE Reuse(w) \/ Check(w) \/ Open(w) \/ StartFix(w)
  <2>1. Holding(w)
    BY <1>3 DEF Reuse, Check, Open, StartFix, Holding
  <2>2. run'[w].task = run[w].task /\ run'[w].for = run[w].for /\ run'[w].todo = run[w].todo
    BY <1>1, <1>3 DEF Reuse, Check, Open, StartFix, Move, Go, Run
  <2> QED BY <1>1, <2>1, <2>2 DEF Goes
<1>4. CASE Retry(w) \/ Fail(w)
  <2>1. Holding(w)
    BY <1>4 DEF Retry, Fail, Holding
  <2>2. \A next \in Unwound(w, "leaving") :
          /\ next.task = run[w].task /\ next.for = run[w].for
          /\ next.todo \subseteq run[w].todo
    BY <1>1 DEF Unwound, Run
  <2>3. run'[w].task = run[w].task /\ run'[w].for = run[w].for
        /\ run'[w].todo \subseteq run[w].todo
    BY <1>1, <1>4, <2>2 DEF Retry, Fail, Run
  <2> QED BY <1>1, <2>1, <2>3 DEF Goes
<1>5. CASE \/ Analyze(w) \/ Ask(w) \/ Plan(w) \/ Checkout(w) \/ Prompt(w) \/ Commit(w)
           \/ Push(w) \/ Record(w) \/ Mirror(w) \/ Reply(w) \/ ErrorAtWork(w)
  BY <1>2, <1>5 DEF Analyze, Ask, Plan, Checkout, Prompt, Commit, Push, Record, Mirror, Reply,
     ErrorAtWork, TemporaryError, PermanentError, Holding
<1> QED BY <1>3, <1>4, <1>5 DEF Onwards

\* Where they lead: on record only from recording it, to the end of a claim from
\* its end, to a new merge request only for a claim, and to the steps of a
\* review fix only for a review.
LeadsOn(w) ==
    /\ run'[w].at = "finishing" => Record(w)
    /\ run[w].at \in Ends => run'[w].at \in Ends \/ run[w].for = "review"
    /\ run'[w].at = "opening" => run[w].for = "claim"
    /\ run'[w].at \in FixOnly => run[w].for = "review"

LEMMA OnwardsLeadOn ==
    ASSUME Sound, RInv, NEW w \in Workers, Onwards(w) \/ ErrorAtWork(w)
    PROVE  LeadsOn(w)
<1>0. /\ run \in [Workers -> Run] /\ run[w] \in Run /\ run[w].for \in {"claim", "review"}
      /\ Holding(w)
  BY OnwardsGo DEF Sound, TypeOK, Run
<1>1. \A stage : Go(w, stage) => run'[w].at = stage
  BY <1>0 DEF Go, Run
<1>2. run[w].at \in FixOnly => run[w].for = "review"
  BY <1>0 DEF RInv, HeldInOrder, ClaimInOrder
<1>3. CASE Analyze(w)
  <2>1. \A d \in {"implement", "ask", "human", "decompose"} :
          Route[d] \notin FixOnly \cup {"opening", "finishing"}
    BY DEF Route, FixOnly
  <2>2. \A t \in Tasks : notes[t].decision \in {"none", "implement", "ask", "human", "decompose"}
    BY DEF Sound, TypeOK, Notes
  <2>3. run'[w].at \notin FixOnly \cup {"opening", "finishing"}
    <3>1. "starting" \notin FixOnly \cup {"opening", "finishing"}
      BY DEF FixOnly
    <3> QED BY <1>0, <1>1, <1>3, <2>1, <2>2, <3>1, WorkerAssumption DEF Analyze, Sound
  <2> QED BY <1>3, <2>3 DEF Analyze, LeadsOn, Ends
<1>4. CASE Ask(w) \/ Plan(w) \/ Mirror(w)
  BY <1>1, <1>4 DEF Ask, Plan, Mirror, LeadsOn, FixOnly, Ends
<1>5. CASE Checkout(w) \/ Prompt(w)
  BY <1>1, <1>5 DEF Checkout, Prompt, LeadsOn, FixOnly, Ends
<1>6. CASE Reuse(w)
  <2>1. run'[w].at \in {"recording", "coded", "prompting", "failing"}
    BY <1>0, <1>1, <1>6 DEF Reuse, ReusePoint, Move, Run
  <2> QED BY <1>6, <2>1 DEF Reuse, LeadsOn, FixOnly, Ends
<1>7. CASE Check(w)
  <2>1. run'[w].at \in {"committing", "refixing", "failing"}
    BY <1>0, <1>1, <1>7 DEF Check, Run
  <2> QED BY <1>7, <2>1 DEF Check, LeadsOn, FixOnly, Ends
<1>8. CASE Commit(w) \/ Push(w)
  BY <1>0, <1>1, <1>8 DEF Commit, Push, LeadsOn, FixOnly, Ends
<1>9. CASE Open(w)
  <2>1. run'[w].at = "recording"
    BY <1>0, <1>9 DEF Open, Run
  <2> QED BY <1>9, <2>1 DEF Open, LeadsOn, FixOnly, Ends
<1>10. CASE Record(w)
  BY <1>1, <1>10 DEF Record, LeadsOn, FixOnly, Ends
<1>11. CASE StartFix(w)
  <2>1. run'[w].at \in {"reviewing", "retrying", "prompting"} /\ run[w].for = "review"
    BY <1>0, <1>1, <1>2, <1>11 DEF StartFix, FixOnly, Run
  <2> QED BY <2>1 DEF LeadsOn
<1>12. CASE Reply(w)
  BY <1>1, <1>2, <1>12 DEF Reply, LeadsOn, FixOnly
<1>13. CASE Retry(w) \/ Fail(w)
  <2>1. \A next \in Unwound(w, "leaving") : next.at = "leaving"
    BY <1>0 DEF Unwound, Run
  <2>2. run'[w].at = "leaving"
    BY <1>0, <1>13, <2>1 DEF Retry, Fail, Run
  <2> QED BY <2>2 DEF LeadsOn, FixOnly, Ends
<1>14. CASE ErrorAtWork(w)
  <2>1. \/ run'[w].at \in {"leaving", "failing"}
        \/ run'[w].at = "retrying" /\ run[w].for = "review"
    BY <1>0, <1>1, <1>14 DEF ErrorAtWork, TemporaryError, PermanentError, Holding
  <2> QED BY <2>1 DEF LeadsOn, FixOnly, Ends
<1> QED BY <1>3, <1>4, <1>5, <1>6, <1>7, <1>8, <1>9, <1>10, <1>11, <1>12, <1>13, <1>14 DEF Onwards

\* Each of them is in order, but for the new merge request.
LEMMA OnwardsKeepRInv ==
    ASSUME OneWorker, Sound, RInv, NEW w \in Workers, Onwards(w) \/ ErrorAtWork(w),
           ~(Open(w) /\ notes' # notes)
    PROVE  RInv'
<1> DEFINE at == run'[w].at
<1>1. Holding(w) /\ Goes(w, {at})
  BY OnwardsGo
<1>2. PICK t \in Tasks : t = run[w].task
  BY <1>1 DEF Sound
<1>3. /\ run \in [Workers -> Run] /\ run[w].for \in {"claim", "review"}
      /\ notes \in [Tasks -> Notes] /\ notes[t] \in Notes /\ status \in [Tasks -> Status]
  BY DEF Sound, TypeOK, Run
<1>4. run[w].at \in FixOnly => run[w].for = "review" /\ Recorded(t)
  BY <1>1, <1>2, <1>3 DEF RInv, HeldInOrder, ClaimInOrder, FixInOrder
<1>5. LeadsOn(w)
  BY OnwardsLeadOn
<1>6. RecordsKept /\ (at = "finishing" => notes'[t].recorded)
  <2>1. CASE Record(w)
    BY <1>2, <1>3, <2>1 DEF Record, RecordsKept, Recorded, Notes
  <2>2. CASE Analyze(w) \/ Ask(w)
    <3>1. \A u \in Tasks : notes'[u].recorded = notes[u].recorded
      <4>1. CASE notes' = notes
        BY <4>1
      <4>2. ASSUME NEW v, notes' = [notes EXCEPT ![t].decision = v]
            PROVE  \A u \in Tasks : notes'[u].recorded = notes[u].recorded
        BY <1>3, <4>2 DEF Notes
      <4>3. CASE notes' = [notes EXCEPT ![t].dialog = "asked"]
        BY <1>3, <4>3 DEF Notes
      <4> QED BY <1>2, <2>2, <4>1, <4>2, <4>3 DEF Analyze, Ask
    <3>2. ~Record(w)
      BY <2>2 DEF Analyze, Ask, Record
    <3> QED BY <1>5, <3>1, <3>2 DEF LeadsOn, RecordsKept, Recorded
  <2>3. CASE ~(Record(w) \/ Analyze(w) \/ Ask(w))
    <3>1. notes' = notes
      BY <2>3 DEF Onwards, ErrorAtWork, Plan, Checkout, Reuse, Prompt, Check, Commit, Push, Open,
         Mirror, StartFix, Reply, Retry, Fail, TemporaryError, PermanentError, tracker, outside
    <3> QED BY <1>5, <2>3, <3>1, SameNotes DEF LeadsOn
  <2> QED BY <2>1, <2>2, <2>3
<1>7. \A u \in Tasks : Moved(u, w, {at})
  <2>1. CASE Retry(w)
    <3>1. run[w].at \in FixOnly
      BY <2>1 DEF Retry, FixOnly
    <3>2. run[w].for = "review" /\ Recorded(t)
      BY <1>4, <3>1
    <3> QED BY <1>2, <1>3, <2>1, <3>2 DEF Retry, Moved
  <2>2. CASE Fail(w)
    BY <1>2, <1>3, <2>2 DEF Fail, Moved, InReview
  <2>3. CASE Reuse(w)
    BY <1>2, <1>3, <2>3 DEF Reuse, Move, Moved, InReview
  <2>4. CASE ~(Retry(w) \/ Fail(w) \/ Reuse(w))
    <3>1. status' = status
      BY <2>4 DEF Onwards, ErrorAtWork, Analyze, Ask, Plan, Checkout, Prompt, Check, Commit, Push,
         Open, Record, Mirror, StartFix, Reply, TemporaryError, PermanentError, tracker, outside
    <3> QED BY <3>1 DEF Moved
  <2> QED BY <2>1, <2>2, <2>3, <2>4
<1>8. /\ run[w].at \in Ends => {at} \subseteq Ends \/ run[w].for = "review"
      /\ "opening" \in {at} => run[w].for = "claim"
      /\ {at} \cap FixOnly # {} => run[w].for = "review"
      /\ "finishing" \in {at} => at = "finishing"
  BY <1>5 DEF LeadsOn
<1>9. Onward(w, {at})
  BY <1>1, <1>2, <1>6, <1>7, <1>8 DEF Onward
<1> QED BY <1>9, OnwardKeepsRInv

\* A new merge request: the record goes, and the claim is on a task that is
\* neither under review nor on a list of reviews.
LEMMA OpenKeepsRInv ==
    ASSUME OneWorker, Sound, RInv, NEW w \in Workers, Open(w), notes' # notes
    PROVE  RInv'
<1>1. Holding(w) /\ Goes(w, {run'[w].at})
  BY OnwardsGo DEF Onwards
<1>2. PICK t \in Tasks : t = run[w].task
  BY <1>1 DEF Sound
<1>3. /\ run \in [Workers -> Run] /\ run[w] \in Run
      /\ notes \in [Tasks -> Notes] /\ \A v \in Workers : v = w
  BY DEF Sound, TypeOK, OneWorker
<1>4. run[w].for = "claim" /\ run[w].todo = {} /\ status[t] \notin InReview
  BY <1>1, <1>2, <1>3 DEF Open, RInv, HeldInOrder, ClaimInOrder, FixInOrder, Ends, Run
<1>5. run'[w].at = "recording" /\ status' = status
  BY <1>3 DEF Open, Run
<1>6. \A u \in Tasks \ {t} : notes'[u] = notes[u]
  BY <1>2, <1>3 DEF Open
<1>7. ReviewsRecorded'
  BY <1>4, <1>5, <1>6 DEF RInv, ReviewsRecorded, Recorded
<1>8. TodoRecorded'
  BY <1>1, <1>3, <1>4 DEF TodoRecorded, Goes
<1>9. ClaimInOrder(w)' /\ run'[w].for = "claim"
  BY <1>1, <1>2, <1>4, <1>5 DEF ClaimInOrder, Goes, FixOnly
<1> QED BY <1>3, <1>7, <1>8, <1>9 DEF RInv, HeldInOrder

\* The steps between claims.
Between(w) ==
    \/ Poll(w) \/ ListLeases(w) \/ Recover(w) \/ Settle(w) \/ Skip(w) \/ EndCycle(w)
    \/ Leave(w) \/ Crash(w) \/ Restart(w) \/ (~Holding(w) /\ Fault(w))

LEMMA BetweenKeepsRInv ==
    ASSUME OneWorker, Sound, RInv, NEW w \in Workers, Between(w)
    PROVE  RInv'
<1>1. /\ run \in [Workers -> Run] /\ run[w] \in Run /\ status \in [Tasks -> Status]
      /\ \A c \in run[w].todo : c.task \in Tasks /\ Recorded(c.task)
  BY DEF Sound, TypeOK, Run, RInv, TodoRecorded
<1>2. RecordsKept
  BY SameNotes DEF Between, Poll, ListLeases, Recover, Settle, Skip, EndCycle, Leave, Fault,
     TemporaryError, PermanentError, Crash, Restart, Holding, Working, tracker, outside
<1>3. \A stage : Doing(stage).at = stage /\ Doing(stage).todo = {}
  BY DEF Doing
<1>4. \A next \in Unwound(w, "reconciling") : /\ next.at = "reconciling"
                                             /\ next.todo \subseteq run[w].todo
  BY <1>1 DEF Unwound, Run
<1>5. ASSUME NEW u \in Tasks, status'[u] \in InReview PROVE Recorded(u)
  <2>1. CASE status' = status
    BY <1>5, <2>1 DEF RInv, ReviewsRecorded
  <2>2. CASE Recover(w)
    BY <1>1, <1>5, <2>2 DEF Recover, RInv, ReviewsRecorded
  <2>3. CASE Settle(w)
    BY <1>1, <1>5, <2>3 DEF Settle, RInv, ReviewsRecorded, Recorded
  <2> QED BY <2>1, <2>2, <2>3 DEF Between, Poll, ListLeases, Skip, EndCycle, Leave, Fault,
          TemporaryError, PermanentError, Crash, Restart, Holding, Working, tracker
<1>6. ~Holding(w)' /\ \A c \in run'[w].todo : c.task \in Tasks /\ Recorded(c.task)
  <2>1. CASE Poll(w)
    <3>1. \A c \in UnderReview : c.task \in Tasks /\ Recorded(c.task)
      BY DEF UnderReview, RInv, ReviewsRecorded, InReview
    <3>2. [Doing("listing") EXCEPT !.todo = UnderReview].at = "listing"
          /\ [Doing("listing") EXCEPT !.todo = UnderReview].todo = UnderReview
      BY DEF Doing
    <3>3. run'[w].at = "listing" /\ run'[w].todo = UnderReview
      BY <1>1, <2>1, <3>2 DEF Poll
    <3> QED BY <3>1, <3>3 DEF Holding
  <2>2. CASE ListLeases(w)
    <3>1. run'[w].at = "reconciling" /\ run'[w].todo \subseteq run[w].todo
      BY <1>1, <2>2 DEF ListLeases, Run
    <3> QED BY <1>1, <3>1 DEF Holding
  <2>3. CASE Recover(w)
    <3>1. CASE run' = [run EXCEPT ![w] = Doing("idle")]
      BY <1>1, <1>3, <3>1 DEF Holding
    <3>2. ASSUME NEW c \in run[w].todo,
                 run' = [run EXCEPT ![w] = [run[w] EXCEPT !.at = "inspecting", !.task = c.task,
                                                          !.todo = run[w].todo \ {c}]]
          PROVE  ~Holding(w)' /\ \A d \in run'[w].todo : d \in run[w].todo
      <4>1. run'[w].at = "inspecting" /\ run'[w].todo = run[w].todo \ {c}
        BY <1>1, <3>2 DEF Run
      <4> QED BY <4>1 DEF Holding
    <3> QED BY <1>1, <2>3, <3>1, <3>2 DEF Recover
  <2>4. CASE Settle(w)
    <3>1. run'[w].at \in {"reconciling", "idle"} /\ run'[w].todo \subseteq run[w].todo
      BY <1>1, <1>3, <1>4, <2>4 DEF Settle
    <3> QED BY <1>1, <3>1 DEF Holding
  <2>5. CASE Skip(w) \/ EndCycle(w) \/ Leave(w) \/ Crash(w) \/ Restart(w)
             \/ (~Holding(w) /\ Fault(w))
    <3>1. CASE \E stage \in {"idle", "down"} : run' = [run EXCEPT ![w] = Doing(stage)]
      BY <1>1, <1>3, <3>1 DEF Holding
    <3>2. CASE Go(w, "reconciling")
      <4>1. run'[w].at = "reconciling" /\ run'[w].todo = run[w].todo
        BY <1>1, <3>2 DEF Go, Run
      <4> QED BY <1>1, <4>1 DEF Holding
    <3> QED BY <2>5, <3>1, <3>2 DEF Skip, EndCycle, Leave, Crash, Restart, Fault,
            TemporaryError, PermanentError, Holding, Working, Fallible
  <2> QED BY <2>1, <2>2, <2>3, <2>4, <2>5 DEF Between
<1> QED BY <1>2, <1>5, <1>6, FreeKeepsRInv

\* A claim finds nothing left to go through; a fix is of a task on record.
LEMMA ClaimKeepsRInv ==
    ASSUME OneWorker, Sound, RInv, NEW w \in Workers, ClaimTask(w) \/ ClaimReview(w)
    PROVE  RInv'
<1>1. /\ run \in [Workers -> Run] /\ run[w] \in Run /\ status \in [Tasks -> Status]
      /\ notes' = notes /\ \A v \in Workers : v = w
  BY DEF ClaimTask, ClaimReview, outside, Sound, TypeOK, OneWorker
<1>2. CASE ClaimTask(w)
  <2>1. PICK t \in Tasks : /\ status' = [status EXCEPT ![t] = "claimed"]
                           /\ run' = [run EXCEPT ![w] = [Doing("picked") EXCEPT !.task = t]]
    BY <1>2 DEF ClaimTask, Best
  <2>2. [Doing("picked") EXCEPT !.task = t].at = "picked"
        /\ [Doing("picked") EXCEPT !.task = t].for = "claim"
        /\ [Doing("picked") EXCEPT !.task = t].task = t
        /\ [Doing("picked") EXCEPT !.task = t].todo = {}
    BY DEF Doing
  <2>3. run'[w].at = "picked" /\ run'[w].for = "claim" /\ run'[w].task = t /\ run'[w].todo = {}
    BY <1>1, <2>1, <2>2
  <2>4. ReviewsRecorded' /\ TodoRecorded'
    BY <1>1, <2>1, <2>3 DEF RInv, ReviewsRecorded, TodoRecorded, Recorded, InReview
  <2>5. ClaimInOrder(w)'
    BY <1>1, <2>1, <2>3 DEF ClaimInOrder, FixOnly, InReview
  <2> QED BY <1>1, <2>3, <2>4, <2>5 DEF RInv, HeldInOrder
<1>3. CASE ClaimReview(w)
  <2>1. PICK t \in Tasks : t = run[w].task /\ Recorded(t)
    BY <1>3, WorkerAssumption DEF ClaimReview, HasFeedback, Q!Candidate, Recorded
  <2>2. /\ run'[w].at = "fixing" /\ run'[w].for = "review"
        /\ run'[w].task = t /\ run'[w].todo = run[w].todo
    BY <1>1, <1>3, <2>1 DEF ClaimReview, Run
  <2>3. ReviewsRecorded' /\ TodoRecorded'
    BY <1>1, <1>3, <2>1, <2>2 DEF ClaimReview, RInv, ReviewsRecorded, TodoRecorded, Recorded
  <2>4. FixInOrder(w)'
    BY <1>1, <2>1, <2>2 DEF FixInOrder, Recorded
  <2> QED BY <1>1, <2>2, <2>3, <2>4 DEF RInv, HeldInOrder
<1> QED BY <1>2, <1>3

\* The timer, the clock and people bring no task to review and drop no record.
LEMMA OthersKeepRInv ==
    ASSUME Sound, RInv, run' = run,
           \A u \in Tasks : notes'[u].recorded = notes[u].recorded,
           \A u \in Tasks : status'[u] = status[u] \/ status'[u] \notin InReview
    PROVE  RInv'
<1>1. ReviewsRecorded'
  BY DEF RInv, ReviewsRecorded, Recorded
<1>2. TodoRecorded'
  BY DEF RInv, TodoRecorded, Recorded, Sound, TypeOK, Run
<1>3. ASSUME NEW w \in Workers PROVE HeldInOrder(w)'
  <2>1. CASE Holding(w)
    <3>1. PICK t \in Tasks : t = run[w].task
      BY <2>1 DEF Sound
    <3>2. ClaimInOrder(w) => ClaimInOrder(w)'
      BY <3>1 DEF ClaimInOrder, Recorded
    <3>3. FixInOrder(w) => FixInOrder(w)'
      BY <3>1 DEF FixInOrder, Recorded
    <3> QED BY <2>1, <3>2, <3>3 DEF RInv, HeldInOrder
  <2>2. CASE ~Holding(w)
    BY <2>2 DEF HeldInOrder, Holding
  <2> QED BY <2>1, <2>2
<1> QED BY <1>1, <1>2, <1>3 DEF RInv

LEMMA PeopleKeepRInv ==
    ASSUME Sound, RInv, (\E t \in Tasks : People(t)) \/ Tick \/ (\E w \in Workers : Heartbeat(w))
    PROVE  RInv'
<1>0. /\ notes \in [Tasks -> Notes] /\ status \in [Tasks -> Status]
      /\ \A s \in {"ready"} \cup Commands : s \notin InReview
  BY WorkerAssumption DEF Sound, TypeOK, InReview
<1>1. CASE Tick \/ \E w \in Workers : Heartbeat(w)
  <2>1. UNCHANGED <<status, notes, run>>
    BY <1>1 DEF Tick, Q!Tick, Heartbeat
  <2> QED BY <2>1, OthersKeepRInv
<1>2. ASSUME NEW t \in Tasks, People(t) PROVE RInv'
  <2>1. run' = run
    BY <1>2 DEF People, Answer, AnswerReads, AnswerWakes, Command, Review
  <2>2. ASSUME NEW u \in Tasks PROVE notes'[u].recorded = notes[u].recorded
    <3>1. CASE notes' = notes
      BY <3>1
    <3>2. ASSUME NEW d, notes' = [notes EXCEPT ![t].dialog = d]
          PROVE  notes'[u].recorded = notes[u].recorded
      BY <1>0, <3>2 DEF Notes
    <3>3. ASSUME NEW a, notes' = [notes EXCEPT ![t].dialog = IF @ = "none" THEN @ ELSE a]
          PROVE  notes'[u].recorded = notes[u].recorded
      BY <1>0, <3>3 DEF Notes
    <3> QED BY <1>2, <3>1, <3>3
            DEF People, Answer, AnswerReads, AnswerWakes, Command, Review, tracker
  <2>3. ASSUME NEW u \in Tasks PROVE status'[u] = status[u] \/ status'[u] \notin InReview
    <3>1. CASE status' = status
      BY <3>1
    <3>2. CASE AnswerWakes(t)
      BY <1>0, <3>2 DEF AnswerWakes
    <3>3. ASSUME NEW s \in Commands, Command(t, s)
          PROVE  status'[u] = status[u] \/ status'[u] \notin InReview
      BY <1>0, <3>3 DEF Command, Q!SetStatus
    <3> QED BY <1>2, <3>1, <3>2, <3>3 DEF People, Answer, AnswerReads, Review, tracker
  <2> QED BY <2>1, <2>2, <2>3, OthersKeepRInv
<1> QED BY <1>1, <1>2

-----------------------------------------------------------------------------
LEMMA InitRInv == Init => RInv
<1> SUFFICES ASSUME Init PROVE RInv
  OBVIOUS
<1>1. \A w \in Workers : run[w].at = "idle" /\ run[w].todo = {}
  BY DEF Init, Doing
<1>2. \A t \in Tasks : status[t] = "ready"
  BY DEF Init
<1> QED BY <1>1, <1>2 DEF RInv, ReviewsRecorded, TodoRecorded, HeldInOrder, Holding, InReview

LEMMA NextKeepsRInv ==
    ASSUME OneWorker, Sound, RInv, [Next]_vars
    PROVE  RInv'
<1>1. CASE UNCHANGED vars
  BY <1>1, OthersKeepRInv DEF vars
<1>2. ASSUME NEW w \in Workers, Cycle(w) \/ Process(w) \/ Fault(w) \/ Restart(w)
      PROVE  RInv'
  <2>1. CASE ClaimTask(w) \/ ClaimReview(w)
    BY <2>1, ClaimKeepsRInv
  <2>2. CASE Between(w)
    BY <2>2, BetweenKeepsRInv
  <2>3. CASE \/ StartAnalysis(w) \/ Pause(w) \/ Split(w) \/ StartCoding(w)
             \/ StartChecking(w) \/ StartRepair(w) \/ Finish(w) \/ BackToReview(w)
    BY <2>3, MovesKeepRInv
  <2>4. CASE Onwards(w) \/ ErrorAtWork(w)
    BY <2>4, OnwardsKeepRInv, OpenKeepsRInv
  <2> QED BY <1>2, <2>1, <2>2, <2>3, <2>4
          DEF Cycle, Process, Fault, Between, Onwards, ErrorAtWork
<1> QED BY <1>1, <1>2, PeopleKeepRInv DEF Next

\* A task under review, or handed to human testing, has its merge request on
\* record, whatever fails and whoever intervenes, if there is one worker: with
\* more, another may take up and record anew what this one is about to recover.
THEOREM ReviewOnRecord ==
    ASSUME OneWorker
    PROVE  Spec => []ReviewIsOnRecord
<1>1. Init => Sound /\ RInv
  BY InitIInv, InitRInv
<1>2. Sound /\ RInv /\ [Next]_vars => (Sound /\ RInv)'
  BY NextKeepsSound, NextKeepsRInv
<1>3. RInv => ReviewIsOnRecord
  BY DEF RInv, ReviewsRecorded, Recorded, InReview, ReviewIsOnRecord
<1> QED BY <1>1, <1>2, <1>3, PTL DEF Spec
=============================================================================
