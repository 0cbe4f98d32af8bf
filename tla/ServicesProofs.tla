--------------------------- MODULE ServicesProofs ---------------------------
(***************************************************************************)
(* What holds of the parts around the internal worker, for any instance:   *)
(* of the bridge between the two trackers, of the migrations of the        *)
(* tracker's schema, of the worker of direct mode, of the gates before a   *)
(* push, of the review of the intake, of the life of a process, and of the *)
(* settings that make one.  They share no state; where two of them have a  *)
(* variable of one name, it stands for the one and for the other.  What    *)
(* has no prefix is of Configuration.                                      *)
(***************************************************************************)
EXTENDS Configuration, FiniteSets, FiniteSetTheorems, WellFoundedInduction, TLAPS

-----------------------------------------------------------------------------
(* The bridge *)

CONSTANTS Workers, Issues, Kinds, Resolving, MaxComments, MaxQuestions, MaxFaults

VARIABLES issue, comments, task, questions, answers, notes, imported, posted, exported, synced,
          cycle, faults

Bridge == INSTANCE YandexBridge

BridgeConstants == MaxComments \in Nat /\ MaxQuestions \in Nat /\ MaxFaults \in Nat

\* The statuses that the bridge, and work as it is here, lead to.
TaskAt  == {"none", "ready", "analyzing", "awaiting_human", "review", "human_testing", "done"}
IssueAt == {"absent", "open", "in_progress", "waiting_for_answer", "review", "done"}

BridgeTyped ==
    /\ issue \in [Issues -> IssueAt] /\ task \in [Issues -> TaskAt]
    /\ comments \in [Issues -> Seq([kind : Kinds, asked : Nat])]
    /\ questions \in [Issues -> Nat]
    /\ answers \in [Issues -> SUBSET (Nat \X Nat)] /\ notes \in [Issues -> SUBSET Nat]
    /\ imported \in [Issues -> SUBSET Nat]
    /\ posted \in [Issues -> SUBSET Nat] /\ exported \in [Issues -> SUBSET Nat]
    /\ faults \in 0..MaxFaults

\* Of one issue: what is there belongs to comments and questions that exist, an answer
\* follows what it answers, and what is recorded as done was done.
Recorded(i) ==
    /\ Len(comments[i]) <= MaxComments /\ questions[i] <= MaxQuestions
    /\ \A a \in answers[i] :
          /\ a[1] \in 1..Len(comments[i]) /\ a[2] <= questions[i]
          /\ Bridge!IsAnswer(comments[i][a[1]], a[2])
    /\ notes[i] \subseteq 1..Len(comments[i]) /\ imported[i] \subseteq 1..Len(comments[i])
    /\ \A c \in imported[i] : Bridge!Stored(i, c)
    /\ posted[i] \subseteq 1..questions[i] /\ exported[i] \subseteq posted[i]

\* What a worker relies on at a step of its cycle.
Importing(c, i) ==
    /\ c.question \in Nat /\ c.question <= questions[i]
    /\ c.at \in {"comments", "mark"} => c.todo \subseteq 1..Len(comments[i])
    /\ c.at = "mark" => c.todo # {} /\ Bridge!Stored(i, Bridge!Least(c.todo))
Mirroring(c, i) ==
    /\ i \in Issues /\ task[i] # "none"
    /\ c.at \in {"export", "record_export"} => c.todo \subseteq 1..questions[i]
    /\ c.at = "record_export" => c.todo # {} /\ Bridge!Least(c.todo) \in posted[i]
Fit(c) ==
    /\ c = [at |-> c.at, list |-> c.list, status |-> c.status, question |-> c.question,
            todo |-> c.todo, worked |-> c.worked, target |-> c.target]
    /\ c.at \in Bridge!Stages
    /\ c.at \in {"create", "accept", "list", "comments", "mark"} /\ Bridge!First(c.list).of \in Issues
          => Importing(c, Bridge!First(c.list).of)
    /\ c.at \in {"work", "look", "export", "record_export", "sync", "record_sync"}
          => Mirroring(c, c.worked)

BridgeInv ==
    /\ BridgeTyped
    /\ \A i \in Issues : Recorded(i)
    /\ DOMAIN cycle = Workers /\ cycle = [w \in Workers |-> cycle[w]]
    /\ \A w \in Workers : Fit(cycle[w])

\* The least of a set of numbers is one of them.
LEMMA LeastIsOne ==
    ASSUME NEW S \in SUBSET Nat, S # {}
    PROVE  Bridge!Least(S) \in S /\ \A k \in S : Bridge!Least(S) <= k
<1> DEFINE Before == {p \in Nat \X Nat : p[1] < p[2]}
<1>1. IsWellFoundedOn(Before, Nat)
  <2>1. OpToRel(<, Nat) = Before
    BY DEF OpToRel
  <2> QED BY <2>1, NatLessThanWellFounded
<1>2. PICK m \in S : \A k \in S : <<k, m>> \notin Before
  BY <1>1, WFMin
<1>3. ASSUME NEW k \in S PROVE m <= k
  <2>1. k \in Nat /\ m \in Nat /\ ~(k < m)
    BY <1>2
  <2> QED BY <2>1
<1> QED BY <1>3 DEF Bridge!Least

\* What no step takes back.
Grown ==
    \A i \in Issues :
        /\ Len(comments[i]) <= Len(comments'[i])
        /\ \A c \in 1..Len(comments[i]) : comments'[i][c] = comments[i][c]
        /\ questions[i] <= questions'[i]
        /\ answers[i] \subseteq answers'[i] /\ notes[i] \subseteq notes'[i]
        /\ posted[i] \subseteq posted'[i]
        /\ task[i] # "none" => task'[i] # "none"

\* So nobody's step disturbs what another worker relies on.
LEMMA StaysFit ==
    ASSUME BridgeTyped, BridgeTyped', Grown, NEW c, Fit(c)
    PROVE  Fit(c)'
<1>1. ASSUME NEW i \in Issues, NEW n, Bridge!Stored(i, n) PROVE Bridge!Stored(i, n)'
  BY <1>1 DEF Bridge!Stored, Grown
<1>2. ASSUME NEW i \in Issues PROVE Importing(c, i) => Importing(c, i)'
  <2>1. /\ Len(comments[i]) \in Nat /\ Len(comments'[i]) \in Nat /\ Len(comments[i]) <= Len(comments'[i])
        /\ questions[i] \in Nat /\ questions'[i] \in Nat /\ questions[i] <= questions'[i]
    BY DEF BridgeTyped, Grown
  <2>2. 1..Len(comments[i]) \subseteq 1..Len(comments'[i])
    BY <2>1
  <2> QED BY <1>1, <2>1, <2>2 DEF Importing
<1>3. ASSUME NEW i, Mirroring(c, i) PROVE Mirroring(c, i)'
  <2>1. i \in Issues
    BY <1>3 DEF Mirroring
  <2>2. questions[i] \in Nat /\ questions'[i] \in Nat /\ questions[i] <= questions'[i]
    BY <2>1 DEF BridgeTyped, Grown
  <2>3. 1..questions[i] \subseteq 1..questions'[i]
    BY <2>2
  <2> QED BY <1>3, <2>1, <2>3 DEF Mirroring, Grown
<1> QED BY <1>2, <1>3 DEF Fit, Bridge!Stages

LEMMA BridgeInit == ASSUME BridgeConstants, Bridge!Init PROVE BridgeInv
<1>1. BridgeTyped
  BY DEF Bridge!Init, BridgeTyped, BridgeConstants, TaskAt, IssueAt
<1>2. ASSUME NEW i \in Issues PROVE Recorded(i)
  BY DEF Bridge!Init, Recorded, BridgeConstants
<1>3. ASSUME NEW w \in Workers PROVE Fit(cycle[w])
  BY DEF Bridge!Init, Fit, Bridge!Idle, Bridge!Stages
<1> QED BY <1>1, <1>2, <1>3 DEF BridgeInv, Bridge!Init

LEMMA BridgeMoves ==
    ASSUME BridgeInv, NEW w \in Workers, NEW c, cycle' = [cycle EXCEPT ![w] = c],
           Grown, BridgeTyped', Fit(c)', \A i \in Issues : Recorded(i)'
    PROVE  BridgeInv'
<1>1. ASSUME NEW v \in Workers PROVE Fit(cycle[v])'
  <2>1. CASE v = w
    <3>1. cycle'[v] = c
      BY <2>1 DEF BridgeInv
    <3> QED BY <3>1 DEF Fit, Importing, Mirroring
  <2>2. CASE v # w
    <3>1. PICK d : d = cycle[v]
      OBVIOUS
    <3>2. cycle'[v] = d
      BY <2>2, <3>1 DEF BridgeInv
    <3>3. Fit(d)
      BY <3>1 DEF BridgeInv
    <3>4. Fit(d)'
      BY <3>3, StaysFit DEF BridgeInv
    <3> QED BY <3>2, <3>4 DEF Fit, Importing, Mirroring
  <2> QED BY <2>1, <2>2
<1> QED BY <1>1 DEF BridgeInv

\* Steps that leave the records alone.
LEMMA QuietStep ==
    ASSUME BridgeInv, NEW w \in Workers, NEW c, cycle' = [cycle EXCEPT ![w] = c],
           UNCHANGED <<comments, questions, answers, notes, imported, posted, exported>>,
           issue' \in [Issues -> IssueAt], task' \in [Issues -> TaskAt], faults' \in 0..MaxFaults,
           \A i \in Issues : task[i] # "none" => task'[i] # "none",
           Grown /\ BridgeTyped' => Fit(c)'
    PROVE  BridgeInv'
<1>1. BridgeTyped'
  BY DEF BridgeInv, BridgeTyped
<1>2. Grown
  <2> SUFFICES ASSUME NEW i \in Issues
               PROVE  Len(comments[i]) <= Len(comments[i]) /\ questions[i] <= questions[i]
    BY DEF Grown
  <2> QED BY DEF BridgeInv, BridgeTyped
<1>3. ASSUME NEW i \in Issues PROVE Recorded(i)'
  BY DEF BridgeInv, Recorded, Bridge!Stored
<1> QED BY <1>1, <1>2, <1>3, BridgeMoves

\* A worker whose cycle ends relies on nothing.
LEMMA IdleFits == Fit(Bridge!Idle)
  BY DEF Fit, Bridge!Idle, Bridge!Stages

\* The step of a worker, by what becomes of its cycle.
LEMMA Turning ==
    ASSUME BridgeInv, NEW w \in Workers
    PROVE  /\ Fit(cycle[w])
           /\ \A at : [cycle[w] EXCEPT !.at = at] =
                [at |-> at, list |-> cycle[w].list, status |-> cycle[w].status,
                 question |-> cycle[w].question, todo |-> cycle[w].todo, worked |-> cycle[w].worked,
                 target |-> cycle[w].target]
<1>1. Fit(cycle[w])
  BY DEF BridgeInv
<1>2. PICK d : d = cycle[w]
  OBVIOUS
<1>3. d = [at |-> d.at, list |-> d.list, status |-> d.status, question |-> d.question,
           todo |-> d.todo, worked |-> d.worked, target |-> d.target]
  BY <1>1, <1>2 DEF Fit
<1>4. ASSUME NEW at
      PROVE  [d EXCEPT !.at = at] =
               [at |-> at, list |-> d.list, status |-> d.status, question |-> d.question,
                todo |-> d.todo, worked |-> d.worked, target |-> d.target]
  BY <1>3
<1> QED BY <1>1, <1>2, <1>4

LEMMA FetchStep ==
    ASSUME BridgeInv, NEW w \in Workers, Bridge!Fetch(w)
    PROVE  BridgeInv'
<1>1. PICK l : cycle' = [cycle EXCEPT ![w] = [Bridge!Idle EXCEPT !.at = "next", !.list = l]]
  BY DEF Bridge!Fetch
<1>2. PICK c : c = [Bridge!Idle EXCEPT !.at = "next", !.list = l]
  OBVIOUS
<1>3. Fit(c)'
  BY <1>2 DEF Fit, Bridge!Idle, Bridge!Stages
<1>4. /\ UNCHANGED <<comments, questions, answers, notes, imported, posted, exported>>
      /\ UNCHANGED <<issue, task, faults>>
  BY DEF Bridge!Fetch
<1>5. issue' \in [Issues -> IssueAt] /\ task' \in [Issues -> TaskAt] /\ faults' \in 0..MaxFaults
  BY <1>4 DEF BridgeInv, BridgeTyped
<1> QED BY <1>1, <1>2, <1>3, <1>4, <1>5, QuietStep

LEMMA FindStep ==
    ASSUME BridgeInv, NEW w \in Workers, Bridge!Find(w)
    PROVE  BridgeInv'
<1> DEFINE i == Bridge!First(cycle[w].list).of
<1>1. PICK d : d = cycle[w] /\ Fit(d)
  BY Turning
<1>2. PICK c : /\ cycle' = [cycle EXCEPT ![w] = c]
               /\ \/ c = [d EXCEPT !.at = "next", !.list = @ \ {Bridge!First(@)}]
                  \/ /\ c.at \in {"create", "accept"} /\ c.list = d.list
                     /\ c.question = questions[i]
                     /\ c = [d EXCEPT !.at = c.at, !.status = c.status, !.question = c.question]
  <2>1. CASE task[i] = "none" /\ Bridge!Now(w).status # "open"
    <3>1. PICK c : c = [d EXCEPT !.at = "next", !.list = @ \ {Bridge!First(@)}]
      OBVIOUS
    <3>2. cycle' = [cycle EXCEPT ![w] = c]
      BY <1>1, <2>1, <3>1 DEF Bridge!Find, Bridge!NextIssue, Bridge!Now
    <3> QED BY <3>1, <3>2
  <2>2. CASE ~(task[i] = "none" /\ Bridge!Now(w).status # "open")
    <3>1. PICK c : c = [d EXCEPT !.at = IF task[i] = "none" THEN "create" ELSE "accept",
                                 !.status = task[i], !.question = questions[i]]
      OBVIOUS
    <3>2. cycle' = [cycle EXCEPT ![w] = c]
      BY <1>1, <2>2, <3>1 DEF Bridge!Find, Bridge!Now
    <3>3. c.at \in {"create", "accept"} /\ c.list = d.list /\ c.question = questions[i]
          /\ c = [d EXCEPT !.at = c.at, !.status = c.status, !.question = c.question]
      BY <1>1, <3>1 DEF Fit
    <3> QED BY <3>2, <3>3
  <2> QED BY <2>1, <2>2
<1>3. /\ UNCHANGED <<comments, questions, answers, notes, imported, posted, exported>>
      /\ UNCHANGED <<issue, task, faults>>
  BY DEF Bridge!Find
<1>4. issue' \in [Issues -> IssueAt] /\ task' \in [Issues -> TaskAt] /\ faults' \in 0..MaxFaults
  BY <1>3 DEF BridgeInv, BridgeTyped
<1>5. Fit(c)'
  <2>1. CASE c = [d EXCEPT !.at = "next", !.list = @ \ {Bridge!First(@)}]
    BY <1>1, <2>1 DEF Fit, Bridge!Stages
  <2>2. CASE /\ c.at \in {"create", "accept"} /\ c.list = d.list
             /\ c.question = questions[i]
             /\ c = [d EXCEPT !.at = c.at, !.status = c.status, !.question = c.question]
    <3>1. i \in Issues => questions[i] \in Nat
      BY DEF BridgeInv, BridgeTyped
    <3>2. i = Bridge!First(c.list).of
      BY <1>1, <2>2
    <3>3. Bridge!First(c.list).of \in Issues => Importing(c, Bridge!First(c.list).of)'
      BY <1>3, <2>2, <3>1, <3>2 DEF Importing
    <3>4. c = [at |-> c.at, list |-> c.list, status |-> c.status, question |-> c.question,
               todo |-> c.todo, worked |-> c.worked, target |-> c.target]
      BY <1>1, <2>2 DEF Fit
    <3> QED BY <2>2, <3>3, <3>4 DEF Fit, Bridge!Stages
  <2> QED BY <1>2, <2>1, <2>2
<1> QED BY <1>2, <1>3, <1>4, <1>5, QuietStep

LEMMA CreateStep ==
    ASSUME BridgeInv, NEW w \in Workers, Bridge!Create(w)
    PROVE  BridgeInv'
<1>1. PICK d : d = cycle[w] /\ Fit(d)
  BY Turning
<1>2. PICK c : /\ cycle' = [cycle EXCEPT ![w] = c]
               /\ c = [d EXCEPT !.at = "list"] \/ c = Bridge!Idle
  BY <1>1 DEF Bridge!Create, Bridge!Go, Bridge!End
<1>3. /\ UNCHANGED <<comments, questions, answers, notes, imported, posted, exported>>
      /\ UNCHANGED <<issue, faults>>
      /\ task' = task \/ \E i : task' = [task EXCEPT ![i] = "ready"]
  BY DEF Bridge!Create
<1>4. /\ issue' \in [Issues -> IssueAt] /\ task' \in [Issues -> TaskAt] /\ faults' \in 0..MaxFaults
      /\ \A i \in Issues : task[i] # "none" => task'[i] # "none"
  BY <1>3 DEF BridgeInv, BridgeTyped, TaskAt
<1>5. ASSUME Grown, BridgeTyped' PROVE Fit(c)'
  <2>1. CASE c = Bridge!Idle
    BY <2>1, IdleFits DEF Fit, Bridge!Idle, Bridge!Stages
  <2>2. CASE c = [d EXCEPT !.at = "list"]
    <3>1. d.at = "create"
      BY <1>1 DEF Bridge!Create
    <3>2. Fit(d)'
      BY <1>1, <1>5, StaysFit DEF BridgeInv
    <3> QED BY <2>2, <3>1, <3>2 DEF Fit, Importing, Bridge!Stages
  <2> QED BY <1>2, <2>1, <2>2
<1> QED BY <1>2, <1>3, <1>4, <1>5, QuietStep

LEMMA AcceptStep ==
    ASSUME BridgeInv, NEW w \in Workers, Bridge!Accept(w)
    PROVE  BridgeInv'
<1>1. PICK d : d = cycle[w] /\ Fit(d)
  BY Turning
<1>2. PICK c : /\ cycle' = [cycle EXCEPT ![w] = c]
               /\ c = [d EXCEPT !.at = "list"] \/ c = Bridge!Idle
  BY <1>1 DEF Bridge!Accept, Bridge!Go, Bridge!End
<1>3. /\ UNCHANGED <<comments, questions, answers, notes, imported, posted, exported>>
      /\ UNCHANGED <<issue, faults>>
      /\ task' = task \/ \E i : task' = [task EXCEPT ![i] = "done"]
  BY DEF Bridge!Accept
<1>4. /\ issue' \in [Issues -> IssueAt] /\ task' \in [Issues -> TaskAt] /\ faults' \in 0..MaxFaults
      /\ \A i \in Issues : task[i] # "none" => task'[i] # "none"
  BY <1>3 DEF BridgeInv, BridgeTyped, TaskAt
<1>5. ASSUME Grown, BridgeTyped' PROVE Fit(c)'
  <2>1. CASE c = Bridge!Idle
    BY <2>1, IdleFits DEF Fit, Bridge!Idle, Bridge!Stages
  <2>2. CASE c = [d EXCEPT !.at = "list"]
    <3>1. d.at = "accept"
      BY <1>1 DEF Bridge!Accept
    <3>2. Fit(d)'
      BY <1>1, <1>5, StaysFit DEF BridgeInv
    <3> QED BY <2>2, <3>1, <3>2 DEF Fit, Importing, Bridge!Stages
  <2> QED BY <1>2, <2>1, <2>2
<1> QED BY <1>2, <1>3, <1>4, <1>5, QuietStep

LEMMA ListStep ==
    ASSUME BridgeInv, NEW w \in Workers, Bridge!List(w)
    PROVE  BridgeInv'
<1>1. PICK d : d = cycle[w] /\ Fit(d)
  BY Turning
<1>2. PICK c : c = [d EXCEPT !.at = "comments", !.todo = Bridge!Unimported(Bridge!Now(w).of)]
  OBVIOUS
<1>3. cycle' = [cycle EXCEPT ![w] = c]
  BY <1>1, <1>2 DEF Bridge!List
<1>4. /\ UNCHANGED <<comments, questions, answers, notes, imported, posted, exported>>
      /\ UNCHANGED <<issue, task, faults>>
  BY DEF Bridge!List
<1>5. issue' \in [Issues -> IssueAt] /\ task' \in [Issues -> TaskAt] /\ faults' \in 0..MaxFaults
  BY <1>4 DEF BridgeInv, BridgeTyped
<1>6. Fit(c)'
  <2>1. d.at = "list"
    BY <1>1 DEF Bridge!List
  <2>2. c = [at |-> "comments", list |-> d.list, status |-> d.status, question |-> d.question,
             todo |-> 1..Len(comments[Bridge!First(d.list).of]) \ imported[Bridge!First(d.list).of],
             worked |-> d.worked, target |-> d.target]
    BY <1>1, <1>2 DEF Fit, Bridge!Unimported, Bridge!Now
  <2>3. c.todo \subseteq 1..Len(comments[Bridge!First(d.list).of])
    BY <2>2
  <2> QED BY <1>1, <1>4, <2>1, <2>2, <2>3 DEF Fit, Importing, Bridge!Stages
<1> QED BY <1>3, <1>4, <1>5, <1>6, QuietStep

LEMMA CommentsDoneStep ==
    ASSUME BridgeInv, NEW w \in Workers, Bridge!CommentsDone(w)
    PROVE  BridgeInv'
<1>1. PICK d : d = cycle[w] /\ Fit(d)
  BY Turning
<1>2. PICK c : c = [d EXCEPT !.at = "next", !.list = @ \ {Bridge!First(@)}]
  OBVIOUS
<1>3. cycle' = [cycle EXCEPT ![w] = c]
  BY <1>1, <1>2 DEF Bridge!CommentsDone, Bridge!NextIssue
<1>4. /\ UNCHANGED <<comments, questions, answers, notes, imported, posted, exported>>
      /\ UNCHANGED <<issue, task, faults>>
  BY DEF Bridge!CommentsDone
<1>5. issue' \in [Issues -> IssueAt] /\ task' \in [Issues -> TaskAt] /\ faults' \in 0..MaxFaults
  BY <1>4 DEF BridgeInv, BridgeTyped
<1>6. Fit(c)'
  BY <1>1, <1>2 DEF Fit, Bridge!Stages
<1> QED BY <1>3, <1>4, <1>5, <1>6, QuietStep

LEMMA TakeStep ==
    ASSUME BridgeInv, NEW w \in Workers, Bridge!Take(w)
    PROVE  BridgeInv'
<1>1. PICK d : d = cycle[w] /\ Fit(d)
  BY Turning
<1>2. /\ UNCHANGED <<comments, questions, answers, notes, imported, posted, exported>>
      /\ UNCHANGED <<issue, faults>>
  BY DEF Bridge!Take
<1>3. CASE cycle' = [cycle EXCEPT ![w] = Bridge!Idle] /\ task' = task
  <2>1. Fit(Bridge!Idle)'
    BY DEF Fit, Bridge!Idle, Bridge!Stages
  <2>2. issue' \in [Issues -> IssueAt] /\ task' \in [Issues -> TaskAt] /\ faults' \in 0..MaxFaults
    BY <1>2, <1>3 DEF BridgeInv, BridgeTyped
  <2> QED BY <1>2, <1>3, <2>1, <2>2, QuietStep
<1>4. ASSUME NEW i \in Issues, NEW to \in {"analyzing", "human_testing"}, NEW at \in {"work", "look"},
             task' = [task EXCEPT ![i] = to],
             cycle' = [cycle EXCEPT ![w].at = at, ![w].worked = i]
      PROVE  BridgeInv'
  <2>1. PICK c : c = [d EXCEPT !.at = at, !.worked = i]
    OBVIOUS
  <2>2. cycle' = [cycle EXCEPT ![w] = c]
    BY <1>1, <1>4, <2>1
  <2>3. /\ issue' \in [Issues -> IssueAt] /\ task' \in [Issues -> TaskAt] /\ faults' \in 0..MaxFaults
        /\ \A j \in Issues : task[j] # "none" => task'[j] # "none"
        /\ task'[i] # "none"
    BY <1>2, <1>4 DEF BridgeInv, BridgeTyped, TaskAt
  <2>4. Fit(c)'
    BY <1>1, <2>1, <2>3 DEF Fit, Mirroring, Bridge!Stages
  <2> QED BY <1>2, <2>2, <2>3, <2>4, QuietStep
<1>5. \/ cycle' = [cycle EXCEPT ![w] = Bridge!Idle] /\ task' = task
      \/ \E i \in Issues, to \in {"analyzing", "human_testing"}, at \in {"work", "look"} :
            /\ task' = [task EXCEPT ![i] = to]
            /\ cycle' = [cycle EXCEPT ![w].at = at, ![w].worked = i]
  <2>1. ASSUME NEW i \in Issues,
               NEW taken \in {<<"ready", "analyzing", "work">>, <<"review", "human_testing", "look">>}
        PROVE  taken[2] \in {"analyzing", "human_testing"} /\ taken[3] \in {"work", "look"}
    OBVIOUS
  <2> QED BY <2>1 DEF Bridge!Take, Bridge!End
<1> QED BY <1>3, <1>4, <1>5

LEMMA LookStep ==
    ASSUME BridgeInv, NEW w \in Workers, Bridge!Look(w)
    PROVE  BridgeInv'
<1>1. PICK d : d = cycle[w] /\ Fit(d)
  BY Turning
<1>2. PICK c : c = [d EXCEPT !.at = "export", !.todo = 1..questions[d.worked]]
  OBVIOUS
<1>3. cycle' = [cycle EXCEPT ![w] = c]
  BY <1>1, <1>2 DEF Bridge!Look
<1>4. /\ UNCHANGED <<comments, questions, answers, notes, imported, posted, exported>>
      /\ UNCHANGED <<issue, task, faults>>
  BY DEF Bridge!Look
<1>5. issue' \in [Issues -> IssueAt] /\ task' \in [Issues -> TaskAt] /\ faults' \in 0..MaxFaults
  BY <1>4 DEF BridgeInv, BridgeTyped
<1>6. Fit(c)'
  <2>1. d.at = "look"
    BY <1>1 DEF Bridge!Look
  <2> QED BY <1>1, <1>2, <1>4, <2>1 DEF Fit, Mirroring, Bridge!Stages
<1> QED BY <1>3, <1>4, <1>5, <1>6, QuietStep

LEMMA SyncStep ==
    ASSUME BridgeInv, NEW w \in Workers, Bridge!Sync(w)
    PROVE  BridgeInv'
<1>1. PICK d : d = cycle[w] /\ Fit(d)
  BY Turning
<1>0. PICK i, to : i = d.worked /\ to = Bridge!LogicalStatus(task[i])
  OBVIOUS
<1>2. d.at = "sync" /\ Mirroring(d, i)
  BY <1>0, <1>1 DEF Bridge!Sync, Fit
<1>3. PICK c : /\ cycle' = [cycle EXCEPT ![w] = c]
               /\ c = Bridge!Idle \/ c = [d EXCEPT !.at = "record_sync", !.target = to]
  <2>1. CASE task[i] = "ready" \/ synced[i] = to
    BY <1>0, <1>1, <2>1 DEF Bridge!Sync, Bridge!End
  <2>2. CASE ~(task[i] = "ready" \/ synced[i] = to)
    <3>1. PICK c : c = [d EXCEPT !.at = "record_sync", !.target = to]
      OBVIOUS
    <3>2. cycle' = [cycle EXCEPT ![w] = c]
      BY <1>0, <1>1, <2>2, <3>1 DEF Bridge!Sync
    <3> QED BY <3>1, <3>2
  <2> QED BY <2>1, <2>2
<1>4. /\ UNCHANGED <<comments, questions, answers, notes, imported, posted, exported>>
      /\ UNCHANGED <<task, faults>>
      /\ issue' = issue \/ issue' = [issue EXCEPT ![i] = to]
  BY <1>0, <1>1 DEF Bridge!Sync
<1>5. to \in IssueAt
  <2>1. task[i] \in TaskAt \ {"none"}
    BY <1>2 DEF Mirroring, BridgeInv, BridgeTyped
  <2> QED BY <1>0, <2>1 DEF TaskAt, IssueAt, Bridge!LogicalStatus
<1>6. issue' \in [Issues -> IssueAt] /\ task' \in [Issues -> TaskAt] /\ faults' \in 0..MaxFaults
  BY <1>4, <1>5 DEF BridgeInv, BridgeTyped
<1>7. Fit(c)'
  <2>1. CASE c = Bridge!Idle
    BY <2>1 DEF Fit, Bridge!Stages, Bridge!Idle
  <2>2. CASE c = [d EXCEPT !.at = "record_sync", !.target = to]
    BY <1>0, <1>1, <1>2, <1>4, <2>2 DEF Fit, Mirroring, Bridge!Stages
  <2> QED BY <1>3, <2>1, <2>2
<1> QED BY <1>3, <1>4, <1>6, <1>7, QuietStep

\* A cycle ends when it is through, or when a call fails or the worker dies.
LEMMA EndStep ==
    ASSUME BridgeConstants, BridgeInv, NEW w \in Workers, Bridge!RecordSync(w) \/ Bridge!Break(w)
    PROVE  BridgeInv'
<1>1. cycle' = [cycle EXCEPT ![w] = Bridge!Idle]
  BY DEF Bridge!RecordSync, Bridge!Break, Bridge!End
<1>2. /\ UNCHANGED <<comments, questions, answers, notes, imported, posted, exported>>
      /\ UNCHANGED <<issue, task>>
      /\ faults' = faults \/ (faults < MaxFaults /\ faults' = faults + 1)
  BY DEF Bridge!RecordSync, Bridge!Break
<1>3. issue' \in [Issues -> IssueAt] /\ task' \in [Issues -> TaskAt] /\ faults' \in 0..MaxFaults
  BY <1>2 DEF BridgeInv, BridgeTyped, BridgeConstants
<1>4. Fit(Bridge!Idle)'
  BY DEF Fit, Bridge!Idle, Bridge!Stages
<1> QED BY <1>1, <1>2, <1>3, <1>4, QuietStep

\* An answer is stored with the question that was the latest when the issue was looked
\* up, which it follows; the question may not be the latest any more.
LEMMA StoreStep ==
    ASSUME BridgeInv, NEW w \in Workers, Bridge!Store(w)
    PROVE  BridgeInv'
<1>1. PICK d : d = cycle[w] /\ Fit(d)
  BY Turning
<1>0. PICK i, n, q : i = Bridge!First(d.list).of /\ n = Bridge!Least(d.todo) /\ q = d.question
  OBVIOUS
<1>2. d.at = "comments" /\ d.todo # {}
  BY <1>1 DEF Bridge!Store
<1>3. PICK c : c = [d EXCEPT !.at = "mark"]
  OBVIOUS
<1>4. cycle' = [cycle EXCEPT ![w] = c]
  BY <1>1, <1>3 DEF Bridge!Store, Bridge!Go
<1>5. UNCHANGED <<issue, comments, questions, imported, posted, exported, faults>>
  BY DEF Bridge!Store
<1>6. i \in Issues => /\ Importing(d, i)
                      /\ n \in 1..Len(comments[i]) /\ n \in Nat /\ q \in Nat /\ q <= questions[i]
  <2> SUFFICES ASSUME i \in Issues
               PROVE  /\ Importing(d, i)
                      /\ n \in 1..Len(comments[i]) /\ n \in Nat /\ q \in Nat /\ q <= questions[i]
    OBVIOUS
  <2>1. Importing(d, i)
    BY <1>0, <1>1, <1>2 DEF Fit
  <2>2. d.todo \subseteq 1..Len(comments[i]) /\ Len(comments[i]) \in Nat
    BY <1>2, <2>1 DEF Importing, BridgeInv, BridgeTyped
  <2>3. d.todo \in SUBSET Nat
    BY <2>2
  <2>4. n \in d.todo
    BY <1>0, <1>2, <2>3, LeastIsOne
  <2>5. n \in 1..Len(comments[i]) /\ n \in Nat
    BY <2>2, <2>3, <2>4
  <2> QED BY <1>0, <2>1, <2>5 DEF Importing
<1>7. /\ \/ /\ answers' = [answers EXCEPT ![i] = @ \cup {<<n, q>>}]
            /\ notes' = notes /\ Bridge!IsAnswer(comments[i][n], q)
         \/ notes' = [notes EXCEPT ![i] = @ \cup {n}] /\ answers' = answers
      /\ task' = [task EXCEPT ![i] = Bridge!Resumed(@, comments[i][n], q)]
  BY <1>0, <1>1 DEF Bridge!Store, Bridge!Now
<1>8. ASSUME NEW j \in Issues
      PROVE  /\ \/ answers'[j] = answers[j]
                \/ /\ j = i /\ answers'[j] = answers[j] \cup {<<n, q>>}
                   /\ Bridge!IsAnswer(comments[i][n], q)
             /\ notes'[j] = notes[j] \/ (j = i /\ notes'[j] = notes[j] \cup {n})
             /\ j = i => n \in notes'[j] \/ <<n, q>> \in answers'[j]
             /\ task'[j] \in {task[j], "ready"} /\ (task[j] # "none" => task'[j] # "none")
  <2>1. j \in DOMAIN answers /\ j \in DOMAIN notes /\ j \in DOMAIN task
    BY DEF BridgeInv, BridgeTyped
  <2>2. task'[j] \in {task[j], "ready"} /\ (task[j] # "none" => task'[j] # "none")
    <3>1. task'[j] = IF j = i THEN Bridge!Resumed(task[j], comments[i][n], q) ELSE task[j]
      BY <1>7, <2>1
    <3> QED BY <3>1 DEF Bridge!Resumed
  <2>3. CASE notes' = [notes EXCEPT ![i] = @ \cup {n}] /\ answers' = answers
    BY <2>1, <2>2, <2>3
  <2>4. CASE /\ answers' = [answers EXCEPT ![i] = @ \cup {<<n, q>>}]
             /\ notes' = notes /\ Bridge!IsAnswer(comments[i][n], q)
    BY <2>1, <2>2, <2>4
  <2> QED BY <1>7, <2>3, <2>4
<1>9. BridgeTyped'
  <2>1. /\ DOMAIN answers' = Issues /\ answers' = [j \in Issues |-> answers'[j]]
        /\ DOMAIN notes' = Issues /\ notes' = [j \in Issues |-> notes'[j]]
        /\ DOMAIN task' = Issues /\ task' = [j \in Issues |-> task'[j]]
    BY <1>7 DEF BridgeInv, BridgeTyped
  <2>2. ASSUME NEW j \in Issues
        PROVE  answers'[j] \in SUBSET (Nat \X Nat) /\ notes'[j] \in SUBSET Nat /\ task'[j] \in TaskAt
    <3>1. answers[j] \in SUBSET (Nat \X Nat) /\ notes[j] \in SUBSET Nat /\ task[j] \in TaskAt
      BY DEF BridgeInv, BridgeTyped
    <3>2. answers'[j] \in SUBSET (Nat \X Nat)
      BY <1>6, <1>8, <3>1
    <3>3. notes'[j] \in SUBSET Nat
      BY <1>6, <1>8, <3>1
    <3>4. task'[j] \in TaskAt
      BY <1>8, <3>1 DEF TaskAt
    <3> QED BY <3>2, <3>3, <3>4
  <2>3. /\ answers' \in [Issues -> SUBSET (Nat \X Nat)] /\ notes' \in [Issues -> SUBSET Nat]
        /\ task' \in [Issues -> TaskAt]
    BY <2>1, <2>2
  <2> QED BY <1>5, <2>3 DEF BridgeInv, BridgeTyped
<1>10. Grown
  <2> SUFFICES ASSUME NEW j \in Issues
               PROVE  /\ Len(comments[j]) <= Len(comments[j]) /\ questions[j] <= questions[j]
                      /\ answers[j] \subseteq answers'[j] /\ notes[j] \subseteq notes'[j]
                      /\ task[j] # "none" => task'[j] # "none"
    BY <1>5 DEF Grown
  <2>1. Len(comments[j]) <= Len(comments[j]) /\ questions[j] <= questions[j]
    BY DEF BridgeInv, BridgeTyped
  <2> QED BY <1>8, <2>1
<1>11. Fit(c)'
  <2>1. Fit(d)'
    BY <1>1, <1>9, <1>10, StaysFit DEF BridgeInv
  <2>2. i \in Issues => Bridge!Stored(i, n)'
    BY <1>6, <1>8 DEF Bridge!Stored
  <2>3. /\ c = [at |-> "mark", list |-> d.list, status |-> d.status, question |-> d.question,
                todo |-> d.todo, worked |-> d.worked, target |-> d.target]
    BY <1>1, <1>3 DEF Fit
  <2>4. i \in Issues => Importing(d, i)'
    BY <1>0, <1>2, <2>1 DEF Fit
  <2>5. i \in Issues => Importing(c, i)'
    BY <1>0, <1>2, <2>2, <2>3, <2>4 DEF Importing
  <2> QED BY <1>0, <2>3, <2>5 DEF Fit, Bridge!Stages
<1>12. ASSUME NEW j \in Issues PROVE Recorded(j)'
  <2>1. Recorded(j)
    BY DEF BridgeInv
  <2>2. ASSUME NEW a \in answers'[j]
        PROVE  /\ a[1] \in 1..Len(comments[j]) /\ a[2] <= questions[j]
               /\ Bridge!IsAnswer(comments[j][a[1]], a[2])
    <3>1. CASE a \in answers[j]
      BY <2>1, <3>1 DEF Recorded
    <3>2. CASE a \notin answers[j]
      <4>1. j = i /\ a = <<n, q>> /\ Bridge!IsAnswer(comments[i][n], q)
          BY <1>8, <3>2
      <4> QED BY <1>6, <4>1
    <3> QED BY <3>1, <3>2
  <2>3. notes'[j] \subseteq 1..Len(comments[j])
    BY <1>6, <1>8, <2>1 DEF Recorded
  <2>4. \A m \in imported[j] : Bridge!Stored(j, m)'
    BY <1>10, <2>1 DEF Recorded, Bridge!Stored, Grown
  <2> QED BY <1>5, <2>1, <2>2, <2>3, <2>4 DEF Recorded, Bridge!IsAnswer
<1> QED BY <1>4, <1>9, <1>10, <1>11, <1>12, BridgeMoves

LEMMA MarkStep ==
    ASSUME BridgeInv, NEW w \in Workers, Bridge!MarkImported(w)
    PROVE  BridgeInv'
<1>1. PICK d : d = cycle[w] /\ Fit(d)
  BY Turning
<1>2. PICK i, n : i = Bridge!First(d.list).of /\ n = Bridge!Least(d.todo)
  OBVIOUS
<1>3. PICK c : c = [d EXCEPT !.at = "comments", !.todo = @ \ {n}]
  OBVIOUS
<1>4. /\ d.at = "mark" /\ cycle' = [cycle EXCEPT ![w] = c]
      /\ imported' = [imported EXCEPT ![i] = @ \cup {n}]
      /\ UNCHANGED <<issue, comments, task, questions, answers, notes, posted, exported, faults>>
  BY <1>1, <1>2, <1>3 DEF Bridge!MarkImported, Bridge!Now
<1>5. i \in Issues => Importing(d, i) /\ n \in 1..Len(comments[i]) /\ n \in Nat /\ Bridge!Stored(i, n)
  <2> SUFFICES ASSUME i \in Issues
               PROVE  Importing(d, i) /\ n \in 1..Len(comments[i]) /\ n \in Nat /\ Bridge!Stored(i, n)
    OBVIOUS
  <2>1. Importing(d, i)
    BY <1>1, <1>2, <1>4 DEF Fit
  <2>2. d.todo \subseteq 1..Len(comments[i]) /\ Len(comments[i]) \in Nat /\ d.todo # {}
    BY <1>4, <2>1 DEF Importing, BridgeInv, BridgeTyped
  <2>3. n \in d.todo
    BY <1>2, <2>2, LeastIsOne
  <2> QED BY <1>2, <1>4, <2>1, <2>2, <2>3 DEF Importing
<1>6. ASSUME NEW j \in Issues
      PROVE  imported'[j] = imported[j] \/ (j = i /\ imported'[j] = imported[j] \cup {n})
  BY <1>4 DEF BridgeInv, BridgeTyped
<1>7. BridgeTyped'
  <2>1. imported' \in [Issues -> SUBSET Nat]
    BY <1>4, <1>5 DEF BridgeInv, BridgeTyped
  <2> QED BY <1>4, <2>1 DEF BridgeInv, BridgeTyped
<1>8. Grown
  BY <1>4 DEF Grown, BridgeInv, BridgeTyped
<1>9. Fit(c)'
  <2>1. /\ c = [at |-> "comments", list |-> d.list, status |-> d.status, question |-> d.question,
                todo |-> d.todo \ {n}, worked |-> d.worked, target |-> d.target]
    BY <1>1, <1>3 DEF Fit
  <2>2. i \in Issues => Importing(c, i)'
    BY <1>4, <1>5, <2>1 DEF Importing
  <2> QED BY <1>2, <2>1, <2>2 DEF Fit, Bridge!Stages
<1>10. ASSUME NEW j \in Issues PROVE Recorded(j)'
  <2>1. Recorded(j)
    BY DEF BridgeInv
  <2>2. imported'[j] \subseteq 1..Len(comments[j])
    BY <1>5, <1>6, <2>1 DEF Recorded
  <2>3. \A m \in imported'[j] : Bridge!Stored(j, m)'
    BY <1>4, <1>5, <1>6, <2>1 DEF Recorded, Bridge!Stored
  <2> QED BY <1>4, <2>1, <2>2, <2>3 DEF Recorded
<1> QED BY <1>4, <1>7, <1>8, <1>9, <1>10, BridgeMoves

LEMMA ProcessStep ==
    ASSUME BridgeConstants, BridgeInv, NEW w \in Workers, Bridge!Process(w)
    PROVE  BridgeInv'
<1>1. PICK d : d = cycle[w] /\ Fit(d)
  BY Turning
<1>2. PICK i : i = d.worked
  OBVIOUS
<1>3. PICK c : c = [d EXCEPT !.at = "look"]
  OBVIOUS
<1>4. /\ d.at = "work" /\ cycle' = [cycle EXCEPT ![w] = c]
      /\ UNCHANGED <<issue, comments, answers, notes, imported, posted, exported, faults>>
      /\ \/ task' = [task EXCEPT ![i] = "awaiting_human"] /\ questions[i] < MaxQuestions
            /\ questions' = [questions EXCEPT ![i] = @ + 1]
         \/ task' = [task EXCEPT ![i] = "review"] /\ questions' = questions
  BY <1>1, <1>2, <1>3 DEF Bridge!Process, Bridge!Go
<1>5. i \in Issues /\ Mirroring(d, i)
  BY <1>1, <1>2, <1>4 DEF Fit, Mirroring
<1>6. task' \in [Issues -> TaskAt] /\ \A j \in Issues : task[j] # "none" => task'[j] # "none"
  BY <1>4 DEF BridgeInv, BridgeTyped, TaskAt
<1>7. ASSUME NEW j \in Issues
      PROVE  questions'[j] \in Nat /\ questions[j] <= questions'[j] /\ questions'[j] <= MaxQuestions
  BY <1>4 DEF BridgeInv, BridgeTyped, Recorded, BridgeConstants
<1>8. questions' \in [Issues -> Nat]
  <2>1. questions' = [j \in Issues |-> questions'[j]]
    BY <1>4 DEF BridgeInv, BridgeTyped
  <2> QED BY <1>7, <2>1
<1>9. BridgeTyped'
  BY <1>4, <1>6, <1>8 DEF BridgeInv, BridgeTyped
<1>10. Grown
  BY <1>4, <1>6, <1>7 DEF Grown, BridgeInv, BridgeTyped
<1>11. Fit(c)'
  <2>1. Fit(d)'
    BY <1>1, <1>9, <1>10, StaysFit DEF BridgeInv
  <2> QED BY <1>3, <1>4, <2>1 DEF Fit, Mirroring, Bridge!Stages
<1>12. ASSUME NEW j \in Issues PROVE Recorded(j)'
  <2>1. Recorded(j) /\ questions[j] \in Nat
    BY DEF BridgeInv, BridgeTyped
  <2>2. \A a \in answers[j] : a[2] <= questions'[j]
    <3> SUFFICES ASSUME NEW a \in answers[j] PROVE a[2] <= questions'[j]
      OBVIOUS
    <3>1. a[2] \in Nat /\ a[2] <= questions[j]
      BY <2>1 DEF Recorded, BridgeInv, BridgeTyped
    <3> QED BY <1>7, <2>1, <3>1
  <2>3. posted[j] \subseteq 1..questions'[j]
    BY <1>7, <2>1 DEF Recorded
  <2> QED BY <1>4, <1>7, <2>1, <2>2, <2>3 DEF Recorded, Bridge!Stored, Bridge!IsAnswer
<1> QED BY <1>4, <1>9, <1>10, <1>11, <1>12, BridgeMoves

LEMMA ExportStep ==
    ASSUME BridgeInv, NEW w \in Workers, Bridge!Export(w)
    PROVE  BridgeInv'
<1>1. PICK d : d = cycle[w] /\ Fit(d)
  BY Turning
<1>2. PICK i : i = d.worked
  OBVIOUS
<1>3. PICK left : left = d.todo \ exported[i]
  OBVIOUS
<1>4. /\ d.at = "export"
      /\ UNCHANGED <<issue, comments, task, questions, answers, notes, imported, exported, faults>>
  BY <1>1 DEF Bridge!Export
<1>5. Mirroring(d, i) /\ i \in Issues /\ d.todo \subseteq 1..questions[i] /\ questions[i] \in Nat
  BY <1>1, <1>2, <1>4 DEF Fit, Mirroring, BridgeInv, BridgeTyped
<1>6. CASE left = {}
  <2>1. PICK c : c = [d EXCEPT !.at = "sync"]
    OBVIOUS
  <2>2. cycle' = [cycle EXCEPT ![w] = c] /\ posted' = posted
    BY <1>1, <1>2, <1>3, <1>6, <2>1 DEF Bridge!Export, Bridge!Go
  <2>3. Fit(c)'
    BY <1>1, <1>2, <1>4, <1>5, <2>1 DEF Fit, Mirroring, Bridge!Stages
  <2>4. issue' \in [Issues -> IssueAt] /\ task' \in [Issues -> TaskAt] /\ faults' \in 0..MaxFaults
    BY <1>4 DEF BridgeInv, BridgeTyped
  <2> QED BY <1>4, <2>2, <2>3, <2>4, QuietStep
<1>7. CASE left # {}
  <2>1. PICK n : n = Bridge!Least(left)
    OBVIOUS
  <2>2. left \subseteq 1..questions[i] /\ left \in SUBSET Nat
    BY <1>3, <1>5
  <2>3. n \in left /\ n \in 1..questions[i] /\ n \in Nat
    BY <1>7, <2>1, <2>2, LeastIsOne
  <2>4. PICK c : c = [d EXCEPT !.at = "record_export", !.todo = left]
    OBVIOUS
  <2>5. cycle' = [cycle EXCEPT ![w] = c] /\ posted' = [posted EXCEPT ![i] = @ \cup {n}]
    BY <1>1, <1>2, <1>3, <1>7, <2>1, <2>4 DEF Bridge!Export
  <2>6. /\ posted' \in [Issues -> SUBSET Nat] /\ n \in posted'[i]
        /\ \A j \in Issues : posted[j] \subseteq posted'[j]
        /\ \A j \in Issues : posted'[j] \subseteq posted[j] \/ (j = i /\ posted'[j] \subseteq posted[j] \cup {n})
    BY <1>5, <2>3, <2>5 DEF BridgeInv, BridgeTyped
  <2>7. BridgeTyped'
    BY <1>4, <2>6 DEF BridgeInv, BridgeTyped
  <2>8. Grown
    BY <1>4, <2>6 DEF Grown, BridgeInv, BridgeTyped
  <2>9. Fit(c)'
    <3>1. c = [at |-> "record_export", list |-> d.list, status |-> d.status, question |-> d.question,
               todo |-> left, worked |-> d.worked, target |-> d.target]
      BY <1>1, <2>4 DEF Fit
    <3>2. Mirroring(c, i)'
      BY <1>4, <1>5, <1>7, <2>1, <2>2, <2>6, <3>1 DEF Mirroring
    <3> QED BY <1>2, <3>1, <3>2 DEF Fit, Bridge!Stages
  <2>10. ASSUME NEW j \in Issues PROVE Recorded(j)'
    <3>1. Recorded(j)
      BY DEF BridgeInv
    <3>2. posted'[j] \subseteq 1..questions[j] /\ exported[j] \subseteq posted'[j]
      BY <2>3, <2>6, <3>1 DEF Recorded
    <3> QED BY <1>4, <3>1, <3>2 DEF Recorded, Bridge!Stored
  <2> QED BY <2>5, <2>7, <2>8, <2>9, <2>10, BridgeMoves
<1> QED BY <1>6, <1>7

LEMMA RecordExportStep ==
    ASSUME BridgeInv, NEW w \in Workers, Bridge!RecordExport(w)
    PROVE  BridgeInv'
<1>1. PICK d : d = cycle[w] /\ Fit(d)
  BY Turning
<1>2. PICK i, n : i = d.worked /\ n = Bridge!Least(d.todo)
  OBVIOUS
<1>3. PICK c : c = [d EXCEPT !.at = "export"]
  OBVIOUS
<1>4. /\ d.at = "record_export" /\ cycle' = [cycle EXCEPT ![w] = c]
      /\ exported' = [exported EXCEPT ![i] = @ \cup {n}]
      /\ UNCHANGED <<issue, comments, task, questions, answers, notes, imported, posted, faults>>
  BY <1>1, <1>2, <1>3 DEF Bridge!RecordExport, Bridge!Go
<1>5. Mirroring(d, i) /\ i \in Issues /\ n \in posted[i] /\ n \in Nat
  BY <1>1, <1>2, <1>4 DEF Fit, Mirroring, BridgeInv, BridgeTyped
<1>6. /\ exported' \in [Issues -> SUBSET Nat]
      /\ \A j \in Issues : exported'[j] \subseteq exported[j] \/ (j = i /\ exported'[j] \subseteq exported[j] \cup {n})
  BY <1>4, <1>5 DEF BridgeInv, BridgeTyped
<1>7. BridgeTyped'
  BY <1>4, <1>6 DEF BridgeInv, BridgeTyped
<1>8. Grown
  BY <1>4 DEF Grown, BridgeInv, BridgeTyped
<1>9. Fit(c)'
  BY <1>1, <1>2, <1>3, <1>4, <1>5 DEF Fit, Mirroring, Bridge!Stages
<1>10. ASSUME NEW j \in Issues PROVE Recorded(j)'
  <2>1. Recorded(j)
    BY DEF BridgeInv
  <2>2. exported'[j] \subseteq posted[j]
    BY <1>5, <1>6, <2>1 DEF Recorded
  <2> QED BY <1>4, <2>1, <2>2 DEF Recorded, Bridge!Stored
<1> QED BY <1>4, <1>7, <1>8, <1>9, <1>10, BridgeMoves

\* What was said stays as it was said.
LEMMA CommentsGrow ==
    ASSUME BridgeConstants, BridgeInv, NEW i \in Issues,
           Bridge!File(i) \/ Bridge!Comment(i) \/ Bridge!Resolve(i)
    PROVE  /\ comments' \in [Issues -> Seq([kind : Kinds, asked : Nat])]
           /\ \A j \in Issues :
                 /\ Len(comments'[j]) <= MaxComments /\ Len(comments[j]) <= Len(comments'[j])
                 /\ \A c \in 1..Len(comments[j]) : comments'[j][c] = comments[j][c]
<1>1. /\ comments \in [Issues -> Seq([kind : Kinds, asked : Nat])]
      /\ \A j \in Issues :
            /\ comments[j] \in Seq([kind : Kinds, asked : Nat])
            /\ Len(comments[j]) \in Nat /\ Len(comments[j]) <= MaxComments
  <2>1. comments \in [Issues -> Seq([kind : Kinds, asked : Nat])]
    BY DEF BridgeInv, BridgeTyped
  <2>2. ASSUME NEW j \in Issues
        PROVE  /\ comments[j] \in Seq([kind : Kinds, asked : Nat])
               /\ Len(comments[j]) \in Nat /\ Len(comments[j]) <= MaxComments
    <3>1. comments[j] \in Seq([kind : Kinds, asked : Nat])
      BY <2>1
    <3>2. Len(comments[j]) <= MaxComments
      BY DEF BridgeInv, Recorded
    <3> QED BY <3>1, <3>2
  <2> QED BY <2>1, <2>2
<1>2. CASE comments' = comments
  <2>1. \A j \in Issues : Len(comments[j]) <= Len(comments[j])
    BY <1>1
  <2> QED BY <1>1, <1>2, <2>1
<1>3. ASSUME NEW kind \in Kinds, Len(comments[i]) < MaxComments,
             comments' = [comments EXCEPT ![i] = Append(@, [kind |-> kind, asked |-> questions[i]])]
      PROVE  /\ comments' \in [Issues -> Seq([kind : Kinds, asked : Nat])]
             /\ \A j \in Issues :
                   /\ Len(comments'[j]) <= MaxComments /\ Len(comments[j]) <= Len(comments'[j])
                   /\ \A c \in 1..Len(comments[j]) : comments'[j][c] = comments[j][c]
  <2>1. PICK new \in [kind : Kinds, asked : Nat] : new = [kind |-> kind, asked |-> questions[i]]
    BY DEF BridgeInv, BridgeTyped
  <2>2. PICK old \in Seq([kind : Kinds, asked : Nat]) : old = comments[i]
    BY <1>1
  <2>3. /\ Append(old, new) \in Seq([kind : Kinds, asked : Nat])
        /\ Len(Append(old, new)) = Len(old) + 1
        /\ \A c \in 1..Len(old) : Append(old, new)[c] = old[c]
    OBVIOUS
  <2>4. comments'[i] = Append(old, new) /\ \A j \in Issues \ {i} : comments'[j] = comments[j]
    BY <1>1, <1>3, <2>1, <2>2
  <2>5. comments' = [j \in Issues |-> comments'[j]]
    BY <1>1, <1>3
  <2>6. ASSUME NEW j \in Issues
        PROVE  /\ comments'[j] \in Seq([kind : Kinds, asked : Nat])
               /\ Len(comments'[j]) <= MaxComments /\ Len(comments[j]) <= Len(comments'[j])
               /\ \A c \in 1..Len(comments[j]) : comments'[j][c] = comments[j][c]
    <3>1. CASE j = i
      BY <1>1, <1>3, <2>2, <2>3, <2>4, <3>1 DEF BridgeConstants
    <3>2. CASE j # i
      <4>1. comments'[j] = comments[j]
        BY <2>4, <3>2
      <4>2. Len(comments[j]) <= Len(comments[j])
        BY <1>1
      <4> QED BY <1>1, <4>1, <4>2
    <3> QED BY <3>1, <3>2
  <2> QED BY <2>5, <2>6
<1> QED BY <1>2, <1>3 DEF Bridge!File, Bridge!Comment, Bridge!Resolve

LEMMA PeopleStep ==
    ASSUME BridgeConstants, BridgeInv, NEW i \in Issues,
           Bridge!File(i) \/ Bridge!Comment(i) \/ Bridge!Resolve(i)
    PROVE  BridgeInv'
<1>1. UNCHANGED <<task, questions, answers, notes, imported, posted, exported, cycle, faults>>
  BY DEF Bridge!File, Bridge!Comment, Bridge!Resolve
<1>2. issue' \in [Issues -> IssueAt]
  BY DEF Bridge!File, Bridge!Comment, Bridge!Resolve, BridgeInv, BridgeTyped, IssueAt
<1>3. /\ comments' \in [Issues -> Seq([kind : Kinds, asked : Nat])]
      /\ \A j \in Issues :
            /\ Len(comments'[j]) <= MaxComments /\ Len(comments[j]) <= Len(comments'[j])
            /\ \A c \in 1..Len(comments[j]) : comments'[j][c] = comments[j][c]
  BY CommentsGrow
<1>4. BridgeTyped'
  BY <1>1, <1>2, <1>3 DEF BridgeInv, BridgeTyped
<1>5. Grown
  BY <1>1, <1>3 DEF Grown, BridgeInv, BridgeTyped
<1>6. ASSUME NEW j \in Issues PROVE Recorded(j)'
  <2>1. Recorded(j) /\ Len(comments[j]) \in Nat /\ Len(comments'[j]) \in Nat
    BY <1>4 DEF BridgeInv, BridgeTyped
  <2>2. 1..Len(comments[j]) \subseteq 1..Len(comments'[j])
    BY <1>3, <2>1
  <2>3. ASSUME NEW a \in answers[j]
        PROVE  a[1] \in 1..Len(comments'[j]) /\ Bridge!IsAnswer(comments'[j][a[1]], a[2])
    <3>1. a[1] \in 1..Len(comments[j]) /\ Bridge!IsAnswer(comments[j][a[1]], a[2])
      BY <2>1 DEF Recorded
    <3>2. comments'[j][a[1]] = comments[j][a[1]]
      BY <1>3, <3>1
    <3> QED BY <2>2, <3>1, <3>2
  <2> QED BY <1>1, <1>3, <2>1, <2>2, <2>3 DEF Recorded, Bridge!Stored, Bridge!IsAnswer
<1>7. ASSUME NEW v \in Workers PROVE Fit(cycle[v])'
  <2>1. PICK d : d = cycle[v] /\ Fit(d)
    BY Turning
  <2>2. cycle'[v] = d
    BY <1>1, <2>1
  <2>3. Fit(d)'
    BY <1>4, <1>5, <2>1, StaysFit DEF BridgeInv
  <2> QED BY <2>2, <2>3 DEF Fit, Importing, Mirroring
<1> QED BY <1>1, <1>4, <1>6, <1>7 DEF BridgeInv

LEMMA BridgeNext ==
    ASSUME BridgeConstants, BridgeInv, [Bridge!Next]_(Bridge!vars)
    PROVE  BridgeInv'
<1>1. CASE UNCHANGED Bridge!vars
  <2>1. UNCHANGED <<issue, comments, task, questions, answers, notes, imported, posted, exported,
                    cycle, faults>>
    BY <1>1 DEF Bridge!vars
  <2>2. BridgeTyped'
    BY <2>1 DEF BridgeInv, BridgeTyped
  <2>3. \A i \in Issues : Recorded(i)'
    BY <2>1 DEF BridgeInv, Recorded, Bridge!Stored
  <2>4. Grown
    BY <2>1 DEF Grown, BridgeInv, BridgeTyped
  <2>5. ASSUME NEW v \in Workers PROVE Fit(cycle[v])'
    <3>1. PICK d : d = cycle[v] /\ Fit(d)
      BY Turning
    <3>2. cycle'[v] = d
      BY <2>1, <3>1
    <3>3. Fit(d)'
      BY <2>2, <2>4, <3>1, StaysFit DEF BridgeInv
    <3> QED BY <3>2, <3>3 DEF Fit, Importing, Mirroring
  <2> QED BY <2>1, <2>2, <2>3, <2>5 DEF BridgeInv
<1>2. ASSUME NEW w \in Workers, Bridge!Step(w) PROVE BridgeInv'
  BY <1>2, FetchStep, FindStep, CreateStep, AcceptStep, ListStep, StoreStep, MarkStep, CommentsDoneStep,
     TakeStep, ProcessStep, LookStep, ExportStep, RecordExportStep, SyncStep, EndStep
  DEF Bridge!Step
<1>3. ASSUME NEW w \in Workers, Bridge!Break(w) PROVE BridgeInv'
  BY <1>3, EndStep
<1>4. ASSUME NEW i \in Issues, Bridge!File(i) \/ Bridge!Comment(i) \/ Bridge!Resolve(i) PROVE BridgeInv'
  BY <1>4, PeopleStep
<1> QED BY <1>1, <1>2, <1>3, <1>4 DEF Bridge!Next

\* The bridge keeps its invariant, for any workers, issues, people and failures.
THEOREM BridgeInvariant ==
    ASSUME BridgeConstants
    PROVE  Bridge!Spec => []BridgeInv
<1>1. Bridge!Init => BridgeInv
  BY BridgeInit
<1>2. BridgeInv /\ [Bridge!Next]_(Bridge!vars) => BridgeInv'
  BY BridgeNext
<1> QED BY <1>1, <1>2, PTL DEF Bridge!Spec

\* A comment that is marked as imported is with the task, and a question that is marked as
\* exported was posted, whatever failed in between: what was done may be done again, but
\* nothing is left out (recordImportedComment, recordExportedDigest).
THEOREM RecordsHold ==
    ASSUME BridgeConstants
    PROVE  Bridge!Spec => [](Bridge!NothingLeftOut)
<1>1. BridgeInv => Bridge!NothingLeftOut
  BY DEF BridgeInv, Recorded, Bridge!NothingLeftOut
<1> QED BY <1>1, BridgeInvariant, PTL

\* One worker alone repeats an import before it asks again: each cycle begins with the
\* import of every issue, and an error ends the cycle.
AloneConstants == BridgeConstants /\ Issues \subseteq Nat /\ \A v, w \in Workers : v = w

\* A comment that is stored and not marked will be imported again.
Half(i, n) == Bridge!Stored(i, n) /\ n \notin imported[i]
IsOf(list, i) == \E s \in list : s.of = i

\* Of one issue: stored comments have one meaning; importing what is half imported again
\* gives the same one; what is stored belongs to a task, and comments to an issue; and a
\* task on its way has an answer to what it asked last.
GoesOn == {"ready", "analyzing", "review", "human_testing"}
Meant(i) ==
    /\ \A a \in answers[i] : a[1] \notin notes[i]
    /\ \A a, b \in answers[i] : a[1] = b[1] => a[2] = b[2]
    /\ \A n \in notes[i] : n \notin imported[i] => ~Bridge!IsAnswer(comments[i][n], questions[i])
    /\ \A a \in answers[i] : a[1] \notin imported[i] => a[2] = questions[i]
    /\ task[i] = "none" => notes[i] = {} /\ answers[i] = {} /\ questions[i] = 0
    /\ Len(comments[i]) > 0 => issue[i] # "absent"
    /\ questions[i] > 0 /\ task[i] \in GoesOn => \E a \in answers[i] : a[2] = questions[i]

\* What is half imported is still ahead of the worker: an issue of its list, or a comment
\* it has yet to mark; and it knows the latest question.
Upcoming(c) ==
    /\ \A s \in c.list : s.of \in Issues
    /\ c.at \in {"next", "create", "accept", "list", "comments", "mark"} =>
          \A i \in Issues : ~IsOf(c.list, i) => \A n \in Nat : ~Half(i, n)
    /\ c.at \in {"create", "accept", "list", "comments", "mark"} =>
          c.list # {} /\ c.question = questions[Bridge!First(c.list).of]
    /\ c.at \in {"accept", "list", "comments", "mark"} => task[Bridge!First(c.list).of] # "none"
    /\ c.at \in {"comments", "mark"} =>
          /\ \A n \in Nat : Half(Bridge!First(c.list).of, n) => n \in c.todo
          /\ \A n \in c.todo : n \notin imported[Bridge!First(c.list).of]
    /\ c.at = "work" => task[c.worked] = "analyzing" /\ \A n \in Nat : ~Half(c.worked, n)

AloneInv ==
    /\ BridgeInv
    /\ \A i \in Issues : Meant(i)
    /\ \A w \in Workers : Upcoming(cycle[w])

\* The first of a list is one of it.
LEMMA FirstIsListed ==
    ASSUME NEW list, list # {}, \A s \in list : s.of \in Nat
    PROVE  Bridge!First(list) \in list
<1> DEFINE S == {s.of : s \in list}
<1>1. S \in SUBSET Nat /\ S # {}
  OBVIOUS
<1> HIDE DEF S
<1>2. Bridge!Least(S) \in S /\ \A k \in S : Bridge!Least(S) <= k
  BY <1>1, LeastIsOne
<1>3. PICK s \in list : s.of = Bridge!Least(S)
  BY <1>2 DEF S
<1>4. \A t \in list : s.of <= t.of
  BY <1>2, <1>3 DEF S
<1> QED BY <1>3, <1>4 DEF Bridge!First

LEMMA AloneInit == ASSUME AloneConstants, Bridge!Init PROVE AloneInv
<1>1. BridgeInv
  BY BridgeInit DEF AloneConstants
<1>2. ASSUME NEW i \in Issues PROVE Meant(i)
  BY DEF Bridge!Init, Meant, GoesOn
<1>3. ASSUME NEW w \in Workers PROVE Upcoming(cycle[w])
  BY DEF Bridge!Init, Bridge!Idle, Upcoming
<1> QED BY <1>1, <1>2, <1>3 DEF AloneInv

LEMMA AloneMoves ==
    ASSUME AloneConstants, AloneInv, BridgeInv', NEW w \in Workers, NEW c,
           cycle' = [cycle EXCEPT ![w] = c], \A i \in Issues : Meant(i)', Upcoming(c)'
    PROVE  AloneInv'
<1>1. ASSUME NEW v \in Workers PROVE Upcoming(cycle[v])'
  <2>1. cycle'[v] = c
    BY DEF AloneConstants, AloneInv, BridgeInv
  <2> QED BY <2>1 DEF Upcoming
<1> QED BY <1>1 DEF AloneInv

\* Steps that store and mark nothing.
LEMMA AloneQuiet ==
    ASSUME AloneConstants, AloneInv, BridgeInv', NEW w \in Workers, NEW c,
           cycle' = [cycle EXCEPT ![w] = c],
           UNCHANGED <<comments, questions, answers, notes, imported>>,
           \A i \in Issues : issue[i] # "absent" => issue'[i] # "absent",
           \A i \in Issues : task[i] # "none" => task'[i] # "none",
           \A i \in Issues : task'[i] \in GoesOn => task[i] \in GoesOn \/ questions[i] = 0,
           Upcoming(c)'
    PROVE  AloneInv'
<1>1. ASSUME NEW i \in Issues PROVE Meant(i)'
  <2>1. Meant(i)
    BY DEF AloneInv
  <2>2. questions[i] \in Nat
    BY DEF AloneInv, BridgeInv, BridgeTyped
  <2> QED BY <2>1, <2>2 DEF Meant, Bridge!IsAnswer
<1> QED BY <1>1, AloneMoves

\* Where the worker is, and what it has ahead.
LEMMA AloneTurn ==
    ASSUME AloneConstants, AloneInv, NEW w \in Workers
    PROVE  /\ Fit(cycle[w]) /\ Upcoming(cycle[w])
           /\ cycle[w].list # {} => /\ Bridge!First(cycle[w].list) \in cycle[w].list
                                    /\ Bridge!First(cycle[w].list).of \in Issues
<1>1. Fit(cycle[w]) /\ Upcoming(cycle[w])
  BY DEF AloneInv, BridgeInv
<1>2. \A s \in cycle[w].list : s.of \in Nat /\ s.of \in Issues
  BY <1>1 DEF Upcoming, AloneConstants
<1> QED BY <1>1, <1>2, FirstIsListed

LEMMA AloneEnds ==
    ASSUME AloneConstants, AloneInv, BridgeInv', NEW w \in Workers,
           cycle' = [cycle EXCEPT ![w] = Bridge!Idle],
           UNCHANGED <<comments, questions, answers, notes, imported, task>>,
           \A i \in Issues : issue[i] # "absent" => issue'[i] # "absent"
    PROVE  AloneInv'
<1>1. Upcoming(Bridge!Idle)'
  BY DEF Upcoming, Bridge!Idle
<1> QED BY <1>1, AloneQuiet

\* A cycle begins with every issue that has comments.
LEMMA AloneFetches ==
    ASSUME AloneConstants, AloneInv, BridgeInv', NEW w \in Workers, Bridge!Fetch(w)
    PROVE  AloneInv'
<1>1. PICK l : l = {[of |-> i, status |-> issue[i]] : i \in {j \in Issues : issue[j] # "absent"}}
  OBVIOUS
<1>2. PICK c : c = [Bridge!Idle EXCEPT !.at = "next", !.list = l]
  OBVIOUS
<1>3. cycle' = [cycle EXCEPT ![w] = c]
  BY <1>1, <1>2 DEF Bridge!Fetch
<1>4. UNCHANGED <<issue, comments, questions, answers, notes, imported, task>>
  BY DEF Bridge!Fetch
<1>5. c.at = "next" /\ c.list = l
  BY <1>2 DEF Bridge!Idle
<1>6. \A s \in l : s.of \in Issues
  BY <1>1
<1>7. ASSUME NEW i \in Issues, ~IsOf(l, i), NEW n \in Nat PROVE ~Half(i, n)
  <2>1. issue[i] = "absent"
    <3>1. SUFFICES ASSUME issue[i] # "absent" PROVE FALSE
      OBVIOUS
    <3>2. [of |-> i, status |-> issue[i]] \in l
      BY <1>1, <3>1
    <3> QED BY <1>7, <3>2 DEF IsOf
  <2>2. Len(comments[i]) = 0
    <3>1. Len(comments[i]) \in Nat /\ ~(Len(comments[i]) > 0)
      BY <2>1 DEF AloneInv, Meant, BridgeInv, BridgeTyped
    <3> QED BY <3>1
  <2>3. notes[i] = {} /\ answers[i] = {}
    BY <2>2 DEF AloneInv, BridgeInv, Recorded
  <2> QED BY <2>3 DEF Half, Bridge!Stored
<1>8. Upcoming(c)'
  BY <1>4, <1>5, <1>6, <1>7 DEF Upcoming, Half, Bridge!Stored
<1> QED BY <1>3, <1>4, <1>8, AloneQuiet

LEMMA AloneFinds ==
    ASSUME AloneConstants, AloneInv, BridgeInv', NEW w \in Workers, Bridge!Find(w)
    PROVE  AloneInv'
<1>1. PICK d, i : d = cycle[w] /\ i = Bridge!First(d.list).of
  OBVIOUS
<1>2. d.at = "next" /\ d.list # {}
  BY <1>1 DEF Bridge!Find
<1>3. Fit(d) /\ Upcoming(d) /\ Bridge!First(d.list) \in d.list /\ i \in Issues
  BY <1>1, <1>2, AloneTurn
<1>4. UNCHANGED <<issue, comments, questions, answers, notes, imported, task>>
  BY DEF Bridge!Find
<1>5. CASE task[i] = "none" /\ Bridge!Now(w).status # "open"
  <2>1. PICK c : c = [d EXCEPT !.at = "next", !.list = @ \ {Bridge!First(@)}]
    OBVIOUS
  <2>2. cycle' = [cycle EXCEPT ![w] = c]
    BY <1>1, <1>5, <2>1 DEF Bridge!Find, Bridge!NextIssue, Bridge!Now
  <2>3. c.at = "next" /\ c.list = d.list \ {Bridge!First(d.list)}
    BY <1>3, <2>1 DEF Fit
  <2>4. ASSUME NEW j \in Issues, ~IsOf(c.list, j), NEW n \in Nat PROVE ~Half(j, n)
    <3>1. CASE j = i
      BY <1>3, <1>5, <3>1 DEF AloneInv, Meant, Half, Bridge!Stored
    <3>2. CASE j # i
      <4>1. ~IsOf(d.list, j)
        BY <1>1, <2>3, <2>4, <3>2 DEF IsOf
      <4> QED BY <1>2, <1>3, <4>1 DEF Upcoming
    <3> QED BY <3>1, <3>2
  <2>5. Upcoming(c)'
    BY <1>3, <1>4, <2>3, <2>4 DEF Upcoming, Half, Bridge!Stored
  <2> QED BY <1>4, <2>2, <2>5, AloneQuiet
<1>6. CASE ~(task[i] = "none" /\ Bridge!Now(w).status # "open")
  <2>1. PICK c : c = [d EXCEPT !.at = IF task[i] = "none" THEN "create" ELSE "accept",
                               !.status = task[i], !.question = questions[i]]
    OBVIOUS
  <2>2. cycle' = [cycle EXCEPT ![w] = c]
    BY <1>1, <1>6, <2>1 DEF Bridge!Find, Bridge!Now
  <2>3. /\ c.at \in {"create", "accept"} /\ (c.at = "accept" => task[i] # "none")
        /\ c.list = d.list /\ c.question = questions[i]
    BY <1>3, <2>1 DEF Fit
  <2>4. Upcoming(c)'
    BY <1>1, <1>2, <1>3, <1>4, <2>3 DEF Upcoming, Half, Bridge!Stored
  <2> QED BY <1>4, <2>2, <2>4, AloneQuiet
<1> QED BY <1>5, <1>6

\* createTaskFromSnapshot and applyExternalAcceptance, where they do not end the cycle.
LEMMA AloneImports ==
    ASSUME AloneConstants, AloneInv, BridgeInv', NEW w \in Workers, NEW d, d = cycle[w],
           d.at \in {"create", "accept"}, cycle' = [cycle EXCEPT ![w].at = "list"],
           UNCHANGED <<issue, comments, questions, answers, notes, imported>>,
           NEW i, i = Bridge!First(d.list).of, NEW s \in {"ready", "done"},
           s = "ready" => task[i] = "none",
           d.at = "create" => s = "ready",
           task' = [task EXCEPT ![i] = s] \/ (d.at = "accept" /\ task' = task)
    PROVE  AloneInv'
<1>1. Fit(d) /\ Upcoming(d) /\ d.list # {}
  BY AloneTurn DEF Upcoming
<1>2. i \in Issues
  BY <1>1, AloneTurn
<1>3. PICK c : c = [d EXCEPT !.at = "list"]
  OBVIOUS
<1>4. cycle' = [cycle EXCEPT ![w] = c]
  BY <1>3
<1>5. c.at = "list" /\ c.list = d.list /\ c.question = d.question
  BY <1>1, <1>3 DEF Fit
<1>6. ASSUME NEW j \in Issues
      PROVE  /\ task[j] # "none" => task'[j] # "none"
             /\ task'[j] \in GoesOn => task[j] \in GoesOn \/ questions[j] = 0
             /\ j = i => task'[j] # "none"
  <2>1. j \in DOMAIN task /\ (task[j] = "none" => questions[j] = 0)
    BY DEF AloneInv, BridgeInv, BridgeTyped, Meant
  <2>2. d.at = "accept" => task[i] # "none"
    BY <1>1 DEF Upcoming
  <2> QED BY <2>1, <2>2 DEF GoesOn
<1>7. Upcoming(c)'
  BY <1>1, <1>2, <1>5, <1>6 DEF Upcoming, Half, Bridge!Stored
<1> QED BY <1>4, <1>6, <1>7, AloneQuiet

LEMMA AloneCreates ==
    ASSUME AloneConstants, AloneInv, BridgeInv', NEW w \in Workers, Bridge!Create(w)
    PROVE  AloneInv'
<1>1. PICK d, i : d = cycle[w] /\ i = Bridge!First(d.list).of
  OBVIOUS
<1>2. d.at = "create" /\ UNCHANGED <<issue, comments, questions, answers, notes, imported>>
  BY <1>1 DEF Bridge!Create
<1>3. CASE task[i] = "none"
  <2>1. task' = [task EXCEPT ![i] = "ready"] /\ cycle' = [cycle EXCEPT ![w].at = "list"]
    BY <1>1, <1>3 DEF Bridge!Create, Bridge!Now, Bridge!Go
  <2> QED BY <1>1, <1>2, <1>3, <2>1, AloneImports
<1>4. CASE task[i] # "none"
  <2>1. task' = task /\ cycle' = [cycle EXCEPT ![w] = Bridge!Idle]
    BY <1>1, <1>4 DEF Bridge!Create, Bridge!Now, Bridge!End
  <2> QED BY <1>2, <2>1, AloneEnds
<1> QED BY <1>3, <1>4

LEMMA AloneAccepts ==
    ASSUME AloneConstants, AloneInv, BridgeInv', NEW w \in Workers, Bridge!Accept(w)
    PROVE  AloneInv'
<1>1. PICK d, i : d = cycle[w] /\ i = Bridge!First(d.list).of
  OBVIOUS
<1>2. d.at = "accept" /\ UNCHANGED <<issue, comments, questions, answers, notes, imported>>
  BY <1>1 DEF Bridge!Accept
<1>3. \/ /\ cycle' = [cycle EXCEPT ![w].at = "list"]
         /\ task' = task \/ task' = [task EXCEPT ![i] = "done"]
      \/ task' = task /\ cycle' = [cycle EXCEPT ![w] = Bridge!Idle]
  BY <1>1 DEF Bridge!Accept, Bridge!Now, Bridge!Go, Bridge!End
<1>4. CASE /\ cycle' = [cycle EXCEPT ![w].at = "list"]
           /\ task' = task \/ task' = [task EXCEPT ![i] = "done"]
  BY <1>1, <1>2, <1>4, AloneImports
<1>5. CASE task' = task /\ cycle' = [cycle EXCEPT ![w] = Bridge!Idle]
  BY <1>2, <1>5, AloneEnds
<1> QED BY <1>3, <1>4, <1>5

LEMMA AloneLists ==
    ASSUME AloneConstants, AloneInv, BridgeInv', NEW w \in Workers, Bridge!List(w)
    PROVE  AloneInv'
<1>1. PICK d, i : d = cycle[w] /\ i = Bridge!First(d.list).of
  OBVIOUS
<1>2. d.at = "list" /\ UNCHANGED <<issue, comments, questions, answers, notes, imported, task>>
  BY <1>1 DEF Bridge!List
<1>3. Fit(d) /\ Upcoming(d) /\ d.list # {}
  BY <1>1, <1>2, AloneTurn DEF Upcoming
<1>4. i \in Issues
  BY <1>1, <1>3, AloneTurn
<1>5. PICK c : c = [d EXCEPT !.at = "comments", !.todo = 1..Len(comments[i]) \ imported[i]]
  OBVIOUS
<1>6. cycle' = [cycle EXCEPT ![w] = c]
  BY <1>1, <1>5 DEF Bridge!List, Bridge!Now, Bridge!Unimported
<1>7. /\ c.at = "comments" /\ c.list = d.list /\ c.question = d.question
      /\ c.todo = 1..Len(comments[i]) \ imported[i]
  BY <1>3, <1>5 DEF Fit
<1>8. ASSUME NEW n \in Nat, Half(i, n) PROVE n \in c.todo
  <2>1. n \in 1..Len(comments[i])
    BY <1>4, <1>8 DEF AloneInv, BridgeInv, Recorded, Half, Bridge!Stored
  <2> QED BY <1>7, <1>8, <2>1 DEF Half
<1>9. Upcoming(c)'
  BY <1>1, <1>2, <1>3, <1>7, <1>8 DEF Upcoming, Half, Bridge!Stored
<1> QED BY <1>2, <1>6, <1>9, AloneQuiet

LEMMA AloneGoesOn ==
    ASSUME AloneConstants, AloneInv, BridgeInv', NEW w \in Workers, Bridge!CommentsDone(w)
    PROVE  AloneInv'
<1>1. PICK d, i : d = cycle[w] /\ i = Bridge!First(d.list).of
  OBVIOUS
<1>2. /\ d.at = "comments" /\ d.todo = {}
      /\ UNCHANGED <<issue, comments, questions, answers, notes, imported, task>>
  BY <1>1 DEF Bridge!CommentsDone
<1>3. Fit(d) /\ Upcoming(d)
  BY <1>1, AloneTurn
<1>4. PICK c : c = [d EXCEPT !.at = "next", !.list = @ \ {Bridge!First(@)}]
  OBVIOUS
<1>5. cycle' = [cycle EXCEPT ![w] = c]
  BY <1>1, <1>4 DEF Bridge!CommentsDone, Bridge!NextIssue
<1>6. c.at = "next" /\ c.list = d.list \ {Bridge!First(d.list)}
  BY <1>3, <1>4 DEF Fit
<1>7. ASSUME NEW j \in Issues, ~IsOf(c.list, j), NEW n \in Nat PROVE ~Half(j, n)
  <2>1. CASE j = i
    BY <1>1, <1>2, <1>3, <2>1 DEF Upcoming
  <2>2. CASE j # i
    <3>1. ~IsOf(d.list, j)
      BY <1>1, <1>6, <1>7, <2>2 DEF IsOf
    <3> QED BY <1>2, <1>3, <3>1 DEF Upcoming
  <2> QED BY <2>1, <2>2
<1>8. Upcoming(c)'
  BY <1>2, <1>3, <1>6, <1>7 DEF Upcoming, Half, Bridge!Stored
<1> QED BY <1>2, <1>5, <1>8, AloneQuiet

\* A task is taken when every issue is imported.
LEMMA AloneTakes ==
    ASSUME AloneConstants, AloneInv, BridgeInv', NEW w \in Workers, Bridge!Take(w)
    PROVE  AloneInv'
<1>1. PICK d : d = cycle[w]
  OBVIOUS
<1>2. /\ d.at = "next" /\ d.list = {}
      /\ UNCHANGED <<issue, comments, questions, answers, notes, imported>>
  BY <1>1 DEF Bridge!Take
<1>3. Fit(d) /\ Upcoming(d)
  BY <1>1, AloneTurn
<1>4. ASSUME NEW j \in Issues, NEW n \in Nat PROVE ~Half(j, n)
  BY <1>2, <1>3 DEF Upcoming, IsOf
<1>5. CASE task' = task /\ cycle' = [cycle EXCEPT ![w] = Bridge!Idle]
  BY <1>2, <1>5, AloneEnds
<1>6. CASE \E i \in Issues, taken \in {<<"ready", "analyzing", "work">>, <<"review", "human_testing", "look">>} :
              /\ task[i] = taken[1] /\ task' = [task EXCEPT ![i] = taken[2]]
              /\ cycle' = [cycle EXCEPT ![w].at = taken[3], ![w].worked = i]
  <2>1. PICK i \in Issues, taken \in {<<"ready", "analyzing", "work">>, <<"review", "human_testing", "look">>} :
              /\ task[i] = taken[1] /\ task' = [task EXCEPT ![i] = taken[2]]
              /\ cycle' = [cycle EXCEPT ![w].at = taken[3], ![w].worked = i]
    BY <1>6
  <2>2. PICK at : at = taken[3]
    OBVIOUS
  <2>3. PICK c : c = [d EXCEPT !.at = at, !.worked = i]
    OBVIOUS
  <2>4. cycle' = [cycle EXCEPT ![w] = c]
    BY <1>1, <2>1, <2>2, <2>3
  <2>5. c.at = at /\ c.list = {} /\ c.worked = i
    BY <1>2, <1>3, <2>3 DEF Fit
  <2>6. at \in {"work", "look"} /\ (at = "work" => taken[2] = "analyzing")
    BY <2>1, <2>2
  <2>7. ASSUME NEW j \in Issues
        PROVE  /\ task[j] # "none" => task'[j] # "none"
               /\ task'[j] \in GoesOn => task[j] \in GoesOn \/ questions[j] = 0
               /\ j = i => task'[j] = taken[2]
    <3>1. j \in DOMAIN task
      BY DEF AloneInv, BridgeInv, BridgeTyped
    <3> QED BY <2>1, <3>1 DEF GoesOn
  <2>8. Upcoming(c)'
    BY <1>2, <1>4, <2>5, <2>6, <2>7 DEF Upcoming, Half, Bridge!Stored
  <2> QED BY <1>2, <2>4, <2>7, <2>8, AloneQuiet
<1> QED BY <1>1, <1>2, <1>5, <1>6 DEF Bridge!Take, Bridge!End

\* So a question is asked when nothing is half imported.
LEMMA AloneWorks ==
    ASSUME AloneConstants, AloneInv, BridgeInv', NEW w \in Workers, Bridge!Process(w)
    PROVE  AloneInv'
<1>1. PICK d, i : d = cycle[w] /\ i = d.worked
  OBVIOUS
<1>2. d.at = "work" /\ UNCHANGED <<issue, comments, answers, notes, imported>>
  BY <1>1 DEF Bridge!Process
<1>3. /\ Fit(d) /\ Upcoming(d) /\ i \in Issues
      /\ task[i] = "analyzing" /\ \A n \in Nat : ~Half(i, n)
  <2>1. Fit(d) /\ Upcoming(d)
    BY <1>1, AloneTurn
  <2> QED BY <1>1, <1>2, <2>1 DEF Fit, Mirroring, Upcoming
<1>4. \/ questions' = [questions EXCEPT ![i] = @ + 1] /\ task' = [task EXCEPT ![i] = "awaiting_human"]
      \/ questions' = questions /\ task' = [task EXCEPT ![i] = "review"]
  BY <1>1 DEF Bridge!Process
<1>5. PICK c : c = [d EXCEPT !.at = "look"]
  OBVIOUS
<1>6. cycle' = [cycle EXCEPT ![w] = c]
  BY <1>1, <1>5 DEF Bridge!Process, Bridge!Go
<1>7. c.at = "look" /\ c.list = d.list
  BY <1>3, <1>5 DEF Fit
<1>8. Upcoming(c)'
  BY <1>3, <1>7 DEF Upcoming
<1>9. ASSUME NEW j \in Issues PROVE Meant(j)'
  <2>1. Meant(j)
    BY DEF AloneInv
  <2>2. /\ j \in DOMAIN task /\ j \in DOMAIN questions /\ questions[j] \in Nat
        /\ answers[j] \in SUBSET (Nat \X Nat) /\ notes[j] \in SUBSET Nat
    BY DEF AloneInv, BridgeInv, BridgeTyped
  <2>3. CASE j # i
    <3>1. questions'[j] = questions[j] /\ task'[j] = task[j]
      BY <1>4, <2>2, <2>3
    <3> QED BY <1>2, <2>1, <3>1 DEF Meant, Bridge!IsAnswer
  <2>4. CASE j = i
    <3>1. ASSUME NEW n \in notes[j] PROVE n \in imported[j]
      BY <1>3, <2>2, <2>4, <3>1 DEF Half, Bridge!Stored
    <3>2. ASSUME NEW a \in answers[j] PROVE a[1] \in imported[j]
      <4>1. a[1] \in Nat
        BY <2>2
      <4> QED BY <1>3, <2>4, <4>1 DEF Half, Bridge!Stored
    <3>3. /\ task'[j] # "none"
          /\ task'[j] \in GoesOn => questions'[j] = questions[j] /\ task[j] \in GoesOn
      BY <1>3, <1>4, <2>2, <2>4 DEF GoesOn
    <3> QED BY <1>2, <2>1, <3>1, <3>2, <3>3 DEF Meant
  <2> QED BY <2>3, <2>4
<1> QED BY <1>6, <1>8, <1>9, AloneMoves

\* A comment that is stored again is stored as before.
LEMMA AloneStores ==
    ASSUME AloneConstants, AloneInv, BridgeInv', NEW w \in Workers, Bridge!Store(w)
    PROVE  AloneInv'
<1>1. PICK d, i, n : d = cycle[w] /\ i = Bridge!First(d.list).of /\ n = Bridge!Least(d.todo)
  OBVIOUS
<1>2. d.at = "comments" /\ d.todo # {} /\ UNCHANGED <<issue, comments, questions, imported>>
  BY <1>1 DEF Bridge!Store
<1>3. /\ Fit(d) /\ Upcoming(d) /\ i \in Issues /\ d.list # {}
      /\ d.question = questions[i] /\ task[i] # "none"
  <2>1. Fit(d) /\ Upcoming(d)
    BY <1>1, AloneTurn
  <2> QED BY <1>1, <1>2, <2>1, AloneTurn DEF Upcoming
<1>4. n \in d.todo /\ n \in Nat /\ n \notin imported[i] /\ n \in 1..Len(comments[i])
  <2>1. d.todo \subseteq 1..Len(comments[i]) /\ Len(comments[i]) \in Nat
    BY <1>1, <1>2, <1>3 DEF Fit, Importing, AloneInv, BridgeInv, BridgeTyped
  <2>2. n \in d.todo
    BY <1>1, <1>2, <2>1, LeastIsOne
  <2> QED BY <1>1, <1>2, <1>3, <2>1, <2>2 DEF Upcoming
<1>5. PICK q : q = questions[i]
  OBVIOUS
<1>6. /\ \/ /\ answers' = [answers EXCEPT ![i] = @ \cup {<<n, q>>}]
            /\ notes' = notes /\ Bridge!IsAnswer(comments[i][n], q)
         \/ /\ notes' = [notes EXCEPT ![i] = @ \cup {n}] /\ answers' = answers
            /\ ~Bridge!IsAnswer(comments[i][n], q)
      /\ task' = [task EXCEPT ![i] = Bridge!Resumed(@, comments[i][n], q)]
  BY <1>1, <1>3, <1>5 DEF Bridge!Store, Bridge!Now
<1>7. PICK c : c = [d EXCEPT !.at = "mark"]
  OBVIOUS
<1>8. cycle' = [cycle EXCEPT ![w] = c]
  BY <1>1, <1>7 DEF Bridge!Store, Bridge!Go
<1>9. c.at = "mark" /\ c.list = d.list /\ c.question = d.question /\ c.todo = d.todo
  BY <1>3, <1>7 DEF Fit
<1>10. ASSUME NEW j \in Issues
       PROVE  /\ j # i => answers'[j] = answers[j] /\ notes'[j] = notes[j] /\ task'[j] = task[j]
              /\ j = i => \/ /\ answers'[j] = answers[j] \cup {<<n, q>>} /\ notes'[j] = notes[j]
                             /\ Bridge!IsAnswer(comments[j][n], q)
                          \/ /\ answers'[j] = answers[j] /\ notes'[j] = notes[j] \cup {n}
                             /\ ~Bridge!IsAnswer(comments[j][n], q)
              /\ j = i => task'[j] = Bridge!Resumed(task[j], comments[j][n], q)
  <2>1. j \in DOMAIN answers /\ j \in DOMAIN notes /\ j \in DOMAIN task
    BY DEF AloneInv, BridgeInv, BridgeTyped
  <2> QED BY <1>6, <2>1
<1>11. ASSUME NEW j \in Issues PROVE task[j] # "none" => task'[j] # "none"
  BY <1>10 DEF Bridge!Resumed
<1>12. ASSUME NEW j \in Issues, NEW m \in Nat, Half(j, m)' PROVE Half(j, m) \/ (j = i /\ m = n)
  BY <1>2, <1>10, <1>12 DEF Half, Bridge!Stored
<1>13. Upcoming(c)'
  <2>1. ASSUME NEW j \in Issues, ~IsOf(c.list, j), NEW m \in Nat PROVE ~Half(j, m)'
    <3>1. j # i
      BY <1>1, <1>3, <1>9, <2>1, AloneTurn DEF IsOf
    <3> QED BY <1>2, <1>3, <1>9, <1>12, <2>1, <3>1 DEF Upcoming
  <2>2. ASSUME NEW m \in Nat, Half(i, m)' PROVE m \in c.todo
    BY <1>1, <1>2, <1>3, <1>4, <1>9, <1>12, <2>2 DEF Upcoming
  <2>3. /\ \A s \in c.list : s.of \in Issues
        /\ \A m \in c.todo : m \notin imported[i]
        /\ c.list # {} /\ c.question = questions[i] /\ task'[i] # "none"
    BY <1>1, <1>2, <1>3, <1>9, <1>11 DEF Upcoming
  <2> QED BY <1>1, <1>2, <1>9, <2>1, <2>2, <2>3 DEF Upcoming
<1>14. ASSUME NEW j \in Issues PROVE Meant(j)'
  <2>1. Meant(j) /\ Recorded(j) /\ questions[j] \in Nat
    BY DEF AloneInv, BridgeInv, BridgeTyped
  <2>2. CASE j # i
    BY <1>2, <1>10, <2>1, <2>2 DEF Meant, Bridge!IsAnswer
  <2>3. CASE j = i
    <3>1. n \notin imported[j] /\ questions'[j] = q /\ questions[j] = q /\ comments'[j] = comments[j]
          /\ imported'[j] = imported[j] /\ issue'[j] = issue[j]
      BY <1>2, <1>4, <1>5, <2>3
    <3>2. task'[j] # "none"
      BY <1>3, <1>11, <2>3
    <3>3. CASE /\ answers'[j] = answers[j] \cup {<<n, q>>} /\ notes'[j] = notes[j]
               /\ Bridge!IsAnswer(comments[j][n], q)
      <4>1. n \notin notes[j]
        BY <2>1, <3>1, <3>3 DEF Meant
      <4>2. \A a \in answers[j] : a[1] = n => a[2] = q
        BY <2>1, <3>1 DEF Meant
      <4>3. \A a \in answers'[j] : a \in answers[j] \/ a = <<n, q>>
        BY <3>3
      <4>4. \A a \in answers'[j] : a[1] \notin notes'[j] /\ (a[1] \notin imported'[j] => a[2] = questions'[j])
        BY <2>1, <3>1, <3>3, <4>1, <4>3 DEF Meant
      <4>5. \A a, b \in answers'[j] : a[1] = b[1] => a[2] = b[2]
        BY <2>1, <4>2, <4>3 DEF Meant
      <4>6. \A m \in notes'[j] : m \notin imported'[j] => ~Bridge!IsAnswer(comments'[j][m], questions'[j])
        BY <2>1, <3>1, <3>3 DEF Meant
      <4>7. \E a \in answers'[j] : a[2] = questions'[j]
        <5>1. <<n, q>> \in answers'[j] /\ <<n, q>>[2] = questions'[j]
          BY <3>1, <3>3
        <5> QED BY <5>1
      <4> QED BY <2>1, <3>1, <3>2, <4>4, <4>5, <4>6, <4>7 DEF Meant
    <3>4. CASE /\ answers'[j] = answers[j] /\ notes'[j] = notes[j] \cup {n}
               /\ ~Bridge!IsAnswer(comments[j][n], q)
      <4>1. task'[j] = task[j]
        BY <1>10, <2>3, <3>4 DEF Bridge!Resumed, Bridge!Resumes
      <4>2. ASSUME NEW a \in answers[j] PROVE a[1] # n
        <5>1. a[1] = n => a[2] = q /\ Bridge!IsAnswer(comments[j][n], q)
          BY <2>1, <3>1 DEF Meant, Recorded
        <5> QED BY <3>4, <5>1
      <4>3. \A a \in answers'[j] : a[1] \notin notes'[j] /\ (a[1] \notin imported'[j] => a[2] = questions'[j])
        BY <2>1, <3>1, <3>4, <4>2 DEF Meant
      <4>4. \A m \in notes'[j] : m \notin imported'[j] => ~Bridge!IsAnswer(comments'[j][m], questions'[j])
        BY <2>1, <3>1, <3>4 DEF Meant
      <4> QED BY <2>1, <3>1, <3>2, <3>4, <4>1, <4>3, <4>4 DEF Meant
    <3> QED BY <1>10, <2>3, <3>3, <3>4
  <2> QED BY <2>2, <2>3
<1> QED BY <1>8, <1>13, <1>14, AloneMoves

LEMMA AloneMarks ==
    ASSUME AloneConstants, AloneInv, BridgeInv', NEW w \in Workers, Bridge!MarkImported(w)
    PROVE  AloneInv'
<1>1. PICK d, i, n : d = cycle[w] /\ i = Bridge!First(d.list).of /\ n = Bridge!Least(d.todo)
  OBVIOUS
<1>2. d.at = "mark" /\ UNCHANGED <<issue, comments, questions, answers, notes, task>>
  BY <1>1 DEF Bridge!MarkImported
<1>3. Fit(d) /\ Upcoming(d) /\ i \in Issues
  <2>1. Fit(d) /\ Upcoming(d)
    BY <1>1, AloneTurn
  <2> QED BY <1>1, <1>2, <2>1, AloneTurn DEF Upcoming
<1>4. PICK c : c = [d EXCEPT !.at = "comments", !.todo = @ \ {n}]
  OBVIOUS
<1>5. cycle' = [cycle EXCEPT ![w] = c] /\ imported' = [imported EXCEPT ![i] = @ \cup {n}]
  BY <1>1, <1>4 DEF Bridge!MarkImported, Bridge!Now
<1>6. c.at = "comments" /\ c.list = d.list /\ c.question = d.question /\ c.todo = d.todo \ {n}
  BY <1>3, <1>4 DEF Fit
<1>7. ASSUME NEW j \in Issues
      PROVE  imported'[j] = IF j = i THEN imported[j] \cup {n} ELSE imported[j]
  <2>1. j \in DOMAIN imported
    BY DEF AloneInv, BridgeInv, BridgeTyped
  <2> QED BY <1>5, <2>1
<1>8. ASSUME NEW j \in Issues, NEW m \in Nat, Half(j, m)' PROVE Half(j, m) /\ (j = i => m # n)
  BY <1>2, <1>7, <1>8 DEF Half, Bridge!Stored
<1>9. Upcoming(c)'
  <2>1. ASSUME NEW j \in Issues, ~IsOf(c.list, j), NEW m \in Nat PROVE ~Half(j, m)'
    BY <1>2, <1>3, <1>6, <1>8, <2>1 DEF Upcoming
  <2>2. ASSUME NEW m \in Nat, Half(i, m)' PROVE m \in c.todo
    BY <1>1, <1>2, <1>3, <1>6, <1>8, <2>2 DEF Upcoming
  <2>3. /\ \A s \in c.list : s.of \in Issues
        /\ \A m \in c.todo : m \notin imported'[i]
        /\ c.list # {} /\ c.question = questions[i] /\ task[i] # "none"
    BY <1>1, <1>2, <1>3, <1>6, <1>7 DEF Upcoming
  <2> QED BY <1>1, <1>2, <1>6, <2>1, <2>2, <2>3 DEF Upcoming
<1>10. ASSUME NEW j \in Issues PROVE Meant(j)'
  <2>1. Meant(j) /\ imported[j] \subseteq imported'[j]
    BY <1>7 DEF AloneInv
  <2> QED BY <1>2, <2>1 DEF Meant, Bridge!IsAnswer
<1> QED BY <1>5, <1>9, <1>10, AloneMoves

\* What is mirrored is neither read nor written by the import, but for the issue's status.
LEMMA AloneMirrors ==
    ASSUME AloneConstants, AloneInv, BridgeInv', NEW w \in Workers,
           \/ Bridge!Look(w) \/ Bridge!Export(w) \/ Bridge!RecordExport(w) \/ Bridge!Sync(w)
           \/ Bridge!RecordSync(w)
    PROVE  AloneInv'
<1>1. PICK d : d = cycle[w]
  OBVIOUS
<1>2. UNCHANGED <<comments, questions, answers, notes, imported, task>>
  BY DEF Bridge!Look, Bridge!Export, Bridge!RecordExport, Bridge!Sync, Bridge!RecordSync
<1>3. Fit(d) /\ Upcoming(d)
  BY <1>1, AloneTurn
<1>4. ASSUME NEW i \in Issues PROVE issue[i] # "absent" => issue'[i] # "absent"
  <2>1. i \in DOMAIN issue
    BY DEF AloneInv, BridgeInv, BridgeTyped
  <2>2. CASE issue' = issue
    BY <2>2
  <2>3. CASE Bridge!Sync(w) /\ issue' # issue
    <3>1. issue' = [issue EXCEPT ![d.worked] = Bridge!LogicalStatus(task[d.worked])] /\ d.at = "sync"
      BY <1>1, <2>3 DEF Bridge!Sync
    <3>2. d.worked \in Issues /\ task[d.worked] # "none"
      BY <1>3, <3>1 DEF Fit, Mirroring
    <3>3. task[d.worked] \in TaskAt
      BY <3>2 DEF AloneInv, BridgeInv, BridgeTyped
    <3>4. Bridge!LogicalStatus(task[d.worked]) # "absent"
      BY <3>2, <3>3 DEF TaskAt, Bridge!LogicalStatus
    <3> QED BY <2>1, <3>1, <3>4
  <2> QED BY <2>2, <2>3 DEF Bridge!Look, Bridge!Export, Bridge!RecordExport, Bridge!RecordSync
<1>5. ASSUME NEW c, cycle' = [cycle EXCEPT ![w] = c], c.list = d.list \/ c.list = {},
             c.at \in {"idle", "export", "record_export", "sync", "record_sync"}
      PROVE  AloneInv'
  <2>1. Upcoming(c)'
    BY <1>3, <1>5 DEF Upcoming
  <2> QED BY <1>2, <1>4, <1>5, <2>1, AloneQuiet
<1>6. CASE Bridge!Look(w)
  <2>1. PICK c : c = [d EXCEPT !.at = "export", !.todo = 1..questions[d.worked]]
    OBVIOUS
  <2>2. cycle' = [cycle EXCEPT ![w] = c]
    BY <1>1, <1>6, <2>1 DEF Bridge!Look
  <2>3. c.at = "export" /\ c.list = d.list
    BY <1>3, <2>1 DEF Fit
  <2> QED BY <1>5, <2>2, <2>3
<1>7. CASE Bridge!Export(w)
  <2>1. PICK left : left = d.todo \ exported[d.worked]
    OBVIOUS
  <2>2. PICK c : c = IF left = {} THEN [d EXCEPT !.at = "sync"]
                                  ELSE [d EXCEPT !.at = "record_export", !.todo = left]
    OBVIOUS
  <2>3. cycle' = [cycle EXCEPT ![w] = c]
    BY <1>1, <1>7, <2>1, <2>2 DEF Bridge!Export, Bridge!Go
  <2>4. c.at \in {"sync", "record_export"} /\ c.list = d.list
    BY <1>3, <2>2 DEF Fit
  <2> QED BY <1>5, <2>3, <2>4
<1>8. CASE Bridge!RecordExport(w)
  <2>1. PICK c : c = [d EXCEPT !.at = "export"]
    OBVIOUS
  <2>2. cycle' = [cycle EXCEPT ![w] = c]
    BY <1>1, <1>8, <2>1 DEF Bridge!RecordExport, Bridge!Go
  <2>3. c.at = "export" /\ c.list = d.list
    BY <1>3, <2>1 DEF Fit
  <2> QED BY <1>5, <2>2, <2>3
<1>9. CASE Bridge!Sync(w)
  <2>1. PICK c : c = [d EXCEPT !.at = "record_sync", !.target = Bridge!LogicalStatus(task[d.worked])]
    OBVIOUS
  <2>2. cycle' = [cycle EXCEPT ![w] = Bridge!Idle] \/ cycle' = [cycle EXCEPT ![w] = c]
    BY <1>1, <1>9, <2>1 DEF Bridge!Sync, Bridge!End
  <2>3. c.at = "record_sync" /\ c.list = d.list
    BY <1>3, <2>1 DEF Fit
  <2>4. CASE cycle' = [cycle EXCEPT ![w] = Bridge!Idle]
    BY <1>2, <1>4, <2>4, AloneEnds
  <2>5. CASE cycle' = [cycle EXCEPT ![w] = c]
    BY <1>5, <2>3, <2>5
  <2> QED BY <2>2, <2>4, <2>5
<1>10. CASE Bridge!RecordSync(w)
  BY <1>2, <1>4, <1>10, AloneEnds DEF Bridge!RecordSync, Bridge!End
<1> QED BY <1>6, <1>7, <1>8, <1>9, <1>10

LEMMA AlonePeople ==
    ASSUME AloneConstants, AloneInv, BridgeInv', NEW i \in Issues,
           Bridge!File(i) \/ Bridge!Comment(i) \/ Bridge!Resolve(i)
    PROVE  AloneInv'
<1>1. UNCHANGED <<task, questions, answers, notes, imported, cycle>>
  BY DEF Bridge!File, Bridge!Comment, Bridge!Resolve
<1>2. ASSUME NEW j \in Issues
      PROVE  /\ issue[j] # "absent" => issue'[j] # "absent"
             /\ comments'[j] = comments[j] \/ issue'[j] # "absent"
             /\ \A c \in 1..Len(comments[j]) : comments'[j][c] = comments[j][c]
  <2>1. j \in DOMAIN issue /\ j \in DOMAIN comments
    BY DEF AloneInv, BridgeInv, BridgeTyped
  <2>2. \A c \in 1..Len(comments[j]) : comments'[j][c] = comments[j][c]
    BY CommentsGrow DEF AloneConstants, AloneInv
  <2> QED BY <2>1, <2>2 DEF Bridge!File, Bridge!Comment, Bridge!Resolve
<1>3. ASSUME NEW j \in Issues PROVE Meant(j)'
  <2>1. Meant(j) /\ notes[j] \subseteq 1..Len(comments[j])
    BY DEF AloneInv, BridgeInv, Recorded
  <2>2. \A n \in notes[j] : comments'[j][n] = comments[j][n]
    BY <1>2, <2>1
  <2>3. Len(comments'[j]) > 0 => issue'[j] # "absent"
    BY <1>2, <2>1 DEF Meant
  <2> QED BY <1>1, <2>1, <2>2, <2>3 DEF Meant, Bridge!IsAnswer
<1>4. ASSUME NEW w \in Workers PROVE Upcoming(cycle[w])'
  BY <1>1 DEF AloneInv, Upcoming, Half, Bridge!Stored
<1> QED BY <1>3, <1>4 DEF AloneInv

LEMMA AloneNext ==
    ASSUME AloneConstants, AloneInv, [Bridge!Next]_(Bridge!vars)
    PROVE  AloneInv'
<1>1. BridgeInv'
  BY BridgeNext DEF AloneConstants, AloneInv
<1>2. CASE UNCHANGED Bridge!vars
  <2>1. UNCHANGED <<issue, comments, task, questions, answers, notes, imported, cycle>>
    BY <1>2 DEF Bridge!vars
  <2>2. \A i \in Issues : Meant(i)'
    BY <2>1 DEF AloneInv, Meant, Bridge!IsAnswer
  <2>3. \A w \in Workers : Upcoming(cycle[w])'
    BY <2>1 DEF AloneInv, Upcoming, Half, Bridge!Stored
  <2> QED BY <1>1, <2>2, <2>3 DEF AloneInv
<1>3. ASSUME NEW w \in Workers, Bridge!Step(w) PROVE AloneInv'
  BY <1>1, <1>3, AloneFetches, AloneFinds, AloneCreates, AloneAccepts, AloneLists, AloneStores, AloneMarks,
     AloneGoesOn, AloneTakes, AloneWorks, AloneMirrors
  DEF Bridge!Step
<1>4. ASSUME NEW w \in Workers, Bridge!Break(w) PROVE AloneInv'
  BY <1>1, <1>4, AloneEnds DEF Bridge!Break, Bridge!End
<1>5. ASSUME NEW i \in Issues, Bridge!File(i) \/ Bridge!Comment(i) \/ Bridge!Resolve(i) PROVE AloneInv'
  BY <1>1, <1>5, AlonePeople
<1> QED BY <1>2, <1>3, <1>4, <1>5 DEF Bridge!Next

\* Where one worker imports, a comment that is imported again after a failure between
\* recordHumanAnswer or appendComment and recordImportedComment is stored as what it was:
\* as an ordinary one, or as the answer to the same question, though the task may ask again;
\* and a task that asked goes on only with an answer to its latest question.
THEOREM ImportedAlone ==
    ASSUME AloneConstants
    PROVE  Bridge!Spec => [](Bridge!OneMeaning /\ Bridge!AnsweredFirst)
<1>1. Bridge!Init => AloneInv
  BY AloneInit
<1>2. AloneInv /\ [Bridge!Next]_(Bridge!vars) => AloneInv'
  BY AloneNext
<1>3. AloneInv => Bridge!OneMeaning /\ Bridge!AnsweredFirst
  BY DEF AloneInv, Meant, GoesOn, Bridge!OneMeaning, Bridge!AnsweredFirst
<1> QED BY <1>1, <1>2, <1>3, PTL DEF Bridge!Spec

-----------------------------------------------------------------------------
(* Migrations *)

CONSTANTS Runners, Starters, Releases, Demanded

VARIABLES table, applied, effects, run, started

Schema == INSTANCE Migrations WITH Required <- Demanded

\* A release is a sequence of files, each with a version and a checksum.
IsRow(f) == f = [version |-> f.version, checksum |-> f.checksum]
IsRelease(s) ==
    /\ Len(s) \in Nat /\ DOMAIN s = 1..Len(s)
    /\ \A i \in 1..Len(s) : IsRow(s[i])
SchemaConstants ==
    MaxFaults \in Nat /\ \A p \in Runners \cup Starters : IsRelease(Releases[p])

AllVersions == UNION {{Releases[r][i].version : i \in 1..Len(Releases[r])} : r \in Runners}

\* What took effect is what the rows say, each version once.
OnRecord ==
    /\ effects \in Seq(AllVersions)
    /\ \A i, j \in 1..Len(effects) : effects[i] = effects[j] => i = j
    /\ {effects[i] : i \in 1..Len(effects)} = {row.version : row \in applied}
    /\ \A row \in applied : IsRow(row)

\* A runner has passed only files that are applied, and goes by rows that are there.
Passed(r) ==
    LET c == run[r] IN
    /\ c = [at |-> c.at, seen |-> c.seen, file |-> c.file]
    /\ c.file \in Nat \ {0} /\ c.seen \subseteq applied
    /\ \A i \in 1..Len(Releases[r]) : i < c.file => Releases[r][i] \in applied
    /\ c.file <= Len(Releases[r]) + 1
    /\ c.at = "apply" => c.file <= Len(Releases[r])
    /\ c.at = "done" => c.file > Len(Releases[r])

Served(s) ==
    started[s] = "yes" =>
        \A i \in 1..Len(Releases[s]) : \E row \in applied : row.version = Releases[s][i].version

SchemaInv ==
    /\ table \in BOOLEAN /\ faults \in 0..MaxFaults
    /\ started \in [Starters -> {"no", "yes", "refused"}]
    /\ OnRecord
    /\ DOMAIN run = Runners /\ run = [r \in Runners |-> run[r]] /\ \A r \in Runners : Passed(r)
    /\ \A s \in Starters : Served(s)

LEMMA SchemaInit == ASSUME SchemaConstants, Schema!Init PROVE SchemaInv
<1>1. OnRecord
  BY DEF Schema!Init, OnRecord
<1>2. ASSUME NEW r \in Runners PROVE Passed(r)
  <2>1. run[r] = [at |-> "idle", seen |-> {}, file |-> 1] /\ Len(Releases[r]) \in Nat
    BY DEF Schema!Init, Schema!Idle, SchemaConstants, IsRelease
  <2> QED BY <2>1 DEF Passed
<1>3. ASSUME NEW s \in Starters PROVE Served(s)
  BY DEF Schema!Init, Served
<1>4. DOMAIN run = Runners /\ run = [r \in Runners |-> run[r]]
  BY DEF Schema!Init
<1>5. table \in BOOLEAN /\ faults \in 0..MaxFaults
  <2>1. table = FALSE /\ faults = 0
    BY DEF Schema!Init
  <2>2. MaxFaults \in Nat
    BY DEF SchemaConstants
  <2>3. table \in BOOLEAN
    BY <2>1
  <2>4. faults \in 0..MaxFaults
    BY <2>1, <2>2
  <2> QED BY <2>3, <2>4
<1>6. started \in [Starters -> {"no", "yes", "refused"}]
  BY DEF Schema!Init
<1> QED BY <1>1, <1>2, <1>3, <1>4, <1>5, <1>6 DEF SchemaInv

LEMMA RecordStays == ASSUME OnRecord, applied' = applied, effects' = effects PROVE OnRecord'
BY DEF OnRecord

\* A step of one runner; rows are only added.
LEMMA RunnerMoves ==
    ASSUME SchemaInv, NEW r \in Runners, NEW c, run' = [run EXCEPT ![r] = c],
           applied \subseteq applied', OnRecord', Passed(r)',
           table' \in BOOLEAN, faults' \in 0..MaxFaults, started' = started
    PROVE  SchemaInv'
<1>1. ASSUME NEW q \in Runners, q # r PROVE Passed(q)'
  <2>1. run'[q] = run[q]
    BY <1>1 DEF SchemaInv
  <2>2. Passed(q)
    BY DEF SchemaInv
  <2> QED BY <2>1, <2>2 DEF Passed
<1>2. ASSUME NEW s \in Starters PROVE Served(s)'
  BY DEF SchemaInv, Served
<1> QED BY <1>1, <1>2 DEF SchemaInv

\* A runner leaves the rows alone and stands at a file all before which are applied.
Stands(r, at, seen, file) ==
    /\ run' = [run EXCEPT ![r] = [at |-> at, seen |-> seen, file |-> file]]
    /\ applied' = applied /\ effects' = effects /\ started' = started
    /\ table' \in BOOLEAN /\ faults' \in 0..MaxFaults
    /\ file \in Nat \ {0} /\ seen \subseteq applied
    /\ \A i \in 1..Len(Releases[r]) : i < file => Releases[r][i] \in applied
    /\ file <= Len(Releases[r]) + 1
    /\ at = "apply" => file <= Len(Releases[r])
    /\ at = "done" => file > Len(Releases[r])
LEMMA RunnerStands ==
    ASSUME SchemaInv, NEW r \in Runners, NEW at, NEW seen, NEW file, Stands(r, at, seen, file)
    PROVE  SchemaInv'
<1>1. run'[r] = [at |-> at, seen |-> seen, file |-> file] /\ applied' = applied
  BY DEF SchemaInv, Stands
<1>2. Passed(r)'
  BY <1>1 DEF Passed, Stands
<1>3. OnRecord'
  BY DEF SchemaInv, OnRecord, Stands
<1>4. PICK c : c = [at |-> at, seen |-> seen, file |-> file]
  OBVIOUS
<1> QED BY <1>2, <1>3, <1>4, RunnerMoves DEF Stands

\* A runner that leaves the rows alone keeps the invariant.
LEMMA RunnerLooks ==
    ASSUME SchemaConstants, SchemaInv, NEW r \in Runners,
           Schema!Ensure(r) \/ Schema!Read(r) \/ Schema!NextFile(r) \/ Schema!Fail(r) \/ Schema!Crash(r)
    PROVE  SchemaInv'
<1>1. PICK d : d = run[r]
  OBVIOUS
<1>2. Passed(r)
  BY DEF SchemaInv
<1>3. /\ d = [at |-> d.at, seen |-> d.seen, file |-> d.file]
      /\ d.file \in Nat \ {0} /\ d.seen \subseteq applied
      /\ \A i \in 1..Len(Releases[r]) : i < d.file => Releases[r][i] \in applied
      /\ d.file <= Len(Releases[r]) + 1
  BY <1>1, <1>2 DEF Passed
<1>4. IsRelease(Releases[r]) /\ Len(Releases[r]) \in Nat
  BY DEF SchemaConstants, IsRelease
<1>5. applied' = applied /\ effects' = effects /\ started' = started /\ table' \in BOOLEAN
  BY DEF SchemaInv, Schema!Ensure, Schema!Read, Schema!NextFile, Schema!Fail, Schema!Crash
<1>6. faults' \in 0..MaxFaults
  BY DEF SchemaInv, SchemaConstants, Schema!Ensure, Schema!Read, Schema!NextFile, Schema!Fail, Schema!Crash
<1>7. CASE Schema!Ensure(r)
  <2>1. [d EXCEPT !.at = "read"] = [at |-> "read", seen |-> d.seen, file |-> d.file]
    BY <1>3
  <2>2. run' = [run EXCEPT ![r] = [at |-> "read", seen |-> d.seen, file |-> d.file]]
    BY <1>1, <1>7, <2>1 DEF Schema!Ensure
  <2>20. Stands(r, "read", d.seen, d.file)
    BY <1>3, <1>5, <1>6, <2>2 DEF Stands
  <2> QED BY <2>20, RunnerStands
<1>8. CASE Schema!Read(r)
  <2>1. PICK seen : seen = applied
    OBVIOUS
  <2>2. [d EXCEPT !.at = "next", !.seen = seen] = [at |-> "next", seen |-> seen, file |-> d.file]
    <3>1. PICK e : e = [d EXCEPT !.at = "next"]
      OBVIOUS
    <3>2. [d EXCEPT !.at = "next", !.seen = seen] = [e EXCEPT !.seen = seen]
      BY <3>1
    <3>3. e = [at |-> "next", seen |-> d.seen, file |-> d.file]
      BY <1>3, <3>1
    <3> QED BY <3>2, <3>3
  <2>3. run' = [run EXCEPT ![r] = [at |-> "next", seen |-> seen, file |-> d.file]]
    BY <1>1, <1>8, <2>1, <2>2 DEF Schema!Read
  <2>20. Stands(r, "next", seen, d.file)
    BY <1>3, <1>5, <1>6, <2>1, <2>3 DEF Stands
  <2> QED BY <2>20, RunnerStands
<1>9. CASE Schema!NextFile(r)
  <2>1. PICK next : next = IF d.file > Len(Releases[r]) THEN [d EXCEPT !.at = "done"]
                           ELSE IF Schema!Changed(r) THEN [d EXCEPT !.at = "failed"]
                           ELSE IF Schema!File(r).version \in Schema!Versions(d.seen)
                                THEN [d EXCEPT !.file = d.file + 1]
                           ELSE [d EXCEPT !.at = "apply"]
    OBVIOUS
  <2>2. run' = [run EXCEPT ![r] = next] /\ d.at = "next"
    BY <1>1, <1>9, <2>1 DEF Schema!NextFile
  <2>3. CASE d.file > Len(Releases[r])
    <3>1. next = [at |-> "done", seen |-> d.seen, file |-> d.file]
      BY <1>3, <2>1, <2>3
    <3>20. Stands(r, "done", d.seen, d.file)
      BY <1>3, <1>5, <1>6, <2>2, <2>3, <3>1 DEF Stands
    <3> QED BY <3>20, RunnerStands
  <2>4. CASE ~(d.file > Len(Releases[r])) /\ Schema!Changed(r)
    <3>1. next = [at |-> "failed", seen |-> d.seen, file |-> d.file]
      BY <1>3, <2>1, <2>4
    <3>20. Stands(r, "failed", d.seen, d.file)
      BY <1>3, <1>5, <1>6, <2>2, <3>1 DEF Stands
    <3> QED BY <3>20, RunnerStands
  <2>5. CASE /\ ~(d.file > Len(Releases[r])) /\ ~Schema!Changed(r)
             /\ Schema!File(r).version \in Schema!Versions(d.seen)
    <3>1. next = [at |-> d.at, seen |-> d.seen, file |-> d.file + 1]
      BY <1>3, <2>1, <2>5
    <3>2. d.file \in 1..Len(Releases[r])
      BY <1>3, <1>4, <2>5
    <3>3. PICK row \in d.seen : row.version = Releases[r][d.file].version
      BY <1>1, <2>5 DEF Schema!File, Schema!Versions
    <3>4. row.checksum = Releases[r][d.file].checksum
      BY <1>1, <2>5, <3>3 DEF Schema!Changed, Schema!File
    <3>5. IsRow(row) /\ IsRow(Releases[r][d.file])
      BY <1>3, <1>4, <3>2, <3>3 DEF SchemaInv, OnRecord, IsRelease
    <3>6. row = Releases[r][d.file]
      BY <3>3, <3>4, <3>5 DEF IsRow
    <3>7. \A i \in 1..Len(Releases[r]) : i < d.file + 1 => Releases[r][i] \in applied
      BY <1>3, <1>4, <3>3, <3>6
    <3>8. d.file + 1 \in Nat \ {0} /\ d.file + 1 <= Len(Releases[r]) + 1
      BY <1>3, <1>4, <3>2
    <3>9. run' = [run EXCEPT ![r] = [at |-> "next", seen |-> d.seen, file |-> d.file + 1]]
      BY <2>2, <3>1
    <3>20. Stands(r, "next", d.seen, d.file + 1)
      BY <1>3, <1>5, <1>6, <3>7, <3>8, <3>9 DEF Stands
    <3> QED BY <3>20, RunnerStands
  <2>6. CASE /\ ~(d.file > Len(Releases[r])) /\ ~Schema!Changed(r)
             /\ ~(Schema!File(r).version \in Schema!Versions(d.seen))
    <3>1. next = [at |-> "apply", seen |-> d.seen, file |-> d.file]
      BY <1>3, <2>1, <2>6
    <3>2. d.file <= Len(Releases[r])
      BY <1>3, <1>4, <2>6
    <3>20. Stands(r, "apply", d.seen, d.file)
      BY <1>3, <1>5, <1>6, <2>2, <3>1, <3>2 DEF Stands
    <3> QED BY <3>20, RunnerStands
  <2> QED BY <2>3, <2>4, <2>5, <2>6
<1>10. CASE Schema!Fail(r)
  <2>1. [d EXCEPT !.at = "failed"] = [at |-> "failed", seen |-> d.seen, file |-> d.file]
    BY <1>3
  <2>2. run' = [run EXCEPT ![r] = [at |-> "failed", seen |-> d.seen, file |-> d.file]]
    BY <1>1, <1>10, <2>1 DEF Schema!Fail, Schema!Stop
  <2>20. Stands(r, "failed", d.seen, d.file)
    BY <1>3, <1>5, <1>6, <2>2 DEF Stands
  <2> QED BY <2>20, RunnerStands
<1>11. CASE Schema!Crash(r)
  <2>1. run' = [run EXCEPT ![r] = [at |-> "idle", seen |-> {}, file |-> 1]]
    BY <1>11 DEF Schema!Crash, Schema!Idle
  <2>2. 1 <= Len(Releases[r]) + 1 /\ \A i \in 1..Len(Releases[r]) : ~(i < 1)
    BY <1>4
  <2>20. Stands(r, "idle", {}, 1)
    BY <1>5, <1>6, <2>1, <2>2 DEF Stands
  <2> QED BY <2>20, RunnerStands
<1> QED BY <1>7, <1>8, <1>9, <1>10, <1>11

\* A file that is applied: its row and its effect, at once, where no other row has its version.
LEMMA RunnerApplies ==
    ASSUME SchemaConstants, SchemaInv, NEW r \in Runners, Schema!Apply(r)
    PROVE  SchemaInv'
<1>1. PICK d : d = run[r]
  OBVIOUS
<1>2. /\ d = [at |-> d.at, seen |-> d.seen, file |-> d.file]
      /\ d.file \in Nat \ {0} /\ d.seen \subseteq applied
      /\ \A i \in 1..Len(Releases[r]) : i < d.file => Releases[r][i] \in applied
      /\ d.file <= Len(Releases[r]) + 1 /\ d.at = "apply" /\ d.file <= Len(Releases[r])
  BY <1>1 DEF SchemaInv, Passed, Schema!Apply
<1>3. IsRelease(Releases[r]) /\ Len(Releases[r]) \in Nat
  BY DEF SchemaConstants, IsRelease
<1>4. PICK f : f = Releases[r][d.file]
  OBVIOUS
<1>5. Schema!File(r) = f
  BY <1>1, <1>4 DEF Schema!File
<1>6. d.file \in 1..Len(Releases[r]) /\ IsRow(f) /\ f.version \in AllVersions
  BY <1>2, <1>3, <1>4 DEF IsRelease, AllVersions
<1>7. started' = started /\ table' \in BOOLEAN /\ faults' \in 0..MaxFaults
  BY DEF Schema!Apply, SchemaInv
<1>8. CASE f.version \in Schema!Versions(applied)
  <2>1. [d EXCEPT !.at = "failed"] = [at |-> "failed", seen |-> d.seen, file |-> d.file]
    BY <1>2
  <2>2. run' = [run EXCEPT ![r].at = "failed"] /\ UNCHANGED <<applied, effects>>
    BY <1>5, <1>8 DEF Schema!Apply, Schema!Taken, Schema!Stop
  <2>3. run' = [run EXCEPT ![r] = [at |-> "failed", seen |-> d.seen, file |-> d.file]]
    BY <1>1, <2>1, <2>2
  <2>4. Stands(r, "failed", d.seen, d.file)
    BY <1>2, <1>7, <2>2, <2>3 DEF Stands
  <2> QED BY <2>4, RunnerStands
<1>9. CASE ~(f.version \in Schema!Versions(applied))
  <2>1. PICK c : c = [at |-> "next", seen |-> d.seen, file |-> d.file + 1]
    OBVIOUS
  <2>2. [d EXCEPT !.at = "next", !.file = d.file + 1] = c
    <3>1. PICK e : e = [d EXCEPT !.at = "next"]
      OBVIOUS
    <3>2. [d EXCEPT !.at = "next", !.file = d.file + 1] = [e EXCEPT !.file = d.file + 1]
      BY <3>1
    <3>3. e = [at |-> "next", seen |-> d.seen, file |-> d.file]
      BY <1>2, <3>1
    <3> QED BY <2>1, <3>2, <3>3
  <2>3. /\ applied' = applied \cup {f} /\ effects' = Append(effects, f.version)
        /\ run' = [run EXCEPT ![r].at = "next", ![r].file = run[r].file + 1]
    BY <1>5, <1>9 DEF Schema!Apply, Schema!Taken
  <2>4. run' = [run EXCEPT ![r] = c]
    BY <1>1, <2>2, <2>3
  <2>5. run'[r] = c
    BY <2>4 DEF SchemaInv
  <2>6. Passed(r)'
    <3>1. \A i \in 1..Len(Releases[r]) : i < d.file + 1 => Releases[r][i] \in applied'
      BY <1>2, <1>3, <1>4, <2>3
    <3>2. d.file + 1 \in Nat \ {0} /\ d.file + 1 <= Len(Releases[r]) + 1
      BY <1>2, <1>3
    <3>3. c.at = "next" /\ c.seen = d.seen /\ c.file = d.file + 1 /\ c = [at |-> c.at, seen |-> c.seen, file |-> c.file]
      BY <2>1
    <3>4. c.seen \subseteq applied'
      BY <1>2, <2>3, <3>3
    <3> QED BY <2>5, <3>1, <3>2, <3>3, <3>4 DEF Passed
  <2>7. OnRecord'
    <3>1. /\ effects \in Seq(AllVersions) /\ Len(effects) \in Nat
          /\ \A i, j \in 1..Len(effects) : effects[i] = effects[j] => i = j
          /\ {effects[i] : i \in 1..Len(effects)} = {row.version : row \in applied}
          /\ \A row \in applied : IsRow(row)
      <4>1. OnRecord
        BY DEF SchemaInv
      <4>2. effects \in Seq(AllVersions)
        BY <4>1 DEF OnRecord
      <4>3. Len(effects) \in Nat
        BY <4>2
      <4>4. /\ \A i, j \in 1..Len(effects) : effects[i] = effects[j] => i = j
            /\ {effects[i] : i \in 1..Len(effects)} = {row.version : row \in applied}
            /\ \A row \in applied : IsRow(row)
        BY <4>1 DEF OnRecord
      <4> QED BY <4>2, <4>3, <4>4
    <3>2. /\ effects' \in Seq(AllVersions) /\ Len(effects') = Len(effects) + 1
          /\ \A i \in 1..Len(effects) : effects'[i] = effects[i]
          /\ effects'[Len(effects) + 1] = f.version
      BY <1>6, <2>3, <3>1
    <3>3. \A i \in 1..Len(effects) : effects[i] # f.version
      BY <1>9, <3>1 DEF Schema!Versions
    <3>4. \A i \in 1..Len(effects') : i \in 1..Len(effects) \/ i = Len(effects) + 1
      BY <3>1, <3>2
    <3>5. \A i, j \in 1..Len(effects') : effects'[i] = effects'[j] => i = j
      BY <3>1, <3>2, <3>3, <3>4
    <3>6. 1..Len(effects') = 1..Len(effects) \cup {Len(effects) + 1}
      BY <3>1, <3>2
    <3>7. {effects'[i] : i \in 1..Len(effects')} = {effects[i] : i \in 1..Len(effects)} \cup {f.version}
      BY <3>2, <3>6
    <3>8. {row.version : row \in applied'} = {row.version : row \in applied} \cup {f.version}
      BY <2>3
    <3>9. \A row \in applied' : IsRow(row)
      BY <1>6, <2>3, <3>1
    <3> QED BY <3>1, <3>2, <3>5, <3>7, <3>8, <3>9 DEF OnRecord
  <2> QED BY <1>7, <2>3, <2>4, <2>6, <2>7, RunnerMoves
<1> QED BY <1>8, <1>9

\* A process starts where every version of its release has its row.
LEMMA ProcessStarts ==
    ASSUME SchemaConstants, SchemaInv, NEW s \in Starters, Schema!StartUp(s)
    PROVE  SchemaInv'
<1>1. UNCHANGED <<table, applied, effects, run, faults>>
  BY DEF Schema!StartUp
<1>2. PICK c : c = IF table /\ Schema!Pending(Releases[s]) = {} /\ Schema!Missing = {} THEN "yes" ELSE "refused"
  OBVIOUS
<1>3. started' = [started EXCEPT ![s] = c] /\ c \in {"yes", "refused"}
  BY <1>2 DEF Schema!StartUp
<1>4. started' \in [Starters -> {"no", "yes", "refused"}]
  BY <1>3 DEF SchemaInv
<1>5. Served(s)'
  <2>1. SUFFICES ASSUME started'[s] = "yes", NEW i \in 1..Len(Releases[s])
                 PROVE  \E row \in applied' : row.version = Releases[s][i].version
    BY DEF Served
  <2>2. Schema!Pending(Releases[s]) = {} /\ DOMAIN Releases[s] = 1..Len(Releases[s])
    BY <1>2, <1>3, <2>1 DEF SchemaInv, SchemaConstants, IsRelease
  <2>3. Releases[s][i].version \in Schema!Versions(applied)
    BY <2>2 DEF Schema!Pending
  <2> QED BY <1>1, <2>3 DEF Schema!Versions
<1>6. ASSUME NEW q \in Starters, q # s PROVE Served(q)'
  <2>1. started'[q] = started[q] /\ Served(q)
    BY <1>3, <1>6 DEF SchemaInv
  <2> QED BY <1>1, <2>1 DEF Served
<1>7. ASSUME NEW r \in Runners PROVE Passed(r)'
  BY <1>1 DEF SchemaInv, Passed
<1>8. OnRecord'
  BY <1>1, RecordStays DEF SchemaInv
<1> QED BY <1>1, <1>4, <1>5, <1>6, <1>7, <1>8 DEF SchemaInv

LEMMA SchemaNext == ASSUME SchemaConstants, SchemaInv, [Schema!Next]_(Schema!vars) PROVE SchemaInv'
<1>1. CASE UNCHANGED Schema!vars
  <2>1. UNCHANGED <<table, applied, effects, run, started, faults>>
    BY <1>1 DEF Schema!vars
  <2>2. OnRecord'
    BY <2>1, RecordStays DEF SchemaInv
  <2>3. \A r \in Runners : Passed(r)'
    BY <2>1 DEF SchemaInv, Passed
  <2>4. \A s \in Starters : Served(s)'
    BY <2>1 DEF SchemaInv, Served
  <2> QED BY <2>1, <2>2, <2>3, <2>4 DEF SchemaInv
<1>2. CASE Schema!Next
  BY <1>2, RunnerLooks, RunnerApplies, ProcessStarts DEF Schema!Next
<1> QED BY <1>1, <1>2

\* Whatever runners of whatever releases do to the table of versions, in whatever order and
\* however often they die, the invariant holds (runInternalTrackerMigrations).
THEOREM SchemaInvariant == ASSUME SchemaConstants PROVE Schema!Spec => []SchemaInv
<1>1. Schema!Init => SchemaInv
  BY SchemaInit
<1>2. SchemaInv /\ [Schema!Next]_(Schema!vars) => SchemaInv'
  BY SchemaNext
<1> QED BY <1>1, <1>2, PTL DEF Schema!Spec

\* Each version of the schema takes effect once, a file is applied only behind those before
\* it, a runner that is done has its release applied as it is written, and a process starts
\* only where every version of its release took effect (assertInternalTrackerOperational).
THEOREM SchemaSound == ASSUME SchemaConstants PROVE Schema!Spec => [](Schema!SchemaIsSound)
<1>1. ASSUME SchemaInv PROVE Schema!OnceEach
  <2>1. /\ DOMAIN effects = 1..Len(effects)
        /\ \A i, j \in 1..Len(effects) : effects[i] = effects[j] => i = j
        /\ {effects[i] : i \in 1..Len(effects)} = {row.version : row \in applied}
    BY <1>1 DEF SchemaInv, OnRecord
  <2>2. DOMAIN Schema!Count = {effects[i] : i \in DOMAIN effects}
    BY DEF Schema!Count
  <2>3. ASSUME NEW v \in DOMAIN Schema!Count PROVE Schema!Count[v] = 1
    <3>1. PICK k \in 1..Len(effects) : v = effects[k]
      BY <2>1, <2>2, <2>3
    <3>2. {i \in DOMAIN effects : effects[i] = v} = {k}
      BY <2>1, <3>1
    <3>3. Schema!Count[v] = Schema!Cardinality({i \in DOMAIN effects : effects[i] = v})
      BY <2>2, <2>3 DEF Schema!Count
    <3>4. Schema!Cardinality({k}) = Cardinality({k})
      BY DEF Schema!Cardinality, Cardinality
    <3> QED BY <3>2, <3>3, <3>4, FS_Singleton
  <2> QED BY <2>1, <2>2, <2>3 DEF Schema!OnceEach, Schema!Versions
<1>2. ASSUME SchemaInv PROVE Schema!AppliedInOrder
  <2>1. SUFFICES ASSUME NEW r \in Runners
                 PROVE  /\ run[r].at = "done" => \A i \in DOMAIN Releases[r] : Releases[r][i] \in applied
                        /\ \A i \in 1..run[r].file - 1 : Releases[r][i].version \in Schema!Versions(applied)
    BY DEF Schema!AppliedInOrder
  <2>2. PICK d : d = run[r]
    OBVIOUS
  <2>3. PICK n : n = Len(Releases[r])
    OBVIOUS
  <2>4. n \in Nat /\ DOMAIN Releases[r] = 1..n
    BY <2>3 DEF SchemaConstants, IsRelease
  <2>5. /\ d.file \in Nat \ {0} /\ d.file <= n + 1 /\ (d.at = "done" => d.file > n)
        /\ \A i \in 1..n : i < d.file => Releases[r][i] \in applied
    BY <1>2, <2>2, <2>3 DEF SchemaInv, Passed
  <2>6. d.at = "done" => \A i \in 1..n : Releases[r][i] \in applied
    BY <2>4, <2>5
  <2>7. \A i \in 1..(d.file - 1) : i \in 1..n /\ i < d.file
    <3>1. PICK m : m = d.file
      OBVIOUS
    <3>2. m \in Nat \ {0} /\ m <= n + 1 /\ n \in Nat
      BY <2>4, <2>5, <3>1
    <3>3. \A i \in 1..(m - 1) : i \in 1..n /\ i < m
      BY <3>2
    <3> QED BY <3>1, <3>3
  <2>8. \A i \in 1..d.file - 1 : Releases[r][i] \in applied
    BY <2>5, <2>7
  <2> QED BY <2>2, <2>4, <2>6, <2>8 DEF Schema!Versions
<1>3. ASSUME SchemaInv PROVE Schema!StartsOnWholeSchema
  <2>1. SUFFICES ASSUME NEW s \in Starters, started[s] = "yes", NEW i \in DOMAIN Releases[s]
                 PROVE  Releases[s][i].version \in DOMAIN Schema!Count
    BY DEF Schema!StartsOnWholeSchema
  <2>2. i \in 1..Len(Releases[s])
    BY <2>1 DEF SchemaConstants, IsRelease
  <2>3. Releases[s][i].version \in {row.version : row \in applied}
    BY <1>3, <2>1, <2>2 DEF SchemaInv, Served
  <2>4. DOMAIN Schema!Count = {effects[j] : j \in 1..Len(effects)}
    BY <1>3 DEF Schema!Count, SchemaInv, OnRecord
  <2> QED BY <1>3, <2>3, <2>4 DEF SchemaInv, OnRecord
<1>4. SchemaInv => Schema!SchemaIsSound
  BY <1>1, <1>2, <1>3 DEF Schema!SchemaIsSound
<1> QED BY <1>4, SchemaInvariant, PTL
-----------------------------------------------------------------------------
(* The worker of direct mode *)

CONSTANTS NoIssue, Order, MaxFix, Subtasks, Verdicts, Commands, Moves, Reviews, Faults

VARIABLES state, says, branch

Direct == INSTANCE DirectWorker

\* People may set every status by hand but review, which is the worker's own.
DirectConstants ==
    /\ Order \in [Issues -> Nat] /\ MaxFix \in Nat /\ Subtasks \in Nat \ {0}
    /\ Verdicts \subseteq {"implement", "ask", "human", "decompose"}
    /\ Commands \subseteq {"resume", "cancel"}
    /\ Moves \subseteq Direct!LogicalStatus \ {"review"}

\* The stages of a first implementation, and those of work that ends with a push.
FirstStages ==
    {"opened", "analyzing", "resuming", "splitting", "creating", "noting", "coding", "looking",
     "judging", "amending", "rechecking", "opening", "linking"}
WorkStages == FirstStages \cup {"asking", "prompting", "checking", "committing", "pushing"}
Underway(c) == c.at \in {"moving", "telling"}

\* What the process relies on at a step of its cycle.
OnItsWay(c) ==
    /\ c.at \notin {"idle", "picking"} => c.issue \in Issues
    /\ c.goal.next \in {"idle", "analyzing", "coding", "fixing"}
    /\ c.at \in {"opened", "analyzing", "splitting"} \/ (Underway(c) /\ c.goal.next = "analyzing")
          => c.made = 0
    /\ c.at = "creating" => c.made < Subtasks
    /\ c.at \in FirstStages \/ (Underway(c) /\ c.goal.next \in {"analyzing", "coding"})
          => c.for = "task"
    /\ c.at \in {"fixing", "replying"} \/ (Underway(c) /\ c.goal.next = "fixing")
          => c.for = "review"
    /\ c.at = "moving" /\ c.goal.to = "review" => c.goal.next = "idle"

\* What it relies on of the issue: what is to be pushed has passed the gates, a review is on
\* record, and an issue that is first implemented is not in review.
HasPassed(c, i) == c.at \in {"judging", "committing", "pushing"} => branch[i].gated
Reviewing(c) ==
    \/ c.at = "inspecting"
    \/ c.for = "review" /\ c.at \notin {"idle", "picking"}
    \/ c.at = "moving" /\ c.goal.to = "review"
IsSaid(c, i) == Reviewing(c) => says[i].mr = "current"
Implementing(c) ==
    c.for = "task" /\ (c.at \in WorkStages \/ (c.at = "telling" /\ c.goal.next # "idle"))
IsInWork(c, i) == Implementing(c) => state[i] # "review"
Relies(c, i) == HasPassed(c, i) /\ IsSaid(c, i) /\ IsInWork(c, i)

DirectInv ==
    /\ Direct!TypeOK
    /\ OnItsWay(run) /\ Relies(run, run.issue)
    /\ Direct!ReviewIsOnRecord

LEMMA DirectInit == ASSUME DirectConstants, Direct!Init PROVE DirectInv
<1>1. Direct!TypeOK
  <2>1. run \in Direct!Run
    BY DEF Direct!Init, Direct!Doing, Direct!Nowhere, Direct!Run, Direct!Goal, Direct!Stages,
           Direct!LogicalStatus, DirectConstants
  <2>2. /\ state \in [Issues -> Direct!LogicalStatus]
        /\ branch \in [Issues -> Direct!Branch]
    BY DEF Direct!Init, Direct!Branch, Direct!LogicalStatus
  <2>3. says \in [Issues -> Direct!Comments]
    BY DEF Direct!Init, Direct!Comments, Direct!LogicalStatus
  <2> QED BY <2>1, <2>2, <2>3 DEF Direct!TypeOK
<1>2. run.at = "idle" /\ run.goal.next = "idle" /\ run.for = "task"
  BY DEF Direct!Init, Direct!Doing, Direct!Nowhere
<1>3. OnItsWay(run) /\ Relies(run, run.issue)
  BY <1>2 DEF OnItsWay, Relies, HasPassed, IsSaid, IsInWork, Reviewing, Implementing, Underway,
         FirstStages, WorkStages
<1>4. Direct!ReviewIsOnRecord
  BY DEF Direct!Init, Direct!ReviewIsOnRecord
<1> QED BY <1>1, <1>3, <1>4 DEF DirectInv

\* A step that leaves the issues alone.
LEMMA DirectQuiet ==
    ASSUME DirectInv, NEW c \in Direct!Run, run' = c, UNCHANGED <<state, says, branch>>,
           OnItsWay(c), Relies(c, c.issue)
    PROVE  DirectInv'
<1>1. Direct!TypeOK'
  BY DEF DirectInv, Direct!TypeOK
<1>2. Direct!ReviewIsOnRecord'
  BY DEF DirectInv, Direct!ReviewIsOnRecord
<1>3. OnItsWay(run)'
  BY DEF OnItsWay, Underway
<1>4. Relies(run, run.issue)'
  BY DEF Relies, HasPassed, IsSaid, IsInWork
<1> QED BY <1>1, <1>2, <1>3, <1>4 DEF DirectInv

LEMMA DirectIdles ==
    ASSUME DirectConstants, DirectInv, run' = Direct!Doing("idle"), UNCHANGED <<state, says, branch>>
    PROVE  DirectInv'
<1>1. PICK c : c = Direct!Doing("idle")
  OBVIOUS
<1>2. c \in Direct!Run /\ c.at = "idle" /\ c.goal.next = "idle" /\ c.for = "task"
  BY <1>1 DEF Direct!Doing, Direct!Nowhere, Direct!Run, Direct!Goal, Direct!Stages,
           Direct!LogicalStatus, DirectConstants
<1>3. OnItsWay(c) /\ Relies(c, c.issue)
  BY <1>2 DEF OnItsWay, Relies, HasPassed, IsSaid, IsInWork, Reviewing, Implementing, Underway,
         FirstStages, WorkStages
<1> QED BY <1>1, <1>2, <1>3, DirectQuiet

\* What the prover is to know of a record it has been given.
LEMMA DirectFields ==
    ASSUME DirectConstants, DirectInv
    PROVE  /\ run \in Direct!Run /\ run.goal \in Direct!Goal
           /\ run.made \in Nat /\ run.tries \in Nat /\ MaxFix \in Nat /\ Subtasks \in Nat \ {0}
           /\ OnItsWay(run) /\ Relies(run, run.issue)
<1>1. run \in Direct!Run
  BY DEF DirectInv, Direct!TypeOK
<1> QED BY <1>1 DEF DirectInv, Direct!Run, DirectConstants

\* The two ways in which the process goes on with the issue.
LEMMA DirectGo ==
    ASSUME DirectConstants, DirectInv, NEW at \in Direct!Stages, Direct!Go(at)
    PROVE  /\ run' \in Direct!Run /\ run'.at = at /\ run'.goal = run.goal /\ run'.for = run.for
           /\ run'.made = run.made /\ run'.issue = run.issue
BY DirectFields DEF Direct!Go, Direct!Run

LEMMA DirectHead ==
    ASSUME DirectConstants, DirectInv, NEW s \in Direct!LogicalStatus,
           NEW reason \in {"none", "clarification", "manual_hold", "failure_recovery"},
           NEW next \in Direct!Stages, Direct!Head(s, reason, next)
    PROVE  /\ run' \in Direct!Run /\ run'.at = "moving" /\ run'.for = run.for
           /\ run'.goal = [to |-> s, reason |-> reason, next |-> next]
           /\ run'.made = run.made /\ run'.issue = run.issue
<1>1. [to |-> s, reason |-> reason, next |-> next] \in Direct!Goal
  BY DEF Direct!Goal
<1>2. "moving" \in Direct!Stages
  BY DEF Direct!Stages
<1> QED BY <1>1, <1>2, DirectFields DEF Direct!Head, Direct!Run

\* A step of the process.
LEMMA DirectMoves ==
    ASSUME DirectInv, NEW c \in Direct!Run, run' = c, OnItsWay(c),
           state' \in [Issues -> Direct!LogicalStatus], says' \in [Issues -> Direct!Comments],
           branch' \in [Issues -> Direct!Branch],
           HasPassed(c, c.issue)', IsSaid(c, c.issue)', IsInWork(c, c.issue)',
           Direct!ReviewIsOnRecord'
    PROVE  DirectInv'
<1>1. Direct!TypeOK'
  BY DEF Direct!TypeOK
<1>2. OnItsWay(run)'
  BY DEF OnItsWay, Underway
<1>3. Relies(run, run.issue)'
  BY DEF Relies, HasPassed, IsSaid, IsInWork, Reviewing, Implementing
<1> QED BY <1>1, <1>2, <1>3 DEF DirectInv

\* A step that leaves the statuses and the comments alone.
LEMMA DirectBuilds ==
    ASSUME DirectInv, NEW c \in Direct!Run, run' = c, UNCHANGED <<state, says>>,
           branch' \in [Issues -> Direct!Branch],
           OnItsWay(c), HasPassed(c, c.issue)', IsSaid(c, c.issue), IsInWork(c, c.issue)
    PROVE  DirectInv'
<1>1. IsSaid(c, c.issue)' /\ IsInWork(c, c.issue)'
  BY DEF IsSaid, IsInWork
<1>2. Direct!ReviewIsOnRecord'
  BY DEF DirectInv, Direct!ReviewIsOnRecord
<1>3. state' \in [Issues -> Direct!LogicalStatus] /\ says' \in [Issues -> Direct!Comments]
  BY DEF DirectInv, Direct!TypeOK
<1> QED BY <1>1, <1>2, <1>3, DirectMoves

\* A step that writes comments, but not which merge request is on record.
LEMMA DirectWrites ==
    ASSUME DirectInv, NEW c \in Direct!Run, run' = c, UNCHANGED <<state, branch>>,
           says' \in [Issues -> Direct!Comments], \A i \in Issues : says'[i].mr = says[i].mr,
           OnItsWay(c), Relies(c, c.issue)
    PROVE  DirectInv'
<1>1. HasPassed(c, c.issue)' /\ IsInWork(c, c.issue)'
  BY DEF Relies, HasPassed, IsInWork
<1>2. IsSaid(c, c.issue)'
  <2>1. SUFFICES ASSUME Reviewing(c) PROVE says'[c.issue].mr = "current"
    BY DEF IsSaid
  <2>2. c.issue \in Issues
    BY <2>1 DEF OnItsWay, Reviewing
  <2> QED BY <2>1, <2>2 DEF Relies, IsSaid
<1>3. Direct!ReviewIsOnRecord'
  BY DEF DirectInv, Direct!ReviewIsOnRecord
<1>4. state' \in [Issues -> Direct!LogicalStatus] /\ branch' \in [Issues -> Direct!Branch]
  BY DEF DirectInv, Direct!TypeOK
<1> QED BY <1>1, <1>2, <1>3, <1>4, DirectMoves

\* The least of the issues by the order of the tracker.
LEMMA FirstIsOne ==
    ASSUME DirectConstants, NEW S \in SUBSET Issues, S # {}
    PROVE  Direct!First(S) \in S
<1>1. PICK m : m = Bridge!Least({Order[i] : i \in S})
  OBVIOUS
<1>2. {Order[i] : i \in S} \in SUBSET Nat /\ {Order[i] : i \in S} # {}
  BY DEF DirectConstants
<1>3. m \in {Order[i] : i \in S} /\ \A n \in {Order[i] : i \in S} : m <= n
  BY <1>1, <1>2, LeastIsOne
<1>4. PICK i \in S : m = Order[i]
  BY <1>3
<1>5. \A j \in S : Order[i] <= Order[j]
  BY <1>3, <1>4
<1> QED BY <1>5 DEF Direct!First

\* An issue is taken up as its status says.
LEMMA DirectTake ==
    ASSUME DirectConstants, DirectInv, NEW i \in Issues, Direct!Take(i),
           state[i] \in {"open", "in_progress", "waiting_for_answer", "review"},
           UNCHANGED <<state, says, branch>>
    PROVE  DirectInv'
<1>1. PICK at, heard : /\ at = Direct!Entry[state[i]]
                       /\ heard = (/\ state[i] = "waiting_for_answer"
                                   /\ says[i].asked /\ says[i].command = "resume")
  OBVIOUS
<1>2. PICK c : c = [Direct!Doing(at) EXCEPT !.issue = i, !.heard = heard]
  OBVIOUS
<1>3. run' = c
  BY <1>1, <1>2 DEF Direct!Take
<1>4. /\ at \in {"opened", "analyzing", "resuming", "inspecting"}
      /\ at = "inspecting" <=> state[i] = "review"
  BY <1>1 DEF Direct!Entry
<1>5. heard \in BOOLEAN
  BY <1>1
<1>6. Direct!Doing(at) \in Direct!Run
  BY <1>4 DEF Direct!Doing, Direct!Nowhere, Direct!Run, Direct!Goal, Direct!Stages,
              Direct!LogicalStatus, DirectConstants
<1>7. /\ c \in Direct!Run /\ c.issue = i /\ c.at = at /\ c.for = "task" /\ c.made = 0
      /\ c.goal = Direct!Nowhere
  BY <1>2, <1>5, <1>6 DEF Direct!Run, Direct!Doing
<1>8. OnItsWay(c)
  BY <1>4, <1>7 DEF OnItsWay, Underway, FirstStages, Direct!Nowhere
<1>9. state[i] = "review" => says[i].mr = "current"
  BY DEF DirectInv, Direct!ReviewIsOnRecord
<1>10. Relies(c, c.issue)
  BY <1>4, <1>7, <1>9 DEF Relies, HasPassed, IsSaid, IsInWork, Reviewing, Implementing,
         WorkStages, FirstStages
<1> QED BY <1>3, <1>7, <1>8, <1>10, DirectQuiet

LEMMA DirectChooses ==
    ASSUME DirectConstants, DirectInv, Direct!Choose PROVE DirectInv'
<1>1. CASE Direct!ResumeOwnedTask
  <2>1. PICK owned : owned = {i \in Issues : Direct!Owned(i)}
    OBVIOUS
  <2>2. CASE owned # {} /\ Direct!Take(Direct!First(owned))
    <3>1. Direct!First(owned) \in owned
      BY <2>1, <2>2, FirstIsOne
    <3>2. state[Direct!First(owned)] \in {"in_progress", "waiting_for_answer", "review"}
      BY <2>1, <3>1 DEF Direct!Owned
    <3>3. PICK i : i = Direct!First(owned)
      OBVIOUS
    <3> QED BY <1>1, <2>1, <2>2, <3>1, <3>2, <3>3, DirectTake DEF Direct!ResumeOwnedTask
  <2>3. CASE Direct!Go("picking")
    <3>1. PICK c : c = [run EXCEPT !.at = "picking"]
      OBVIOUS
    <3>2. c \in Direct!Run /\ c.at = "picking" /\ c.goal = run.goal
      BY <3>1, DirectFields DEF Direct!Run, Direct!Stages
    <3>3. OnItsWay(c) /\ Relies(c, c.issue)
      BY <3>2, DirectFields DEF OnItsWay, Relies, HasPassed, IsSaid, IsInWork, Reviewing,
             Implementing, Underway, FirstStages, WorkStages
    <3> QED BY <1>1, <2>3, <3>1, <3>2, <3>3, DirectQuiet DEF Direct!ResumeOwnedTask, Direct!Go
  <2> QED BY <1>1, <2>1, <2>2, <2>3 DEF Direct!ResumeOwnedTask
<1>2. CASE Direct!PickNextTask
  <2>1. PICK open : open = {i \in Issues : state[i] = "open"}
    OBVIOUS
  <2>2. CASE open # {} /\ Direct!Take(Direct!First(open))
    <3>1. Direct!First(open) \in open
      BY <2>1, <2>2, FirstIsOne
    <3>2. PICK i : i = Direct!First(open)
      OBVIOUS
    <3> QED BY <1>2, <2>1, <2>2, <3>1, <3>2, DirectTake DEF Direct!PickNextTask
  <2>3. CASE run' = Direct!Doing("idle")
    BY <1>2, <2>3, DirectIdles DEF Direct!PickNextTask
  <2> QED BY <1>2, <2>1, <2>2, <2>3 DEF Direct!PickNextTask
<1> QED BY <1>1, <1>2 DEF Direct!Choose

\* Steps that leave the issues alone.
LEMMA DirectLooks ==
    ASSUME DirectConstants, DirectInv, UNCHANGED <<state, says, branch>>,
           \/ Direct!Start \/ Direct!ResolveResumeContext \/ Direct!Split \/ Direct!CreateIssue
           \/ Direct!Look \/ Direct!Judge \/ Direct!PauseReview \/ Direct!InspectOpened
           \/ Direct!FinalizeFailure \/ Direct!Refuse \/ Direct!PermanentError
    PROVE  DirectInv'
<1> USE DEF HasPassed, IsSaid, IsInWork, Reviewing, Implementing, Underway, FirstStages, WorkStages
<1>1. PICK c : c = run'
  OBVIOUS
<1>2. run.at \notin {"idle", "picking"} => run.issue \in Issues
  BY DirectFields DEF OnItsWay
<1>3. SUFFICES ASSUME run' # Direct!Doing("idle")
               PROVE  c \in Direct!Run /\ OnItsWay(c) /\ Relies(c, c.issue)
  BY <1>1, DirectIdles, DirectQuiet
<1>4. CASE Direct!Start
  <2>1. /\ c \in Direct!Run /\ c.at = "moving" /\ c.for = run.for /\ c.made = run.made
        /\ c.goal = [to |-> "in_progress", reason |-> "none", next |-> "analyzing"]
        /\ c.issue = run.issue /\ run.at = "opened"
    BY <1>1, <1>4, DirectHead DEF Direct!Start, Direct!LogicalStatus, Direct!Stages
  <2> QED BY <1>2, <2>1, DirectFields DEF OnItsWay, Relies
<1>5. CASE Direct!ResolveResumeContext
  <2>1. /\ c \in Direct!Run /\ c.at = "moving" /\ c.for = run.for /\ c.made = run.made
        /\ c.goal = [to |-> "in_progress", reason |-> "none", next |-> "coding"]
        /\ c.issue = run.issue /\ run.at = "resuming"
    <3>1. PICK g : g = [to |-> "in_progress", reason |-> "none", next |-> "coding"]
      OBVIOUS
    <3>2. g \in Direct!Goal /\ "moving" \in Direct!Stages
      BY <3>1 DEF Direct!Goal, Direct!LogicalStatus, Direct!Stages
    <3>3. run' = [run EXCEPT !.at = "moving", !.heard = FALSE, !.goal = g] /\ run.at = "resuming"
      BY <1>3, <1>5, <3>1 DEF Direct!ResolveResumeContext
    <3> QED BY <1>1, <3>1, <3>2, <3>3, DirectFields DEF Direct!Run
  <2> QED BY <1>2, <2>1, DirectFields DEF OnItsWay, Relies
<1>6. CASE Direct!Hold /\ (Direct!Split \/ Direct!PauseReview)
  <2>1. /\ c \in Direct!Run /\ c.at = "moving" /\ c.for = run.for /\ c.made = run.made
        /\ c.goal = [to |-> "waiting_for_answer", reason |-> "manual_hold", next |-> "idle"]
        /\ c.issue = run.issue
    BY <1>1, <1>6, DirectHead DEF Direct!Hold, Direct!LogicalStatus, Direct!Stages
  <2>2. run.at \in {"splitting", "inspecting"}
    BY <1>6 DEF Direct!Split, Direct!PauseReview
  <2> QED BY <1>2, <2>1, <2>2, DirectFields DEF OnItsWay, Relies
<1>7. CASE Direct!Go("creating") /\ Direct!Split
  <2>1. /\ c \in Direct!Run /\ c.at = "creating" /\ c.goal = run.goal /\ c.for = run.for
        /\ c.made = run.made /\ c.issue = run.issue /\ run.at = "splitting"
    BY <1>1, <1>7, DirectGo DEF Direct!Split, Direct!Stages
  <2> QED BY <1>2, <2>1, DirectFields DEF OnItsWay, Relies
<1>8. CASE Direct!CreateIssue
  <2>1. /\ run.at = "creating" /\ run.made < Subtasks /\ run.made \in 0..Subtasks
    BY <1>8, DirectFields DEF Direct!CreateIssue, OnItsWay, Direct!Run
  <2>2. run.made + 1 \in 0..Subtasks /\ (run.made + 1 # Subtasks => run.made + 1 < Subtasks)
    BY <2>1, DirectFields
  <2>3. /\ c \in Direct!Run /\ c.goal = run.goal /\ c.for = run.for
        /\ c.made = run.made + 1 /\ c.issue = run.issue
        /\ c.at = IF run.made + 1 = Subtasks THEN "noting" ELSE "creating"
    BY <1>1, <1>8, <2>2, DirectFields DEF Direct!CreateIssue, Direct!Run, Direct!Stages
  <2> QED BY <1>2, <2>1, <2>2, <2>3, DirectFields DEF OnItsWay, Relies
<1>9. CASE Direct!Look
  <2>1. /\ c \in Direct!Run /\ c.at \in {"linking", "checking", "prompting"} /\ c.goal = run.goal
        /\ c.for = run.for /\ c.made = run.made /\ c.issue = run.issue /\ run.at = "looking"
    BY <1>1, <1>9, DirectFields DEF Direct!Look, Direct!Run, Direct!Stages
  <2> QED BY <1>2, <2>1, DirectFields DEF OnItsWay, Relies
<1>10. CASE Direct!Judge
  <2>1. /\ c \in Direct!Run /\ c.at \in {"committing", "amending", "failing"} /\ c.goal = run.goal
        /\ c.for = run.for /\ c.made = run.made /\ c.issue = run.issue /\ run.at = "judging"
    <3>1. CASE Direct!Go("committing") \/ Direct!Go("failing")
      BY <1>1, <1>10, <3>1, DirectGo DEF Direct!Judge, Direct!Stages
    <3>2. CASE Direct!TriesLeft /\ run' = [run EXCEPT !.tries = @ + 1, !.at = "amending"]
      <4>1. run.tries + 1 \in 0..MaxFix
        BY <3>2, DirectFields DEF Direct!TriesLeft
      <4> QED BY <1>1, <1>10, <3>2, <4>1, DirectFields DEF Direct!Judge, Direct!Run, Direct!Stages
    <3> QED BY <1>10, <3>1, <3>2 DEF Direct!Judge
  <2> QED BY <1>2, <2>1, DirectFields DEF OnItsWay, Relies
<1>11. CASE Direct!InspectOpened
  <2>1. CASE Direct!Go("picking")
    <3>1. c \in Direct!Run /\ c.at = "picking" /\ c.goal = run.goal
      BY <1>1, <2>1, DirectGo DEF Direct!Stages
    <3> QED BY <3>1, DirectFields DEF OnItsWay, Relies
  <2>2. CASE ~Direct!Go("picking")
    <3>1. /\ c \in Direct!Run /\ c.at = "moving" /\ c.for = "review"
          /\ c.goal = [to |-> "in_progress", reason |-> "none", next |-> "fixing"]
          /\ c.made = run.made /\ c.issue = run.issue /\ run.at = "inspecting"
      <4>1. PICK g : g = [to |-> "in_progress", reason |-> "none", next |-> "fixing"]
        OBVIOUS
      <4>2. g \in Direct!Goal /\ "moving" \in Direct!Stages
        BY <4>1 DEF Direct!Goal, Direct!LogicalStatus, Direct!Stages
      <4>3. /\ run' = [run EXCEPT !.at = "moving", !.for = "review", !.tries = 0, !.goal = g]
            /\ run.at = "inspecting"
        BY <1>11, <2>2, <4>1 DEF Direct!InspectOpened
      <4>4. 0 \in 0..MaxFix /\ "review" \in {"task", "review"}
        BY DirectFields
      <4>5. c \in Direct!Run
        BY <1>1, <4>2, <4>3, <4>4, DirectFields DEF Direct!Run
      <4>6. c.at = "moving" /\ c.for = "review" /\ c.goal = g /\ c.made = run.made /\ c.issue = run.issue
        BY <1>1, <4>3, DirectFields DEF Direct!Run
      <4> QED BY <4>1, <4>3, <4>5, <4>6
    <3> QED BY <1>2, <3>1, DirectFields DEF OnItsWay, Relies
  <2> QED BY <2>1, <2>2
<1>12. CASE Direct!Head("failed", "none", "idle") \/ Direct!Head("waiting_for_answer", "failure_recovery", "idle")
  <2>1. CASE run.at \notin {"idle", "picking"}
    <3>1. /\ c \in Direct!Run /\ c.at = "moving" /\ c.for = run.for /\ c.made = run.made
          /\ c.goal.to # "review" /\ c.goal.next = "idle" /\ c.issue = run.issue
      <4>1. CASE Direct!Head("failed", "none", "idle")
        <5>1. /\ c \in Direct!Run /\ c.at = "moving" /\ c.for = run.for /\ c.made = run.made
              /\ c.goal = [to |-> "failed", reason |-> "none", next |-> "idle"]
              /\ c.issue = run.issue
          BY <1>1, <4>1, DirectHead DEF Direct!LogicalStatus, Direct!Stages
        <5> QED BY <5>1
      <4>2. CASE Direct!Head("waiting_for_answer", "failure_recovery", "idle")
        <5>1. /\ c \in Direct!Run /\ c.at = "moving" /\ c.for = run.for /\ c.made = run.made
              /\ c.goal = [to |-> "waiting_for_answer", reason |-> "failure_recovery", next |-> "idle"]
              /\ c.issue = run.issue
          BY <1>1, <4>2, DirectHead DEF Direct!LogicalStatus, Direct!Stages
        <5> QED BY <5>1
      <4> QED BY <1>12, <4>1, <4>2
    <3> QED BY <1>2, <2>1, <3>1, DirectFields DEF OnItsWay, Relies
  <2>2. CASE run.at \in {"idle", "picking"}
    BY <2>2 DEF Direct!Start, Direct!ResolveResumeContext, Direct!Split, Direct!CreateIssue,
                Direct!Look, Direct!Judge, Direct!PauseReview, Direct!InspectOpened,
                Direct!FinalizeFailure, Direct!Refuse, Direct!PermanentError
  <2> QED BY <2>1, <2>2
<1>13. CASE Direct!Go("failing")
  <2>1. /\ c \in Direct!Run /\ c.at = "failing" /\ c.goal = run.goal /\ c.for = run.for
        /\ c.made = run.made /\ c.issue = run.issue
    BY <1>1, <1>13, DirectGo DEF Direct!Stages
  <2>2. run.at \notin {"idle", "picking"}
    BY DEF Direct!Start, Direct!ResolveResumeContext, Direct!Split, Direct!CreateIssue,
                Direct!Look, Direct!Judge, Direct!PauseReview, Direct!InspectOpened,
                Direct!FinalizeFailure, Direct!Refuse, Direct!PermanentError
  <2> QED BY <1>2, <2>1, <2>2, DirectFields DEF OnItsWay, Relies
<1> QED BY <1>3, <1>4, <1>5, <1>6, <1>7, <1>8, <1>9, <1>10, <1>11, <1>12, <1>13
        DEF Direct!Split, Direct!PauseReview, Direct!FinalizeFailure, Direct!Refuse,
               Direct!PermanentError

\* Steps that write comments.
LEMMA DirectTells ==
    ASSUME DirectConstants, DirectInv,
           \/ Direct!Tell \/ Direct!Analyze \/ Direct!Ask \/ Direct!NoteChildren
           \/ Direct!FinalizeMerged
    PROVE  DirectInv'
<1> USE DEF HasPassed, IsSaid, IsInWork, Reviewing, Implementing, Underway, FirstStages, WorkStages
<1>1. PICK c, i : c = run' /\ i = run.issue
  OBVIOUS
<1>2. /\ UNCHANGED <<state, branch>>
      /\ run.at \in {"telling", "analyzing", "asking", "noting", "inspecting"}
  BY DEF Direct!Tell, Direct!Analyze, Direct!Ask, Direct!NoteChildren, Direct!FinalizeMerged
<1>3. i \in Issues
  BY <1>1, <1>2, DirectFields DEF OnItsWay
<1>4. says' \in [Issues -> Direct!Comments] /\ \A j \in Issues : says'[j].mr = says[j].mr
  <2>1. says \in [Issues -> Direct!Comments] /\ says[i] \in Direct!Comments /\ run.goal \in Direct!Goal
    BY <1>3, DirectFields DEF DirectInv, Direct!TypeOK
  <2>2. PICK x : x \in Direct!Comments /\ x.mr = says[i].mr /\ says' = [says EXCEPT ![i] = x]
    <3>1. CASE Direct!Tell
      <4>1. PICK x : x = [says[i] EXCEPT !.status = run.goal.to, !.reason = run.goal.reason]
        OBVIOUS
      <4>2. x \in Direct!Comments /\ x.mr = says[i].mr
        BY <2>1, <4>1 DEF Direct!Comments, Direct!Goal
      <4>3. says' = [says EXCEPT ![i] = x]
        BY <1>1, <2>1, <3>1, <4>1 DEF Direct!Tell
      <4> QED BY <4>2, <4>3
    <3>2. CASE UNCHANGED says
      BY <2>1, <3>2
    <3>3. CASE \E v \in Verdicts : says' = [says EXCEPT ![i].decision = v]
      <4>1. PICK v \in Verdicts : says' = [says EXCEPT ![i].decision = v]
        BY <3>3
      <4>2. PICK x : x = [says[i] EXCEPT !.decision = v]
        OBVIOUS
      <4>3. x \in Direct!Comments /\ x.mr = says[i].mr
        BY <2>1, <4>2 DEF Direct!Comments, DirectConstants
      <4> QED BY <4>1, <4>2, <4>3
    <3>4. CASE Direct!Ask
      <4>1. PICK x : x = [says[i] EXCEPT !.asked = TRUE, !.command = "none"]
        OBVIOUS
      <4>2. x \in Direct!Comments /\ x.mr = says[i].mr
        BY <2>1, <4>1 DEF Direct!Comments
      <4>3. says' = [says EXCEPT ![i] = x]
        BY <1>1, <2>1, <3>4, <4>1 DEF Direct!Ask
      <4> QED BY <4>2, <4>3
    <3>5. CASE Direct!NoteChildren
      <4>1. PICK x : x = [says[i] EXCEPT !.split = TRUE]
        OBVIOUS
      <4>2. x \in Direct!Comments /\ x.mr = says[i].mr
        BY <2>1, <4>1 DEF Direct!Comments
      <4>3. says' = [says EXCEPT ![i] = x]
        BY <1>1, <2>1, <3>5, <4>1 DEF Direct!NoteChildren
      <4> QED BY <4>2, <4>3
    <3>6. CASE says' = [says EXCEPT ![i].noticed = TRUE, ![i].status = "review", ![i].reason = "none"]
      <4>1. PICK x : x = [says[i] EXCEPT !.noticed = TRUE, !.status = "review", !.reason = "none"]
        OBVIOUS
      <4>2. x \in Direct!Comments /\ x.mr = says[i].mr
        BY <2>1, <4>1 DEF Direct!Comments, Direct!LogicalStatus
      <4>3. says' = [says EXCEPT ![i] = x]
        BY <2>1, <3>6, <4>1
      <4> QED BY <4>2, <4>3
    <3> QED BY <1>1, <3>1, <3>2, <3>3, <3>4, <3>5, <3>6 DEF Direct!Analyze, Direct!FinalizeMerged
  <2> QED BY <1>3, <2>1, <2>2
<1>5. CASE run' = Direct!Doing("idle")
  <2>1. c \in Direct!Run /\ c.at = "idle" /\ c.goal.next = "idle" /\ c.for = "task"
    BY <1>1, <1>5 DEF Direct!Doing, Direct!Nowhere, Direct!Run, Direct!Goal, Direct!Stages,
           Direct!LogicalStatus, DirectConstants
  <2>2. OnItsWay(c) /\ Relies(c, c.issue)
    BY <2>1 DEF OnItsWay, Relies
  <2> QED BY <1>1, <1>2, <1>4, <2>1, <2>2, DirectWrites
<1>6. SUFFICES ASSUME ~(run' = Direct!Doing("idle"))
               PROVE  c \in Direct!Run /\ OnItsWay(c) /\ Relies(c, c.issue)
  BY <1>1, <1>2, <1>4, <1>5, DirectWrites
<1>7. CASE Direct!Tell
  <2>1. /\ run.at = "telling" /\ run' = [run EXCEPT !.at = run.goal.next, !.goal = Direct!Nowhere]
        /\ Direct!Nowhere \in Direct!Goal /\ run.goal.next \in Direct!Stages
    BY <1>7, DirectFields DEF Direct!Tell, Direct!Nowhere, Direct!Goal, Direct!LogicalStatus,
           Direct!Stages
  <2>2. /\ c \in Direct!Run /\ c.at = run.goal.next /\ c.for = run.for /\ c.made = run.made
        /\ c.goal = Direct!Nowhere /\ c.issue = run.issue
    BY <1>1, <2>1, DirectFields DEF Direct!Run
  <2>3. Direct!Nowhere.next = "idle" /\ Direct!Nowhere.to = "open"
    BY DEF Direct!Nowhere
  <2> QED BY <1>1, <1>3, <2>1, <2>2, <2>3, DirectFields DEF OnItsWay, Relies
<1>8. CASE run.at = "analyzing" /\ (Direct!Go("coding") \/ Direct!Go("asking") \/ Direct!Go("splitting"))
  <2>1. /\ c \in Direct!Run /\ c.at \in {"coding", "asking", "splitting"} /\ c.goal = run.goal
        /\ c.for = run.for /\ c.made = run.made /\ c.issue = run.issue
    <3>1. {"coding", "asking", "splitting"} \subseteq Direct!Stages
      BY DEF Direct!Stages
    <3> QED BY <1>1, <1>8, <3>1, DirectGo
  <2> QED BY <1>1, <1>3, <1>8, <2>1, DirectFields DEF OnItsWay, Relies
<1>9. CASE Direct!Hold \/ Direct!Head("waiting_for_answer", "clarification", "idle")
  <2>1. /\ c \in Direct!Run /\ c.at = "moving" /\ c.for = run.for /\ c.made = run.made
        /\ c.goal.to # "review" /\ c.goal.next = "idle" /\ c.issue = run.issue
    <3>1. CASE Direct!Hold
      <4>1. /\ c \in Direct!Run /\ c.at = "moving" /\ c.for = run.for /\ c.made = run.made
            /\ c.goal = [to |-> "waiting_for_answer", reason |-> "manual_hold", next |-> "idle"]
            /\ c.issue = run.issue
        BY <1>1, <3>1, DirectHead DEF Direct!Hold, Direct!LogicalStatus, Direct!Stages
      <4> QED BY <4>1
    <3>2. CASE Direct!Head("waiting_for_answer", "clarification", "idle")
      <4>1. /\ c \in Direct!Run /\ c.at = "moving" /\ c.for = run.for /\ c.made = run.made
            /\ c.goal = [to |-> "waiting_for_answer", reason |-> "clarification", next |-> "idle"]
            /\ c.issue = run.issue
        BY <1>1, <3>2, DirectHead DEF Direct!LogicalStatus, Direct!Stages
      <4> QED BY <4>1
    <3> QED BY <1>9, <3>1, <3>2
  <2> QED BY <1>1, <1>2, <1>3, <2>1, DirectFields DEF OnItsWay, Relies
<1>10. CASE Direct!Go("picking")
  <2>1. c \in Direct!Run /\ c.at = "picking" /\ c.goal = run.goal
    BY <1>1, <1>10, DirectGo DEF Direct!Stages
  <2> QED BY <2>1, DirectFields DEF OnItsWay, Relies
<1> QED BY <1>6, <1>7, <1>8, <1>9, <1>10
        DEF Direct!Analyze, Direct!Follow, Direct!Ask, Direct!NoteChildren, Direct!FinalizeMerged

\* Steps that change the branch of the issue at hand: what Codex wrote has not passed the gates.
LEMMA DirectBranches ==
    ASSUME DirectInv, run.issue \in Issues, NEW x \in Direct!Branch,
           branch' = [branch EXCEPT ![run.issue] = x], UNCHANGED <<state, says>>,
           NEW c \in Direct!Run, run' = c, c.issue = run.issue, OnItsWay(c),
           IsSaid(c, c.issue), IsInWork(c, c.issue),
           c.at \in {"judging", "committing", "pushing"} => x.gated
    PROVE  DirectInv'
<1>1. branch \in [Issues -> Direct!Branch]
  BY DEF DirectInv, Direct!TypeOK
<1>2. branch' \in [Issues -> Direct!Branch] /\ branch'[c.issue] = x
  BY <1>1
<1>3. HasPassed(c, c.issue)'
  BY <1>2 DEF HasPassed
<1> QED BY <1>2, <1>3, DirectBuilds

LEMMA DirectChecksOut ==
    ASSUME DirectConstants, DirectInv, Direct!Checkout \/ Direct!Prompt
    PROVE  DirectInv'
<1> USE DEF HasPassed, IsSaid, IsInWork, Reviewing, Implementing, Underway, FirstStages, WorkStages
<1>1. PICK c, i : c = run' /\ i = run.issue
  OBVIOUS
<1>2. UNCHANGED <<state, says>> /\ run.at \in {"coding", "fixing", "prompting", "amending"}
  BY DEF Direct!Checkout, Direct!Prompt
<1>3. i \in Issues
  BY <1>1, <1>2, DirectFields DEF OnItsWay
<1>4. branch \in [Issues -> Direct!Branch] /\ branch[i] \in Direct!Branch
  BY <1>3 DEF DirectInv, Direct!TypeOK
<1>5. PICK at \in {"failing", "looking", "prompting", "rechecking", "checking", "asking"} :
        /\ Direct!Go(at)
        /\ run.at = "coding" => at \in {"failing", "looking"}
        /\ run.at = "fixing" => at \in {"failing", "prompting"}
        /\ run.at = "prompting" => at \in {"checking", "asking"}
        /\ run.at = "amending" => at \in {"rechecking", "asking"}
  BY DEF Direct!Checkout, Direct!Prompt
<1>6. /\ c \in Direct!Run /\ c.at = at /\ c.goal = run.goal /\ c.for = run.for
      /\ c.made = run.made /\ c.issue = run.issue
  BY <1>1, <1>5, DirectGo DEF Direct!Stages
<1>7. OnItsWay(c) /\ IsSaid(c, c.issue) /\ IsInWork(c, c.issue)
  BY <1>1, <1>2, <1>3, <1>5, <1>6, DirectFields DEF OnItsWay, Relies
<1>8. PICK x \in Direct!Branch : branch' = [branch EXCEPT ![i] = x]
  <2>1. CASE UNCHANGED branch
    BY <1>4, <2>1
  <2>2. CASE branch' = [branch EXCEPT ![i].ahead = "no"]
    <3>1. PICK x : x = [branch[i] EXCEPT !.ahead = "no"]
      OBVIOUS
    <3>2. x \in Direct!Branch
      BY <1>4, <3>1 DEF Direct!Branch
    <3> QED BY <2>2, <3>1, <3>2
  <2>3. CASE branch' = [branch EXCEPT ![i].dirty = TRUE, ![i].gated = FALSE]
    <3>1. PICK x : x = [branch[i] EXCEPT !.dirty = TRUE, !.gated = FALSE]
      OBVIOUS
    <3>2. x \in Direct!Branch
      BY <1>4, <3>1 DEF Direct!Branch
    <3>3. branch' = [branch EXCEPT ![i] = x]
      BY <1>3, <1>4, <2>3, <3>1
    <3> QED BY <3>2, <3>3
  <2> QED BY <1>1, <2>1, <2>2, <2>3 DEF Direct!Checkout, Direct!Prompt
<1>9. c.at \notin {"judging", "committing", "pushing"}
  BY <1>5, <1>6
<1> QED BY <1>1, <1>2, <1>3, <1>6, <1>7, <1>8, <1>9, DirectBranches

\* Only gates that pass lead on.
LEMMA DirectChecks ==
    ASSUME DirectConstants, DirectInv, Direct!Check \/ Direct!Recheck
    PROVE  DirectInv'
<1> USE DEF HasPassed, IsSaid, IsInWork, Reviewing, Implementing, Underway, FirstStages, WorkStages
<1>1. PICK c, i : c = run' /\ i = run.issue
  OBVIOUS
<1>2. UNCHANGED <<state, says>> /\ run.at \in {"checking", "rechecking"}
  BY DEF Direct!Check, Direct!Recheck
<1>3. i \in Issues
  BY <1>1, <1>2, DirectFields DEF OnItsWay
<1>4. branch \in [Issues -> Direct!Branch] /\ branch[i] \in Direct!Branch
  BY <1>3 DEF DirectInv, Direct!TypeOK
<1>5. PICK passed \in BOOLEAN : branch' = [branch EXCEPT ![i].gated = passed]
                                /\ (passed <=> branch' = [branch EXCEPT ![i].gated = TRUE])
  <2>1. [branch EXCEPT ![i].gated = FALSE] # [branch EXCEPT ![i].gated = TRUE]
    <3>1. [branch EXCEPT ![i].gated = FALSE][i].gated = FALSE
      BY <1>3, <1>4 DEF Direct!Branch
    <3>2. [branch EXCEPT ![i].gated = TRUE][i].gated = TRUE
      BY <1>3, <1>4 DEF Direct!Branch
    <3> QED BY <3>1, <3>2
  <2>2. CASE branch' = [branch EXCEPT ![i].gated = TRUE]
    BY <2>2
  <2>3. CASE branch' = [branch EXCEPT ![i].gated = FALSE]
    BY <2>1, <2>3
  <2> QED BY <1>1, <2>2, <2>3 DEF Direct!Check, Direct!Recheck
<1>6. PICK x : x = [branch[i] EXCEPT !.gated = passed]
  OBVIOUS
<1>7. x \in Direct!Branch /\ x.gated = passed /\ branch' = [branch EXCEPT ![i] = x]
  BY <1>4, <1>5, <1>6 DEF Direct!Branch
<1>8. /\ c \in Direct!Run /\ c.goal = run.goal /\ c.for = run.for
      /\ c.made = run.made /\ c.issue = run.issue
      /\ c.at \in {"judging", "committing", "prompting", "failing"}
      /\ c.at = "judging" => run.for = "task" \/ run.at = "rechecking"
      /\ c.at \in {"judging", "committing"} => passed
  <2>1. CASE /\ branch' = [branch EXCEPT ![i].gated = TRUE]
             /\ run' = [run EXCEPT !.tries = 0, !.at = IF run.for = "task" THEN "judging" ELSE "committing"]
    <3>1. PICK at : at = IF run.for = "task" THEN "judging" ELSE "committing"
      OBVIOUS
    <3>2. run' = [run EXCEPT !.tries = 0, !.at = at] /\ at \in Direct!Stages /\ 0 \in 0..MaxFix
      BY <2>1, <3>1, DirectFields DEF Direct!Stages
    <3>3. /\ c \in Direct!Run /\ c.goal = run.goal /\ c.for = run.for
          /\ c.made = run.made /\ c.issue = run.issue /\ c.at = at
      BY <1>1, <3>2, DirectFields DEF Direct!Run
    <3> QED BY <1>5, <2>1, <3>1, <3>3
  <2>2. CASE Direct!TriesLeft /\ run' = [run EXCEPT !.tries = @ + 1, !.at = "prompting"]
    <3>1. run.tries + 1 \in 0..MaxFix
      BY <2>2, DirectFields DEF Direct!TriesLeft
    <3> QED BY <1>1, <2>2, <3>1, DirectFields DEF Direct!Run, Direct!Stages
  <2>3. CASE Direct!Go("failing")
    BY <1>1, <2>3, DirectGo DEF Direct!Stages
  <2>4. CASE run.at = "rechecking" /\ branch' = [branch EXCEPT ![i].gated = TRUE] /\ Direct!Go("judging")
    BY <1>1, <1>5, <2>4, DirectGo DEF Direct!Stages
  <2> QED BY <1>1, <2>1, <2>2, <2>3, <2>4 DEF Direct!Check, Direct!Recheck
<1>9. OnItsWay(c) /\ IsSaid(c, c.issue) /\ IsInWork(c, c.issue)
  BY <1>1, <1>2, <1>3, <1>8, DirectFields DEF OnItsWay, Relies
<1> QED BY <1>1, <1>2, <1>3, <1>7, <1>8, <1>9, DirectBranches

LEMMA DirectPublishes ==
    ASSUME DirectConstants, DirectInv, Direct!Commit \/ Direct!Push \/ Direct!Reply
    PROVE  DirectInv'
<1> USE DEF HasPassed, IsSaid, IsInWork, Reviewing, Implementing, Underway, FirstStages, WorkStages
<1>1. PICK c, i : c = run' /\ i = run.issue
  OBVIOUS
<1>2. UNCHANGED <<state, says>> /\ run.at \in {"committing", "pushing", "replying"}
  BY DEF Direct!Commit, Direct!Push, Direct!Reply
<1>3. i \in Issues
  BY <1>1, <1>2, DirectFields DEF OnItsWay
<1>4. branch \in [Issues -> Direct!Branch] /\ branch[i] \in Direct!Branch
  BY <1>3 DEF DirectInv, Direct!TypeOK
<1>5. CASE Direct!Commit \/ Direct!Push
  <2>1. PICK at \in {"pushing", "failing", "opening", "replying"} :
          /\ Direct!Go(at)
          /\ run.at = "committing" => at \in {"pushing", "failing"}
          /\ run.at = "pushing" => at = IF run.for = "task" THEN "opening" ELSE "replying"
    BY <1>5 DEF Direct!Commit, Direct!Push
  <2>2. /\ c \in Direct!Run /\ c.at = at /\ c.goal = run.goal /\ c.for = run.for
        /\ c.made = run.made /\ c.issue = run.issue
    BY <1>1, <2>1, DirectGo DEF Direct!Stages
  <2>3. run.for \in {"task", "review"}
    BY DirectFields DEF Direct!Run
  <2>4. OnItsWay(c) /\ IsSaid(c, c.issue) /\ IsInWork(c, c.issue)
    BY <1>1, <1>2, <1>3, <1>5, <2>1, <2>2, <2>3, DirectFields DEF Direct!Commit, Direct!Push,
           OnItsWay, Relies
  <2>5. PICK x \in Direct!Branch : branch' = [branch EXCEPT ![i] = x] /\ x.gated = branch[i].gated
    <3>1. CASE UNCHANGED branch
      BY <1>4, <3>1
    <3>2. CASE branch' = [branch EXCEPT ![i].dirty = FALSE, ![i].ahead = "local"]
      <4>1. PICK x : x = [branch[i] EXCEPT !.dirty = FALSE, !.ahead = "local"]
        OBVIOUS
      <4>2. x \in Direct!Branch /\ x.gated = branch[i].gated
        BY <1>4, <4>1 DEF Direct!Branch
      <4>3. branch' = [branch EXCEPT ![i] = x]
        BY <1>3, <1>4, <3>2, <4>1
      <4> QED BY <4>2, <4>3
    <3>3. CASE branch' = [branch EXCEPT ![i].ahead = "pushed"]
      <4>1. PICK x : x = [branch[i] EXCEPT !.ahead = "pushed"]
        OBVIOUS
      <4>2. x \in Direct!Branch /\ x.gated = branch[i].gated
        BY <1>4, <4>1 DEF Direct!Branch
      <4> QED BY <3>3, <4>1, <4>2
    <3> QED BY <1>1, <1>5, <3>1, <3>2, <3>3 DEF Direct!Commit, Direct!Push
  <2>6. c.at \in {"judging", "committing", "pushing"} => x.gated
    <3>1. c.at = "pushing" => run.at = "committing"
      <4>1. run.at \in {"committing", "pushing"}
        BY <1>5 DEF Direct!Commit, Direct!Push
      <4> QED BY <2>1, <2>2, <4>1
    <3>2. run.at = "committing" => branch[i].gated
      BY <1>1, DirectFields DEF Relies, HasPassed
    <3>3. c.at \in {"judging", "committing", "pushing"} => c.at = "pushing"
      BY <2>1, <2>2
    <3> QED BY <2>5, <3>1, <3>2, <3>3
  <2> QED BY <1>1, <1>2, <1>3, <2>2, <2>4, <2>5, <2>6, DirectBranches
<1>6. CASE Direct!Reply
  <2>1. PICK p : p = IF branch[i].pending = "again" THEN "yes" ELSE "no"
    OBVIOUS
  <2>2. PICK x : x = [branch[i] EXCEPT !.pending = p]
    OBVIOUS
  <2>3. x \in Direct!Branch /\ branch' = [branch EXCEPT ![i] = x] /\ run.at = "replying"
    BY <1>1, <1>4, <1>6, <2>1, <2>2 DEF Direct!Reply, Direct!Branch
  <2>4. /\ c \in Direct!Run /\ c.at = "moving" /\ c.for = run.for /\ c.made = run.made
        /\ c.goal = [to |-> "review", reason |-> "none", next |-> "idle"]
        /\ c.issue = run.issue
    BY <1>1, <1>6, DirectHead DEF Direct!Reply, Direct!Ready, Direct!LogicalStatus, Direct!Stages
  <2>5. OnItsWay(c) /\ IsSaid(c, c.issue) /\ IsInWork(c, c.issue)
    BY <1>1, <1>3, <2>3, <2>4, DirectFields DEF OnItsWay, Relies
  <2> QED BY <1>1, <1>2, <1>3, <2>3, <2>4, <2>5, DirectBranches
<1> QED BY <1>5, <1>6

\* A transition: to review only what is on record.
LEMMA DirectTurns ==
    ASSUME DirectConstants, DirectInv, Direct!Turn
    PROVE  DirectInv'
<1>1. PICK c, i, s : c = run' /\ i = run.issue /\ s = run.goal.to
  OBVIOUS
<1>2. /\ run.at = "moving" /\ state' = [state EXCEPT ![i] = s] /\ Direct!Go("telling")
      /\ UNCHANGED <<says, branch>>
  BY <1>1 DEF Direct!Turn
<1>3. i \in Issues /\ s \in Direct!LogicalStatus
  BY <1>1, <1>2, DirectFields DEF OnItsWay, Direct!Goal
<1>4. /\ c \in Direct!Run /\ c.at = "telling" /\ c.goal = run.goal /\ c.for = run.for
      /\ c.made = run.made /\ c.issue = run.issue
  BY <1>1, <1>2, DirectGo DEF Direct!Stages
<1>5. s = "review" => run.goal.next = "idle" /\ says[i].mr = "current"
  BY <1>1, <1>2, DirectFields DEF OnItsWay, Relies, IsSaid, Reviewing
<1>6. OnItsWay(c)
  BY <1>1, <1>2, <1>3, <1>4, DirectFields DEF OnItsWay, Underway, FirstStages
<1>7. state \in [Issues -> Direct!LogicalStatus]
  BY DEF DirectInv, Direct!TypeOK
<1>8. /\ state' \in [Issues -> Direct!LogicalStatus] /\ state'[i] = s
      /\ \A j \in Issues \ {i} : state'[j] = state[j]
  BY <1>2, <1>3, <1>7
<1>9. says' \in [Issues -> Direct!Comments] /\ branch' \in [Issues -> Direct!Branch]
  BY <1>2 DEF DirectInv, Direct!TypeOK
<1>10. Direct!ReviewIsOnRecord'
  <2>1. \A j \in Issues : state[j] = "review" => says[j].mr = "current"
    BY DEF DirectInv, Direct!ReviewIsOnRecord
  <2>2. \A j \in Issues : state'[j] = "review" => says'[j].mr = "current"
    BY <1>2, <1>5, <1>8, <2>1
  <2> QED BY <2>2 DEF Direct!ReviewIsOnRecord
<1>11. HasPassed(c, c.issue)'
  BY <1>4 DEF HasPassed
<1>12. IsSaid(c, c.issue)'
  BY <1>2, <1>4, DirectFields DEF IsSaid, Reviewing, Relies
<1>13. IsInWork(c, c.issue)'
  BY <1>1, <1>4, <1>5, <1>8 DEF IsInWork, Implementing, WorkStages, FirstStages
<1> QED BY <1>1, <1>4, <1>6, <1>8, <1>9, <1>10, <1>11, <1>12, <1>13, DirectMoves

\* A new merge request is not on record until the comment names it.
LEMMA DirectOpens ==
    ASSUME DirectConstants, DirectInv, Direct!Open
    PROVE  DirectInv'
<1>1. PICK c, i : c = run' /\ i = run.issue
  OBVIOUS
<1>2. run.at = "opening" /\ Direct!Go("linking") /\ UNCHANGED state
  BY DEF Direct!Open
<1>3. i \in Issues /\ run.for = "task" /\ state[i] # "review"
  BY <1>1, <1>2, DirectFields
     DEF OnItsWay, Relies, IsInWork, Implementing, WorkStages, FirstStages
<1>4. /\ c \in Direct!Run /\ c.at = "linking" /\ c.goal = run.goal /\ c.for = run.for
      /\ c.made = run.made /\ c.issue = run.issue
  BY <1>1, <1>2, DirectGo DEF Direct!Stages
<1>5. OnItsWay(c)
  BY <1>1, <1>3, <1>4, DirectFields DEF OnItsWay, Underway, FirstStages
<1>6. /\ says \in [Issues -> Direct!Comments] /\ says[i] \in Direct!Comments
      /\ branch \in [Issues -> Direct!Branch] /\ branch[i] \in Direct!Branch
      /\ state' \in [Issues -> Direct!LogicalStatus]
  BY <1>2, <1>3 DEF DirectInv, Direct!TypeOK
<1>7. /\ says' \in [Issues -> Direct!Comments] /\ branch' \in [Issues -> Direct!Branch]
      /\ \A j \in Issues \ {i} : says'[j] = says[j]
  <2>1. CASE UNCHANGED <<branch, says>>
    BY <1>6, <2>1
  <2>2. CASE /\ branch' = [branch EXCEPT ![i].mr = "opened", ![i].pending = "no"]
             /\ says' = [says EXCEPT ![i].mr = IF @ = "none" THEN "none" ELSE "old", ![i].noticed = FALSE]
    <3>1. PICK m : m = IF says[i].mr = "none" THEN "none" ELSE "old"
      OBVIOUS
    <3>2. PICK x, y : /\ x = [branch[i] EXCEPT !.mr = "opened", !.pending = "no"]
                      /\ y = [says[i] EXCEPT !.mr = m, !.noticed = FALSE]
      OBVIOUS
    <3>3. x \in Direct!Branch
      BY <1>6, <3>2 DEF Direct!Branch
    <3>4. y \in Direct!Comments
      BY <1>6, <3>1, <3>2 DEF Direct!Comments
    <3>5. branch' = [branch EXCEPT ![i] = x]
      BY <1>3, <1>6, <2>2, <3>2
    <3>6. says' = [says EXCEPT ![i] = y]
      BY <1>3, <1>6, <2>2, <3>1, <3>2
    <3> QED BY <1>6, <3>3, <3>4, <3>5, <3>6
  <2> QED BY <1>1, <2>1, <2>2 DEF Direct!Open
<1>8. Direct!ReviewIsOnRecord'
  <2>1. \A j \in Issues : state[j] = "review" => says[j].mr = "current"
    BY DEF DirectInv, Direct!ReviewIsOnRecord
  <2>2. \A j \in Issues : state'[j] = "review" => says'[j].mr = "current"
    BY <1>2, <1>3, <1>7, <2>1
  <2> QED BY <2>2 DEF Direct!ReviewIsOnRecord
<1>9. HasPassed(c, c.issue)' /\ IsSaid(c, c.issue)' /\ IsInWork(c, c.issue)'
  BY <1>1, <1>2, <1>3, <1>4 DEF HasPassed, IsSaid, Reviewing, IsInWork, Implementing
<1> QED BY <1>1, <1>4, <1>5, <1>6, <1>7, <1>8, <1>9, DirectMoves

LEMMA DirectLinks ==
    ASSUME DirectConstants, DirectInv, Direct!Link
    PROVE  DirectInv'
<1>1. PICK c, i : c = run' /\ i = run.issue
  OBVIOUS
<1>2. /\ run.at = "linking" /\ UNCHANGED <<state, branch>>
      /\ says' = [says EXCEPT ![i].mr = "current"]
  BY <1>1 DEF Direct!Link
<1>3. i \in Issues
  BY <1>1, <1>2, DirectFields DEF OnItsWay
<1>4. /\ c \in Direct!Run /\ c.at = "moving" /\ c.for = run.for /\ c.made = run.made
      /\ c.goal = [to |-> "review", reason |-> "none", next |-> "idle"]
      /\ c.issue = run.issue
  BY <1>1, DirectHead DEF Direct!Link, Direct!Ready, Direct!LogicalStatus, Direct!Stages
<1>5. run.for = "task"
  BY <1>2, DirectFields DEF OnItsWay, FirstStages
<1>6. OnItsWay(c)
  BY <1>1, <1>3, <1>4, <1>5 DEF OnItsWay, Underway, FirstStages
<1>7. /\ says \in [Issues -> Direct!Comments] /\ says[i] \in Direct!Comments
      /\ branch' \in [Issues -> Direct!Branch] /\ state' \in [Issues -> Direct!LogicalStatus]
  BY <1>2, <1>3 DEF DirectInv, Direct!TypeOK
<1>8. PICK y : y = [says[i] EXCEPT !.mr = "current"]
  OBVIOUS
<1>9. y \in Direct!Comments /\ y.mr = "current" /\ says' = [says EXCEPT ![i] = y]
  BY <1>2, <1>7, <1>8 DEF Direct!Comments
<1>10. says' \in [Issues -> Direct!Comments] /\ says'[i].mr = "current"
       /\ \A j \in Issues \ {i} : says'[j] = says[j]
  BY <1>3, <1>7, <1>9
<1>11. Direct!ReviewIsOnRecord'
  <2>1. \A j \in Issues : state[j] = "review" => says[j].mr = "current"
    BY DEF DirectInv, Direct!ReviewIsOnRecord
  <2>2. \A j \in Issues : state'[j] = "review" => says'[j].mr = "current"
    BY <1>2, <1>10, <2>1
  <2> QED BY <2>2 DEF Direct!ReviewIsOnRecord
<1>12. HasPassed(c, c.issue)' /\ IsSaid(c, c.issue)' /\ IsInWork(c, c.issue)'
  BY <1>1, <1>4, <1>10 DEF HasPassed, IsSaid, IsInWork, Implementing, WorkStages, FirstStages
<1> QED BY <1>1, <1>4, <1>6, <1>7, <1>10, <1>11, <1>12, DirectMoves

\* People and reviewers.
LEMMA DirectPeople ==
    ASSUME DirectConstants, DirectInv, NEW i \in Issues,
           \/ \E w \in Commands : Direct!Command(i, w)
           \/ \E s \in Moves : Direct!MoveByHand(i, s)
           \/ \E r \in Reviews : Direct!Review(i, r)
    PROVE  DirectInv'
<1>1. PICK c : c = run
  OBVIOUS
<1>2. run' = c /\ c \in Direct!Run /\ OnItsWay(c) /\ Relies(c, c.issue)
  BY <1>1, DirectFields DEF Direct!Command, Direct!MoveByHand, Direct!Review
<1>3. /\ says \in [Issues -> Direct!Comments] /\ says[i] \in Direct!Comments
      /\ branch \in [Issues -> Direct!Branch] /\ branch[i] \in Direct!Branch
      /\ state \in [Issues -> Direct!LogicalStatus]
  BY DEF DirectInv, Direct!TypeOK
<1>4. CASE \E w \in Commands : Direct!Command(i, w)
  <2>1. PICK w \in Commands : says' = [says EXCEPT ![i].command = w] /\ UNCHANGED <<state, branch>>
    BY <1>4 DEF Direct!Command
  <2>2. PICK y : y = [says[i] EXCEPT !.command = w]
    OBVIOUS
  <2>3. y \in Direct!Comments /\ y.mr = says[i].mr /\ says' = [says EXCEPT ![i] = y]
    BY <1>3, <2>1, <2>2 DEF Direct!Comments, DirectConstants
  <2>4. says' \in [Issues -> Direct!Comments] /\ \A j \in Issues : says'[j].mr = says[j].mr
    BY <1>3, <2>3
  <2> QED BY <1>2, <2>1, <2>4, DirectWrites
<1>5. CASE \E s \in Moves : Direct!MoveByHand(i, s)
  <2>1. PICK s \in Moves : state' = [state EXCEPT ![i] = s] /\ UNCHANGED <<says, branch>>
    BY <1>5 DEF Direct!MoveByHand
  <2>2. s \in Direct!LogicalStatus /\ s # "review"
    BY <2>1 DEF DirectConstants
  <2>3. state' \in [Issues -> Direct!LogicalStatus] /\ \A j \in Issues : state'[j] = "review" => state[j] = "review"
    BY <1>3, <2>1, <2>2
  <2>4. Direct!ReviewIsOnRecord'
    BY <2>1, <2>3 DEF DirectInv, Direct!ReviewIsOnRecord
  <2>5. HasPassed(c, c.issue)' /\ IsSaid(c, c.issue)'
    BY <1>2, <2>1 DEF Relies, HasPassed, IsSaid
  <2>6. IsInWork(c, c.issue)'
    <3>1. Implementing(c) => c.issue \in Issues
      BY <1>2 DEF OnItsWay, Implementing, WorkStages, FirstStages
    <3> QED BY <1>2, <2>3, <3>1 DEF Relies, IsInWork
  <2>7. says' \in [Issues -> Direct!Comments] /\ branch' \in [Issues -> Direct!Branch]
    BY <1>3, <2>1
  <2> QED BY <1>2, <2>3, <2>4, <2>5, <2>6, <2>7, DirectMoves
<1>6. CASE \E r \in Reviews : Direct!Review(i, r)
  <2>1. PICK m, p : /\ m \in {"opened", "merged", "closed"} /\ p \in {"no", "yes", "again"}
                    /\ branch' = [branch EXCEPT ![i].mr = m, ![i].pending = p]
                    /\ UNCHANGED <<state, says>>
    <3>1. PICK r \in Reviews : Direct!Review(i, r)
      BY <1>6
    <3>2. PICK m : m = CASE r = "merge" -> "merged" [] r = "close" -> "closed" [] OTHER -> branch[i].mr
      OBVIOUS
    <3>3. PICK p : p = IF r # "comment" THEN branch[i].pending
                       ELSE IF branch[i].pending # "no" /\ run.issue = i /\ run.for = "review"
                       THEN "again" ELSE "yes"
      OBVIOUS
    <3>4. branch[i].mr = "opened" /\ UNCHANGED <<state, says>>
      BY <3>1 DEF Direct!Review
    <3>5. m \in {"opened", "merged", "closed"}
      BY <3>2, <3>4
    <3>6. p \in {"no", "yes", "again"}
      BY <1>3, <3>3 DEF Direct!Branch
    <3>7. branch' = [branch EXCEPT ![i].mr = m, ![i].pending = p]
      BY <1>3, <3>1, <3>2, <3>3 DEF Direct!Review, Direct!Branch
    <3> QED BY <3>4, <3>5, <3>6, <3>7
  <2>2. PICK x : x = [branch[i] EXCEPT !.mr = m, !.pending = p]
    OBVIOUS
  <2>3. x \in Direct!Branch /\ x.gated = branch[i].gated
    BY <1>3, <2>1, <2>2 DEF Direct!Branch
  <2>4. branch' = [branch EXCEPT ![i] = x]
    BY <1>3, <2>1, <2>2
  <2>5. branch' \in [Issues -> Direct!Branch] /\ \A j \in Issues : branch'[j].gated = branch[j].gated
    BY <1>3, <2>3, <2>4
  <2>6. HasPassed(c, c.issue)'
    <3>1. c.at \in {"judging", "committing", "pushing"} => c.issue \in Issues
      BY <1>2 DEF OnItsWay
    <3> QED BY <1>2, <2>5, <3>1 DEF Relies, HasPassed
  <2> QED BY <1>2, <2>1, <2>5, <2>6, DirectBuilds DEF Relies
<1> QED BY <1>4, <1>5, <1>6

LEMMA DirectNext == ASSUME DirectConstants, DirectInv, [Direct!Next]_(Direct!vars) PROVE DirectInv'
<1>1. CASE UNCHANGED Direct!vars
  <2>1. PICK c : c = run
    OBVIOUS
  <2>2. run' = c /\ UNCHANGED <<state, says, branch>>
    BY <1>1, <2>1 DEF Direct!vars
  <2> QED BY <2>1, <2>2, DirectFields, DirectQuiet
<1>2. CASE Direct!Choose
  BY <1>2, DirectChooses
<1>3. CASE Direct!Interrupt
  BY <1>3, DirectIdles DEF Direct!Interrupt
<1>4. CASE \/ Direct!Start \/ Direct!ResolveResumeContext \/ Direct!Split \/ Direct!CreateIssue
           \/ Direct!Look \/ Direct!Judge \/ Direct!PauseReview \/ Direct!InspectOpened
           \/ Direct!FinalizeFailure \/ Direct!Refuse \/ Direct!PermanentError
  <2>1. UNCHANGED <<state, says, branch>>
    BY <1>4 DEF Direct!Start, Direct!ResolveResumeContext, Direct!Split, Direct!CreateIssue,
                Direct!Look, Direct!Judge, Direct!PauseReview, Direct!InspectOpened,
                Direct!FinalizeFailure, Direct!Refuse, Direct!PermanentError
  <2> QED BY <1>4, <2>1, DirectLooks
<1>5. CASE \/ Direct!Tell \/ Direct!Analyze \/ Direct!Ask \/ Direct!NoteChildren
           \/ Direct!FinalizeMerged
  BY <1>5, DirectTells
<1>6. CASE Direct!Checkout \/ Direct!Prompt
  BY <1>6, DirectChecksOut
<1>7. CASE Direct!Check \/ Direct!Recheck
  BY <1>7, DirectChecks
<1>8. CASE Direct!Commit \/ Direct!Push \/ Direct!Reply
  BY <1>8, DirectPublishes
<1>9. CASE Direct!Turn \/ Direct!Open \/ Direct!Link
  BY <1>9, DirectTurns, DirectOpens, DirectLinks
<1>10. CASE \E i \in Issues : \/ \E w \in Commands : Direct!Command(i, w)
                              \/ \E s \in Moves : Direct!MoveByHand(i, s)
                              \/ \E r \in Reviews : Direct!Review(i, r)
  BY <1>10, DirectPeople
<1> QED BY <1>1, <1>2, <1>3, <1>4, <1>5, <1>6, <1>7, <1>8, <1>9, <1>10 DEF Direct!Next,
       Direct!Process

\* Wherever the cycle of the worker is cut off, and whatever people and reviewers do between
\* its steps, its state is of its type and the invariant holds (processIssue).
THEOREM DirectInvariant == ASSUME DirectConstants PROVE Direct!Spec => []DirectInv
<1>1. Direct!Init => DirectInv
  BY DirectInit
<1>2. DirectInv /\ [Direct!Next]_(Direct!vars) => DirectInv'
  BY DirectNext
<1> QED BY <1>1, <1>2, PTL DEF Direct!Spec

\* An issue in review names its merge request in a comment of this worker (finalizeSuccess).
THEOREM ReviewsAreOnRecord == ASSUME DirectConstants PROVE Direct!Spec => [](Direct!ReviewIsOnRecord)
<1>1. DirectInv => Direct!ReviewIsOnRecord
  BY DEF DirectInv
<1> QED BY <1>1, DirectInvariant, PTL

\* Only what has passed the gates as it stands is pushed (implementTask, validateRepositoryState).
THEOREM DirectPushesAreGated == ASSUME DirectConstants PROVE Direct!Spec => Direct!OnlyGatedIsPushed
<1>1. DirectInv /\ [Direct!Next]_(Direct!vars) => [Direct!PushesAreGated]_(Direct!vars)
  BY DirectFields DEF DirectInv, Relies, HasPassed, Direct!PushesAreGated, Direct!Push
<1> QED BY <1>1, DirectInvariant, PTL DEF Direct!Spec, Direct!OnlyGatedIsPushed

\* The state of the worker of direct mode is of its type.
THEOREM DirectTypes == ASSUME DirectConstants PROVE Direct!Spec => [](Direct!TypeOK)
<1>1. DirectInv => Direct!TypeOK
  BY DEF DirectInv
<1> QED BY <1>1, DirectInvariant, PTL

-----------------------------------------------------------------------------
(* From a change to a push *)

CONSTANTS Commanded, ReportFile, Threshold, SelfReview, MaxReviewFix, MaxSelfFix, MaxEdits

VARIABLES made, tree, local, remote, request, report, work

Quality == INSTANCE QualityGates WITH Configured <- Commanded

\* A command is of a gate there is.
GateNames == {"typecheck", "lint", "tests", "build", "security_scan", "sast", "coverage",
              "visual_regression"}
QualityConstants ==
    /\ Commanded \subseteq GateNames
    /\ ReportFile \in BOOLEAN /\ SelfReview \in BOOLEAN /\ Threshold \in Nat
    /\ MaxFix \in Nat /\ MaxReviewFix \in Nat /\ MaxSelfFix \in Nat /\ MaxFaults \in Nat

\* The cycles.
QualityStage == {"idle", "codex", "fix", "self fix", "validate", "gates", "decide", "review",
                 "commit", "push", "request"}
Outcomes     == [gate : GateNames, status : {"passed", "failed", "skipped"}]
QualityCycle == [at : QualityStage, path : {"none", "task", "feedback"}, head : Nat,
                 left : Seq(GateNames), results : Seq(Outcomes), attempt : Nat, review : Nat,
                 runs : Nat]

QualityTyped ==
    /\ made \in Seq(Quality!Edits)
    /\ tree \in 0..Len(made) /\ local \in 0..Len(made)
    /\ remote \in [edit : 0..Len(made), by : {"none", "task", "feedback"}]
    /\ request \in BOOLEAN /\ report \in Seq(Nat) /\ faults \in 0..MaxFaults
    /\ work \in QualityCycle

\* What is true of an edit once its round has passed.
CoverageStands(e) ==
    made[e].coverage >= Threshold \/ (ReportFile /\ made[e].says = "nothing")
Withstood(e) ==
    /\ Commanded \subseteq made[e].good
    /\ "coverage" \in Commanded => CoverageStands(e)

\* What a round has found of the working copy, as far as it is: the gates in their order,
\* none after one that failed, and what passed is so.
RoundStands(results, left) ==
    /\ Len(results) + Len(left) = 8
    /\ \A i \in 1..Len(results) : results[i].gate = Quality!Gates[i]
    /\ \A i \in 1..Len(left) : left[i] = Quality!Gates[Len(results) + i]
    /\ \A i, k \in 1..Len(results) :
          results[i].status = "failed" /\ k > i => results[k].status = "skipped"
    /\ \A i \in 1..Len(results) :
          \/ results[i].status = "failed"
          \/ \E k \in 1..Len(results) : results[k].status = "failed"
          \/ Quality!Gates[i] \notin Commanded
          \/ results[i].status = "passed"
    /\ \A i \in 1..Len(results) :
          results[i].status = "passed" =>
              /\ Quality!Gates[i] \in made[tree].good
              /\ Quality!Gates[i] = "coverage" => CoverageStands(tree)

\* What a cycle relies on at each of its steps.
RoundsStand(c) ==
    /\ c.at \in {"gates", "review", "commit"} => tree # 0
    /\ c.at = "gates" => RoundStands(c.results, c.left)
    /\ c.at = "decide" /\ c.results # <<>> => tree # 0 /\ RoundStands(c.results, <<>>)
    /\ c.at \in {"review", "commit"} => Withstood(tree)
    /\ c.at \in {"push", "request"} => local # 0 /\ Withstood(local)
    /\ c.path = "task" /\ SelfReview =>
          /\ c.at = "commit" => made[tree].fine
          /\ c.at \in {"push", "request"} => made[local].fine

\* The repairs that a cycle has had, and the runs that they took.
Spent(c) ==
    /\ c.at # "idle" => c.path \in {"task", "feedback"}
    /\ c.at \in {"review", "self fix"} => c.path = "task"
    /\ c.path # "task" => c.review = 0
    /\ c.attempt <= (IF c.path = "task" THEN MaxFix ELSE MaxReviewFix)
    /\ c.review <= MaxSelfFix
    /\ c.at = "codex" => c.runs = 0 /\ c.attempt = 0 /\ c.review = 0
    /\ c.at = "fix" => c.runs <= c.attempt + c.review
    /\ c.at = "self fix" => c.review < MaxSelfFix
    /\ c.runs <= 1 + c.attempt + c.review

\* The branch is never behind an edit that the working copy has given up.
Ahead == tree = 0 => local = 0

PushStands ==
    /\ remote.by = "none" <=> remote.edit = 0
    /\ remote.edit # 0 => Withstood(remote.edit)
    /\ remote.edit # 0 /\ remote.by = "task" /\ SelfReview => made[remote.edit].fine

QualityInv == QualityTyped /\ RoundsStand(work) /\ Spent(work) /\ Ahead /\ PushStands

\* There are eight gates.
LEMMA GatesAre ==
    /\ Quality!Gates \in Seq(GateNames) /\ Len(Quality!Gates) = 8
    /\ \A g \in GateNames : \E i \in 1..8 : Quality!Gates[i] = g
<1>1. Quality!Gates \in Seq(GateNames)
  BY DEF Quality!Gates, GateNames
<1>2. Len(Quality!Gates) = 8
  BY DEF Quality!Gates
<1>3. /\ Quality!Gates[1] = "typecheck" /\ Quality!Gates[2] = "lint"
      /\ Quality!Gates[3] = "tests" /\ Quality!Gates[4] = "build"
      /\ Quality!Gates[5] = "security_scan" /\ Quality!Gates[6] = "sast"
      /\ Quality!Gates[7] = "coverage" /\ Quality!Gates[8] = "visual_regression"
  BY DEF Quality!Gates
<1>4. ASSUME NEW g \in GateNames PROVE \E i \in 1..8 : Quality!Gates[i] = g
  BY <1>3, <1>4 DEF GateNames
<1> QED BY <1>1, <1>2, <1>4

LEMMA EditsAre ==
    ASSUME QualityConstants, NEW e \in Quality!Edits
    PROVE  e.coverage \in Nat
<1>1. Quality!Perfect.coverage \in Nat /\ Quality!Poor.coverage \in Nat
  BY DEF Quality!Perfect, Quality!Poor, QualityConstants
<1>2. CASE e \in {Quality!Perfect, Quality!Poor}
  BY <1>1, <1>2
<1>3. CASE e \in {[Quality!Poor EXCEPT !.says = "nothing"], [Quality!Poor EXCEPT !.says = "garbage"],
                  [Quality!Perfect EXCEPT !.fine = FALSE]}
  BY <1>1, <1>3 DEF Quality!Perfect, Quality!Poor, QualityConstants
<1>4. CASE e \in {[Quality!Perfect EXCEPT !.good = @ \ {g}] : g \in Commanded}
  BY <1>1, <1>4 DEF Quality!Perfect, QualityConstants
<1> QED BY <1>2, <1>3, <1>4 DEF Quality!Edits

LEMMA NothingYet == <<>> \in Seq(GateNames) /\ <<>> \in Seq(Outcomes) /\ <<>> \in Seq(Nat)
OBVIOUS

\* A cycle that is over relies on nothing.
LEMMA IdleStands ==
    ASSUME QualityConstants
    PROVE  Quality!Idle \in QualityCycle /\ Spent(Quality!Idle)
<1>1. Quality!Idle \in QualityCycle
  BY NothingYet DEF Quality!Idle, QualityCycle, QualityStage
<1>2. MaxFix \in Nat /\ MaxReviewFix \in Nat /\ MaxSelfFix \in Nat
  BY DEF QualityConstants
<1>3. Spent(Quality!Idle)
  BY <1>2 DEF Quality!Idle, Spent
<1> QED BY <1>1, <1>3

LEMMA QualityStarts == ASSUME QualityConstants, Quality!Init PROVE QualityInv
<1>1. /\ made = <<>> /\ tree = 0 /\ local = 0 /\ remote = [edit |-> 0, by |-> "none"]
      /\ request = FALSE /\ report = <<>> /\ work = Quality!Idle /\ faults = 0
  BY DEF Quality!Init
<1>2. made \in Seq(Quality!Edits) /\ Len(made) = 0
  BY <1>1
<1>3. MaxFaults \in Nat
  BY DEF QualityConstants
<1>4. remote \in [edit : 0..Len(made), by : {"none", "task", "feedback"}]
  BY <1>1, <1>2
<1>5. tree \in 0..Len(made) /\ local \in 0..Len(made) /\ faults \in 0..MaxFaults
  BY <1>1, <1>2, <1>3
<1>6. QualityTyped
  BY <1>1, <1>2, <1>4, <1>5, IdleStands, NothingYet DEF QualityTyped
<1>7. RoundsStand(work)
  BY <1>1 DEF Quality!Idle, RoundsStand
<1> QED BY <1>1, <1>6, <1>7, IdleStands DEF QualityInv, Ahead, PushStands

\* A step that leaves the edits and the branches where they are.
LEMMA QualityMoves ==
    ASSUME QualityInv, UNCHANGED <<made, tree, local, remote>>,
           request' \in BOOLEAN, report' \in Seq(Nat), faults' \in 0..MaxFaults,
           work' \in QualityCycle, RoundsStand(work)', Spent(work)'
    PROVE  QualityInv'
BY DEF QualityInv, QualityTyped, Ahead, PushStands, Withstood, CoverageStands

\* The steps that end the cycle.
LEMMA QualityEnds ==
    ASSUME QualityConstants, QualityInv, UNCHANGED <<made, tree, local, remote>>,
           request' \in BOOLEAN, report' \in Seq(Nat), faults' \in 0..MaxFaults, work' = Quality!Idle
    PROVE  QualityInv'
<1>1. work' \in QualityCycle /\ Spent(work)'
  BY IdleStands DEF Spent
<1>2. RoundsStand(work)'
  BY DEF RoundsStand, Quality!Idle
<1> QED BY <1>1, <1>2, QualityMoves

LEMMA QualityBegins ==
    ASSUME QualityConstants, QualityInv, Quality!BeginTask \/ Quality!BeginFeedback
    PROVE  QualityInv'
<1>1. /\ UNCHANGED <<made, tree, local, remote>>
      /\ request' \in BOOLEAN /\ report' \in Seq(Nat) /\ faults' \in 0..MaxFaults
  BY DEF Quality!BeginTask, Quality!BeginFeedback, QualityInv, QualityTyped
<1>2. local \in Nat
  BY DEF QualityInv, QualityTyped
<1>3. PICK path \in {"task", "feedback"}, at \in {"codex", "validate"}, head \in Nat :
        work' = [at |-> at, path |-> path, head |-> head, left |-> <<>>, results |-> <<>>,
                 attempt |-> 0, review |-> 0, runs |-> 0]
  <2>1. CASE Quality!BeginTask
    <3>1. PICK at \in {"codex", "validate"} : work' = [Quality!Idle EXCEPT !.path = "task", !.at = at]
      BY <2>1 DEF Quality!BeginTask
    <3> QED BY <3>1 DEF Quality!Idle
  <2>2. CASE Quality!BeginFeedback
    <3>1. work' = [Quality!Idle EXCEPT !.path = "feedback", !.at = "codex", !.head = local]
      BY <2>2 DEF Quality!BeginFeedback
    <3> QED BY <1>2, <3>1 DEF Quality!Idle
  <2> QED BY <2>1, <2>2
<1>4. work' \in QualityCycle
  <2>1. <<>> \in Seq(GateNames) /\ <<>> \in Seq(Outcomes) /\ at \in QualityStage
    BY NothingYet DEF QualityStage
  <2> QED BY <1>3, <2>1 DEF QualityCycle
<1>5. RoundsStand(work)'
  BY <1>3 DEF RoundsStand
<1>6. Spent(work)'
  <2>1. MaxFix \in Nat /\ MaxReviewFix \in Nat /\ MaxSelfFix \in Nat
    BY DEF QualityConstants
  <2>2. /\ work'.at = at /\ work'.path = path /\ work'.attempt = 0
        /\ work'.review = 0 /\ work'.runs = 0
    BY <1>3
  <2>3. 0 <= (IF path = "task" THEN MaxFix ELSE MaxReviewFix) /\ 0 <= MaxSelfFix /\ 0 <= 1 + 0 + 0
    BY <2>1
  <2> QED BY <2>2, <2>3 DEF Spent
<1> QED BY <1>1, <1>4, <1>5, <1>6, QualityMoves

LEMMA QualityStops ==
    ASSUME QualityConstants, QualityInv, Quality!Ask \/ Quality!Tell \/ Quality!Fail
    PROVE  QualityInv'
<1>1. /\ UNCHANGED <<made, tree, local, remote>> /\ work' = Quality!Idle
      /\ request' \in BOOLEAN /\ report' \in Seq(Nat)
  BY DEF Quality!Ask, Quality!Tell, Quality!Fail, QualityInv, QualityTyped
<1>2. faults \in Nat /\ faults <= MaxFaults /\ MaxFaults \in Nat
  BY DEF QualityInv, QualityTyped, QualityConstants
<1>3. faults' = faults \/ (faults' = faults + 1 /\ faults < MaxFaults)
  BY DEF Quality!Ask, Quality!Tell, Quality!Fail
<1>4. faults' \in 0..MaxFaults
  BY <1>2, <1>3
<1> QED BY <1>1, <1>4, QualityEnds

LEMMA QualityCodes ==
    ASSUME QualityConstants, QualityInv, Quality!Codex
    PROVE  QualityInv'
<1>1. /\ work.at \in {"codex", "fix", "self fix"}
      /\ UNCHANGED <<remote, request, report, faults>>
  BY DEF Quality!Codex
<1>2. /\ made \in Seq(Quality!Edits) /\ Len(made) \in Nat
      /\ tree \in 0..Len(made) /\ local \in 0..Len(made) /\ remote.edit \in 0..Len(made)
      /\ work \in QualityCycle
  BY DEF QualityInv, QualityTyped
<1>3. /\ made' \in Seq(Quality!Edits) /\ Len(made) <= Len(made') /\ Len(made') \in Nat
      /\ \A i \in 1..Len(made) : made'[i] = made[i]
      /\ tree' \in 0..Len(made') /\ local' \in 0..Len(made') /\ Ahead'
  <2>1. CASE \E e \in Quality!Edits : /\ made' = Append(made, e)
                                      /\ tree' = Len(made) + 1 /\ local' \in {local, Len(made) + 1}
    <3>1. PICK e \in Quality!Edits : made' = Append(made, e)
      BY <2>1
    <3>2. made' \in Seq(Quality!Edits) /\ Len(made') = Len(made) + 1
      BY <1>2, <3>1
    <3>3. \A i \in 1..Len(made) : made'[i] = made[i]
      BY <1>2, <3>1
    <3>4. tree' \in 0..Len(made') /\ local' \in 0..Len(made') /\ tree' # 0
      BY <1>2, <2>1, <3>2
    <3> QED BY <1>2, <3>2, <3>3, <3>4 DEF Ahead
  <2>2. CASE tree' \in {tree, local} /\ UNCHANGED <<made, local>>
    BY <1>2, <2>2 DEF QualityInv, Ahead
  <2> QED BY <2>1, <2>2 DEF Quality!Codex
<1>4. /\ work.runs \in Nat /\ work.attempt \in Nat /\ work.review \in Nat
      /\ MaxFix \in Nat /\ MaxReviewFix \in Nat /\ MaxSelfFix \in Nat
  BY <1>2 DEF QualityCycle, QualityConstants
<1>5. PICK c : c = [work EXCEPT !.at = "validate", !.runs = work.runs + 1]
  OBVIOUS
<1>6. /\ c \in QualityCycle
       /\ c.at = "validate" /\ c.path = work.path /\ c.attempt = work.attempt
       /\ c.review = work.review /\ c.runs = work.runs + 1
  <2>1. work.runs + 1 \in Nat
    BY <1>4
  <2> QED BY <1>2, <1>5, <2>1 DEF QualityCycle, QualityStage
<1>7. work.review + 1 \in Nat
  BY <1>4
<1>8. /\ work' \in QualityCycle /\ work'.at = "validate" /\ work'.path = work.path
      /\ work'.attempt = work.attempt /\ work'.runs = work.runs + 1
      /\ work.at = "self fix" => work'.review = work.review + 1
      /\ work.at # "self fix" => work'.review = work.review
  <2>1. CASE work.at = "self fix"
    <3>1. work' = [c EXCEPT !.review = work.review + 1]
      BY <1>5, <2>1 DEF Quality!Codex, Quality!Counted
    <3> QED BY <1>6, <1>7, <2>1, <3>1 DEF QualityCycle
  <2>2. CASE work.at # "self fix"
    <3>1. work' = c
      BY <1>5, <2>2 DEF Quality!Codex, Quality!Counted
    <3> QED BY <1>6, <2>2, <3>1
  <2> QED BY <2>1, <2>2
<1>9. RoundsStand(work)'
  BY <1>8 DEF RoundsStand
<1>10. Spent(work)'
  <2>1. work.path \in {"task", "feedback"} /\ work.review <= MaxSelfFix
        /\ work.attempt <= (IF work.path = "task" THEN MaxFix ELSE MaxReviewFix)
        /\ (work.path # "task" => work.review = 0)
        /\ (work.at = "self fix" => work.path = "task" /\ work.review < MaxSelfFix)
        /\ work.runs <= 1 + work.attempt + work.review
        /\ (work.at # "self fix" => work.runs <= work.attempt + work.review)
    <3>1. Spent(work)
      BY DEF QualityInv
    <3>2. work.at = "codex" => work.runs <= work.attempt + work.review
      BY <3>1, <1>4 DEF Spent
    <3> QED BY <1>1, <3>1, <3>2 DEF Spent
  <2>2. /\ work'.runs <= 1 + work'.attempt + work'.review
        /\ work'.review <= MaxSelfFix /\ (work.path # "task" => work'.review = 0)
    <3>1. CASE work.at # "self fix"
      <4>1. work.runs <= work.attempt + work.review
        BY <2>1, <3>1
      <4>2. work.runs + 1 <= 1 + work.attempt + work.review
        BY <1>4, <4>1
      <4> QED BY <1>8, <2>1, <3>1, <4>2
    <3>2. CASE work.at = "self fix"
      <4>1. work.runs <= 1 + work.attempt + work.review /\ work.review < MaxSelfFix
        BY <2>1, <3>2
      <4>2. work.runs + 1 <= 1 + work.attempt + (work.review + 1) /\ work.review + 1 <= MaxSelfFix
        BY <1>4, <4>1
      <4> QED BY <1>8, <2>1, <3>2, <4>2
    <3> QED BY <3>1, <3>2
  <2> QED BY <1>8, <2>1, <2>2 DEF Spent
<1>11. PushStands'
  <2>1. CASE remote.edit = 0
    BY <1>1, <2>1 DEF QualityInv, PushStands
  <2>2. CASE remote.edit # 0
    <3>1. made'[remote.edit] = made[remote.edit]
      BY <1>2, <1>3, <2>2
    <3> QED BY <1>1, <3>1 DEF QualityInv, PushStands, Withstood, CoverageStands
  <2> QED BY <2>1, <2>2
<1>12. QualityTyped'
  <2>1. remote \in [edit : 0..Len(made'), by : {"none", "task", "feedback"}]
    BY <1>2, <1>3 DEF QualityInv, QualityTyped
  <2> QED BY <1>1, <1>3, <1>8, <2>1 DEF QualityInv, QualityTyped
<1> QED BY <1>3, <1>9, <1>10, <1>11, <1>12 DEF QualityInv

\* A step that only moves the cycle on leaves what it has spent.
LEMMA SpentStays ==
    ASSUME QualityInv, NEW at \in QualityStage \ {"codex", "fix", "self fix"},
           work.at # "idle", at = "review" => work.path = "task",
           NEW c, c.at = at, c.path = work.path, c.attempt = work.attempt, c.review = work.review,
           c.runs = work.runs
    PROVE  Spent(c)
BY DEF QualityInv, Spent

LEMMA QualityValidates ==
    ASSUME QualityConstants, QualityInv, Quality!Validate
    PROVE  QualityInv'
<1>1. /\ UNCHANGED <<made, tree, local, remote, request, report, faults>> /\ work.at = "validate"
      /\ work \in QualityCycle /\ report \in Seq(Nat) /\ request \in BOOLEAN /\ faults \in 0..MaxFaults
      /\ tree \in Nat /\ local \in Nat
  BY DEF Quality!Validate, QualityInv, QualityTyped
<1>2. CASE /\ Quality!Dirty \/ Quality!Diff
           /\ work' = [work EXCEPT !.at = "gates", !.left = Quality!Gates, !.results = <<>>]
  <2>1. /\ work' \in QualityCycle /\ work'.at = "gates" /\ work'.left = Quality!Gates
        /\ work'.results = <<>> /\ work'.path = work.path /\ work'.attempt = work.attempt
        /\ work'.review = work.review /\ work'.runs = work.runs
    BY <1>1, <1>2, GatesAre, NothingYet DEF QualityCycle, QualityStage
  <2>2. tree # 0
    BY <1>1, <1>2 DEF QualityInv, Ahead, Quality!Dirty, Quality!Diff
  <2>3. RoundStands(<<>>, Quality!Gates)
    BY GatesAre DEF RoundStands
  <2>4. RoundStands(work.results, work.left)'
    BY <1>1, <2>1, <2>3 DEF RoundStands, CoverageStands
  <2>5. RoundsStand(work)'
    BY <1>1, <2>1, <2>2, <2>4 DEF RoundsStand
  <2>6. Spent(work)'
    <3>1. PICK c : c = work'
      OBVIOUS
    <3>2. Spent(c)
      BY <1>1, <2>1, <3>1, SpentStays DEF QualityStage
    <3> QED BY <3>1, <3>2 DEF Spent
  <2> QED BY <1>1, <2>1, <2>5, <2>6, QualityMoves
<1>3. CASE work' = Quality!Idle
  BY <1>1, <1>3, QualityEnds
<1>4. CASE work' = [work EXCEPT !.at = "decide", !.results = <<>>]
  <2>1. /\ work' \in QualityCycle /\ work'.at = "decide"
        /\ work'.results = <<>> /\ work'.path = work.path /\ work'.attempt = work.attempt
        /\ work'.review = work.review /\ work'.runs = work.runs
    BY <1>1, <1>4, NothingYet DEF QualityCycle, QualityStage
  <2>5. RoundsStand(work)'
    BY <2>1 DEF RoundsStand
  <2>6. Spent(work)'
    <3>1. PICK c : c = work'
      OBVIOUS
    <3>2. Spent(c)
      BY <1>1, <2>1, <3>1, SpentStays DEF QualityStage
    <3> QED BY <3>1, <3>2 DEF Spent
  <2> QED BY <1>1, <2>1, <2>5, <2>6, QualityMoves
<1> QED BY <1>2, <1>3, <1>4 DEF Quality!Validate

\* One more gate has run.
LEMMA RoundGrows ==
    ASSUME NEW results \in Seq(Outcomes), NEW left \in Seq(GateNames), left # <<>>,
           RoundStands(results, left), NEW status \in {"passed", "failed", "skipped"},
           Quality!FailedIn(results) => status = "skipped",
           ~Quality!FailedIn(results) /\ Head(left) \in Commanded => status # "skipped",
           status = "passed" => /\ Head(left) \in made[tree].good
                                /\ Head(left) = "coverage" => CoverageStands(tree)
    PROVE  /\ Append(results, Quality!Result(Head(left), status)) \in Seq(Outcomes)
           /\ Tail(left) \in Seq(GateNames)
           /\ RoundStands(Append(results, Quality!Result(Head(left), status)), Tail(left))
<1> DEFINE n == Len(results)
           it == [gate |-> Head(left), status |-> status]
           more == Append(results, it)
           rest == Tail(left)
<1>1. /\ n \in Nat /\ Len(left) \in Nat \ {0} /\ n + Len(left) = 8
      /\ Head(left) \in GateNames /\ Head(left) = left[1]
  BY DEF RoundStands
<1>2. it \in Outcomes
  BY <1>1 DEF Outcomes
<1>3. /\ more \in Seq(Outcomes) /\ Len(more) = n + 1 /\ more[n + 1] = it
      /\ \A i \in 1..n : more[i] = results[i]
  BY <1>2
<1>4. /\ rest \in Seq(GateNames) /\ Len(rest) = Len(left) - 1
      /\ \A i \in 1..Len(rest) : rest[i] = left[i + 1]
  BY <1>1
<1>5. Head(left) = Quality!Gates[n + 1]
  <2>1. 1 \in 1..Len(left)
    BY <1>1
  <2> QED BY <1>1, <2>1 DEF RoundStands
<1>6. Quality!FailedIn(results) <=> \E k \in 1..n : results[k].status = "failed"
  BY DEF Quality!FailedIn
<1> HIDE DEF more, rest, it, n
<1>7. \A i \in 1..(n + 1) : i \in 1..n \/ i = n + 1
  BY <1>1
<1>8. \A i \in 1..n : i \in 1..(n + 1) /\ i # n + 1
  BY <1>1
<1>9. it.gate = Head(left) /\ it.status = status
  BY DEF it
<1>10. \A i \in 1..Len(more) : more[i].gate = Quality!Gates[i]
  BY <1>3, <1>5, <1>7, <1>9 DEF RoundStands, n
<1>11. \A i \in 1..Len(rest) : rest[i] = Quality!Gates[Len(more) + i]
  <2> SUFFICES ASSUME NEW i \in 1..Len(rest) PROVE rest[i] = Quality!Gates[Len(more) + i]
    OBVIOUS
  <2>1. i + 1 \in 1..Len(left) /\ n + (i + 1) = Len(more) + i
    BY <1>1, <1>3, <1>4
  <2>2. left[i + 1] = Quality!Gates[n + (i + 1)]
    BY <2>1 DEF RoundStands, n
  <2> QED BY <1>4, <2>1, <2>2
<1>12. \A i, k \in 1..Len(more) :
          more[i].status = "failed" /\ k > i => more[k].status = "skipped"
  <2> SUFFICES ASSUME NEW i \in 1..(n + 1), NEW k \in 1..(n + 1),
                      more[i].status = "failed", k > i
               PROVE  more[k].status = "skipped"
    BY <1>3
  <2>1. i \in 1..n
    BY <1>1
  <2>2. results[i].status = "failed"
    BY <1>3, <2>1
  <2>3. CASE k \in 1..n
    BY <1>3, <2>1, <2>2, <2>3 DEF RoundStands, n
  <2>4. CASE k = n + 1
    BY <1>3, <1>6, <1>9, <2>1, <2>2, <2>4
  <2> QED BY <1>7, <2>3, <2>4
<1>13. \A i \in 1..Len(more) :
          \/ more[i].status = "failed"
          \/ \E k \in 1..Len(more) : more[k].status = "failed"
          \/ Quality!Gates[i] \notin Commanded
          \/ more[i].status = "passed"
  <2>1. (\E k \in 1..n : results[k].status = "failed") => \E k \in 1..Len(more) : more[k].status = "failed"
    BY <1>3, <1>8
  <2>2. ASSUME NEW i \in 1..n
        PROVE \/ more[i].status = "failed"
              \/ \E k \in 1..Len(more) : more[k].status = "failed"
              \/ Quality!Gates[i] \notin Commanded
              \/ more[i].status = "passed"
    BY <1>3, <2>1 DEF RoundStands, n
  <2>3. \/ status = "failed" \/ (\E k \in 1..n : results[k].status = "failed")
        \/ Head(left) \notin Commanded \/ status = "passed"
    BY <1>6
  <2> QED BY <1>3, <1>5, <1>7, <1>9, <2>1, <2>2, <2>3
<1>14. \A i \in 1..Len(more) :
          more[i].status = "passed" =>
              /\ Quality!Gates[i] \in made[tree].good
              /\ Quality!Gates[i] = "coverage" => CoverageStands(tree)
  BY <1>3, <1>5, <1>7, <1>9 DEF RoundStands, n
<1>15. Len(more) + Len(rest) = 8
  BY <1>1, <1>3, <1>4
<1>16. RoundStands(more, rest)
  BY <1>10, <1>11, <1>12, <1>13, <1>14, <1>15 DEF RoundStands
<1> QED BY <1>3, <1>4, <1>16 DEF Quality!Result, more, rest, it

\* What a gate that passed says of the working copy.
LEMMA StatusIs ==
    ASSUME QualityConstants, QualityInv, work.at = "gates", work.left # <<>>,
           NEW gate, gate = Head(work.left)
    PROVE  /\ Quality!Status(gate) \in {"passed", "failed", "skipped"}
           /\ Quality!FailedIn(work.results) => Quality!Status(gate) = "skipped"
           /\ ~Quality!FailedIn(work.results) /\ gate \in Commanded => Quality!Status(gate) # "skipped"
           /\ Quality!Status(gate) = "passed" =>
                 /\ gate \in made[tree].good
                 /\ gate = "coverage" => CoverageStands(tree)
<1>1. /\ made \in Seq(Quality!Edits) /\ tree \in 1..Len(made)
      /\ Quality!Is = made[tree] /\ made[tree].coverage \in Nat
  <2>1. made \in Seq(Quality!Edits) /\ tree \in 0..Len(made) /\ tree # 0
    BY DEF QualityInv, QualityTyped, RoundsStand
  <2>2. tree \in 1..Len(made)
    BY <2>1
  <2>3. made[tree] \in Quality!Edits
    BY <2>1, <2>2
  <2> QED BY <2>1, <2>2, <2>3, EditsAre DEF Quality!Is
<1>2. /\ Quality!FailedIn(work.results) \/ gate \notin Commanded => Quality!Status(gate) = "skipped"
      /\ ~Quality!FailedIn(work.results) /\ gate \in Commanded => Quality!Status(gate) \in {"failed", "passed"}
      /\ Quality!Status(gate) = "passed" =>
            /\ gate \in Quality!Is.good
            /\ ~ (gate = "coverage" /\ ~Quality!Meets(IF ReportFile THEN Quality!Written ELSE Quality!Printed))
      /\ Quality!Status(gate) \in {"passed", "failed", "skipped"}
  <2> DEFINE low == gate = "coverage" /\ ~Quality!Meets(IF ReportFile THEN Quality!Written ELSE Quality!Printed)
             off == Quality!FailedIn(work.results) \/ gate \notin Commanded
  <2>1. CASE off
    <3>1. Quality!Status(gate) = "skipped"
      BY <2>1 DEF Quality!Status
    <3> QED BY <2>1, <3>1
  <2>2. CASE ~off /\ gate \notin Quality!Is.good
    <3>1. Quality!Status(gate) = "failed"
      BY <2>2 DEF Quality!Status
    <3> QED BY <2>2, <3>1
  <2>3. CASE ~off /\ gate \in Quality!Is.good /\ low
    <3>1. Quality!Status(gate) = "failed"
      BY <2>3 DEF Quality!Status
    <3> QED BY <2>3, <3>1
  <2>4. CASE ~off /\ gate \in Quality!Is.good /\ ~low
    <3>1. Quality!Status(gate) = "passed"
      BY <2>4 DEF Quality!Status
    <3> QED BY <2>4, <3>1
  <2> QED BY <2>1, <2>2, <2>3, <2>4
<1>3. ASSUME Quality!Meets(IF ReportFile THEN Quality!Written ELSE Quality!Printed)
      PROVE  CoverageStands(tree)
  <2>1. CASE ReportFile /\ made[tree].says = "nothing"
    BY <2>1 DEF CoverageStands
  <2>2. CASE ~(ReportFile /\ made[tree].says = "nothing")
    <3>1. Quality!Meets(Quality!Printed)
      BY <1>1, <1>3, <2>2 DEF Quality!Written
    <3>2. Quality!Printed = <<made[tree].coverage>>
      BY <1>1, <3>1 DEF Quality!Printed, Quality!Meets
    <3>3. Head(<<made[tree].coverage>>) = made[tree].coverage
      OBVIOUS
    <3> QED BY <3>1, <3>2, <3>3 DEF Quality!Meets, CoverageStands
  <2> QED BY <2>1, <2>2
<1> QED BY <1>1, <1>2, <1>3

LEMMA QualityGate ==
    ASSUME QualityConstants, QualityInv, Quality!Gate
    PROVE  QualityInv'
<1>1. /\ UNCHANGED <<made, tree, local, remote, request, faults>> /\ work.at = "gates" /\ work.left # <<>>
      /\ work \in QualityCycle /\ request \in BOOLEAN /\ faults \in 0..MaxFaults
      /\ work.results \in Seq(Outcomes) /\ work.left \in Seq(GateNames)
  BY DEF Quality!Gate, QualityInv, QualityTyped, QualityCycle
<1>2. PICK gate : gate = Head(work.left)
  OBVIOUS
<1>3. PICK status : status = Quality!Status(gate)
  OBVIOUS
<1>4. PICK more, rest : /\ more = Append(work.results, Quality!Result(gate, status)) /\ rest = Tail(work.left)
  OBVIOUS
<1>5. work' = [work EXCEPT !.left = rest, !.results = more]
  BY <1>2, <1>3, <1>4 DEF Quality!Gate
<1>6. more \in Seq(Outcomes) /\ rest \in Seq(GateNames) /\ RoundStands(more, rest)
  <2>1. RoundStands(work.results, work.left) /\ tree # 0
    BY <1>1 DEF QualityInv, RoundsStand
  <2>2. /\ status \in {"passed", "failed", "skipped"}
        /\ Quality!FailedIn(work.results) => status = "skipped"
        /\ ~Quality!FailedIn(work.results) /\ Head(work.left) \in Commanded => status # "skipped"
        /\ status = "passed" => /\ Head(work.left) \in made[tree].good
                                /\ Head(work.left) = "coverage" => CoverageStands(tree)
    BY <1>1, <1>2, <1>3, StatusIs
  <2> QED BY <1>1, <1>2, <1>4, <2>1, <2>2, RoundGrows
<1>7. /\ work' \in QualityCycle /\ work'.at = "gates" /\ work'.left = rest
      /\ work'.results = more /\ work'.path = work.path /\ work'.attempt = work.attempt
      /\ work'.review = work.review /\ work'.runs = work.runs
  BY <1>1, <1>5, <1>6 DEF QualityCycle
<1>8. RoundsStand(work)'
  <2>1. RoundStands(work.results, work.left)'
    BY <1>1, <1>6, <1>7 DEF RoundStands, CoverageStands
  <2>2. tree' # 0
    BY <1>1 DEF QualityInv, RoundsStand
  <2> QED BY <1>7, <2>1, <2>2 DEF RoundsStand
<1>9. Spent(work)'
  <2>1. PICK c : c = work'
    OBVIOUS
  <2>2. Spent(c)
    BY <1>1, <1>7, <2>1, SpentStays DEF QualityStage
  <2> QED BY <2>1, <2>2 DEF Spent
<1>10. report' \in Seq(Nat)
  <2>1. made \in Seq(Quality!Edits) /\ tree \in 0..Len(made) /\ tree # 0 /\ report \in Seq(Nat)
    BY <1>1 DEF QualityInv, QualityTyped, RoundsStand
  <2>2. tree \in 1..Len(made)
    BY <2>1
  <2>3. made[tree].coverage \in Nat /\ Quality!Is = made[tree]
    BY <2>1, <2>2, EditsAre DEF Quality!Is
  <2>4. <<made[tree].coverage>> \in Seq(Nat)
    BY <2>3
  <2>5. Quality!Written \in Seq(Nat)
    BY <2>1, <2>3, <2>4, NothingYet DEF Quality!Written, Quality!Printed
  <2>6. report' = Quality!Written \/ report' = report
    BY DEF Quality!Gate
  <2> QED BY <2>1, <2>5, <2>6
<1> QED BY <1>1, <1>7, <1>8, <1>9, <1>10, QualityMoves

LEMMA QualityGatesEnd ==
    ASSUME QualityConstants, QualityInv, Quality!GatesEnd
    PROVE  QualityInv'
<1>1. /\ UNCHANGED <<made, tree, local, remote, request, report, faults>> /\ work.at = "gates"
      /\ work.left = <<>> /\ work' = [work EXCEPT !.at = "decide"]
      /\ work \in QualityCycle /\ report \in Seq(Nat) /\ request \in BOOLEAN /\ faults \in 0..MaxFaults
  BY DEF Quality!GatesEnd, Quality!Goes, QualityInv, QualityTyped
<1>2. /\ work' \in QualityCycle /\ work'.at = "decide"
      /\ work'.results = work.results /\ work'.path = work.path /\ work'.attempt = work.attempt
      /\ work'.review = work.review /\ work'.runs = work.runs
  BY <1>1 DEF QualityCycle, QualityStage
<1>3. RoundsStand(work)'
  <2>1. RoundStands(work.results, <<>>) /\ tree # 0
    BY <1>1 DEF QualityInv, RoundsStand
  <2>2. RoundStands(work.results, <<>>)'
    BY <1>1, <1>2, <2>1 DEF RoundStands, CoverageStands
  <2> QED BY <1>1, <1>2, <2>1, <2>2 DEF RoundsStand
<1>4. Spent(work)'
  <2>1. PICK c : c = work'
    OBVIOUS
  <2>2. Spent(c)
    BY <1>1, <1>2, <2>1, SpentStays DEF QualityStage
  <2> QED BY <2>1, <2>2 DEF Spent
<1> QED BY <1>1, <1>2, <1>3, <1>4, QualityMoves

\* A round that succeeded leaves an edit that stands.
LEMMA SuccessStands ==
    ASSUME QualityConstants, NEW results \in Seq(Outcomes), RoundStands(results, <<>>),
           ~Quality!FailedIn(results)
    PROVE  /\ Withstood(tree)
           /\ \A i \in 1..8 : Quality!Gates[i] \in Commanded => results[i].status = "passed"
<1>1. Len(results) \in Nat /\ Len(results) = 8 /\ DOMAIN results = 1..8
  BY DEF RoundStands
<1>2. \A k \in 1..8 : results[k].status # "failed"
  BY <1>1 DEF Quality!FailedIn
<1>3. \A i \in 1..8 : Quality!Gates[i] \in Commanded => results[i].status = "passed"
  BY <1>1, <1>2 DEF RoundStands
<1>4. ASSUME NEW g \in Commanded PROVE g \in made[tree].good /\ (g = "coverage" => CoverageStands(tree))
  <2>1. PICK i \in 1..8 : Quality!Gates[i] = g
    BY <1>4, GatesAre DEF QualityConstants
  <2> QED BY <1>1, <1>3, <2>1 DEF RoundStands
<1> QED BY <1>3, <1>4 DEF Withstood

LEMMA QualityDecides ==
    ASSUME QualityConstants, QualityInv, Quality!Decide
    PROVE  QualityInv'
<1>1. /\ UNCHANGED <<made, tree, local, remote, request, report, faults>> /\ work.at = "decide"
      /\ work \in QualityCycle /\ report \in Seq(Nat) /\ request \in BOOLEAN /\ faults \in 0..MaxFaults
      /\ work.results \in Seq(Outcomes)
  BY DEF Quality!Decide, QualityInv, QualityTyped, QualityCycle
<1>2. CASE Quality!Successful
  <2>1. PICK at \in {"review", "commit"} :
          /\ work' = [work EXCEPT !.at = at]
          /\ at = "review" => work.path = "task"
          /\ at = "commit" => ~(work.path = "task" /\ SelfReview)
    BY <1>2 DEF Quality!Decide
  <2>2. /\ work' \in QualityCycle /\ work'.at = at
        /\ work'.path = work.path /\ work'.attempt = work.attempt
        /\ work'.review = work.review /\ work'.runs = work.runs
    BY <1>1, <2>1 DEF QualityCycle, QualityStage
  <2>3. tree # 0 /\ Withstood(tree)
    BY <1>1, <1>2, SuccessStands DEF QualityInv, RoundsStand, Quality!Successful
  <2>4. RoundsStand(work)'
    BY <1>1, <2>1, <2>2, <2>3 DEF RoundsStand, Withstood, CoverageStands
  <2>5. Spent(work)'
    <3>1. PICK c : c = work'
      OBVIOUS
    <3>2. Spent(c)
      BY <1>1, <2>1, <2>2, <3>1, SpentStays DEF QualityStage
    <3> QED BY <3>1, <3>2 DEF Spent
  <2> QED BY <1>1, <2>2, <2>4, <2>5, QualityMoves
<1>3. CASE /\ work.review = 0 /\ work.attempt < Quality!Allowed
           /\ work' = Quality!Counts([work EXCEPT !.at = "fix"])
  <2>1. /\ work.runs \in Nat /\ work.attempt \in Nat /\ work.review \in Nat
        /\ MaxFix \in Nat /\ MaxReviewFix \in Nat /\ MaxSelfFix \in Nat
    BY <1>1 DEF QualityCycle, QualityConstants
  <2>2. PICK c : c = [work EXCEPT !.at = "fix"]
    OBVIOUS
  <2>3. c \in QualityCycle /\ c.at = "fix" /\ c.path = work.path /\ c.attempt = work.attempt
        /\ c.review = work.review /\ c.runs = work.runs
    BY <1>1, <2>2 DEF QualityCycle, QualityStage
  <2>4. work.attempt + 1 \in Nat
    BY <2>1
  <2>5. work' = [c EXCEPT !.attempt = work.attempt + 1]
    BY <1>3, <2>2, <2>3 DEF Quality!Counts
  <2>6. work' \in QualityCycle /\ work'.at = "fix" /\ work'.path = work.path
        /\ work'.attempt = work.attempt + 1 /\ work'.review = work.review /\ work'.runs = work.runs
    BY <2>3, <2>4, <2>5 DEF QualityCycle
  <2>7. RoundsStand(work)'
    BY <2>6 DEF RoundsStand
  <2>8. /\ work.path \in {"task", "feedback"} /\ work.runs <= 1 + work.attempt + work.review
        /\ work.attempt < (IF work.path = "task" THEN MaxFix ELSE MaxReviewFix)
    BY <1>1, <1>3 DEF QualityInv, Spent, Quality!Allowed
  <2>9. /\ work.attempt + 1 <= (IF work.path = "task" THEN MaxFix ELSE MaxReviewFix)
        /\ work.runs <= (work.attempt + 1) + work.review
        /\ work.runs <= 1 + (work.attempt + 1) + work.review /\ work.review <= MaxSelfFix
    <3>1. CASE work.path = "task"
      BY <1>3, <2>1, <2>8, <3>1
    <3>2. CASE work.path = "feedback"
      BY <1>3, <2>1, <2>8, <3>2
    <3> QED BY <2>8, <3>1, <3>2
  <2>10. Spent(work)'
    BY <1>3, <2>6, <2>8, <2>9 DEF Spent
  <2> QED BY <1>1, <2>6, <2>7, <2>10, QualityMoves
<1>4. CASE work' = Quality!Idle
  BY <1>1, <1>4, QualityEnds
<1> QED BY <1>2, <1>3, <1>4 DEF Quality!Decide

LEMMA QualityReviews ==
    ASSUME QualityConstants, QualityInv, Quality!Review
    PROVE  QualityInv'
<1>1. /\ UNCHANGED <<made, tree, local, remote, request, report, faults>> /\ work.at = "review"
      /\ work \in QualityCycle /\ report \in Seq(Nat) /\ request \in BOOLEAN /\ faults \in 0..MaxFaults
  BY DEF Quality!Review, QualityInv, QualityTyped
<1>2. tree # 0 /\ Withstood(tree) /\ work.path = "task"
  BY <1>1 DEF QualityInv, RoundsStand, Spent
<1>3. CASE work' = Quality!Idle
  BY <1>1, <1>3, QualityEnds
<1>4. CASE Quality!Verdict /\ work' = [work EXCEPT !.at = "commit"]
  <2>1. /\ work' \in QualityCycle /\ work'.at = "commit"
        /\ work'.path = work.path /\ work'.attempt = work.attempt
        /\ work'.review = work.review /\ work'.runs = work.runs
    BY <1>1, <1>4 DEF QualityCycle, QualityStage
  <2>2. made[tree].fine
    BY <1>2, <1>4 DEF Quality!Verdict, Quality!Is
  <2>3. RoundsStand(work)'
    BY <1>1, <1>2, <2>1, <2>2 DEF RoundsStand, Withstood, CoverageStands
  <2>4. Spent(work)'
    <3>1. PICK c : c = work'
      OBVIOUS
    <3>2. Spent(c)
      BY <1>1, <2>1, <3>1, SpentStays DEF QualityStage
    <3> QED BY <3>1, <3>2 DEF Spent
  <2> QED BY <1>1, <2>1, <2>3, <2>4, QualityMoves
<1>5. CASE work.review < MaxSelfFix /\ work' = [work EXCEPT !.at = "self fix"]
  <2>1. /\ work' \in QualityCycle /\ work'.at = "self fix"
        /\ work'.path = work.path /\ work'.attempt = work.attempt
        /\ work'.review = work.review /\ work'.runs = work.runs
    BY <1>1, <1>5 DEF QualityCycle, QualityStage
  <2>2. RoundsStand(work)'
    BY <2>1 DEF RoundsStand
  <2>3. Spent(work)'
    BY <1>1, <1>2, <1>5, <2>1 DEF QualityInv, Spent
  <2> QED BY <1>1, <2>1, <2>2, <2>3, QualityMoves
<1> QED BY <1>3, <1>4, <1>5 DEF Quality!Review

LEMMA QualityCommits ==
    ASSUME QualityConstants, QualityInv, Quality!Commit
    PROVE  QualityInv'
<1>1. /\ UNCHANGED <<made, tree, remote, request, report, faults>> /\ work.at = "commit"
      /\ local' = tree /\ work \in QualityCycle /\ QualityTyped
      /\ tree # 0 /\ Withstood(tree) /\ (work.path = "task" /\ SelfReview => made[tree].fine)
  BY DEF Quality!Commit, QualityInv, QualityTyped, RoundsStand
<1>2. work' \in QualityCycle /\ RoundsStand(work)' /\ Spent(work)'
  <2>1. CASE work' = Quality!Idle
    <3>1. work' \in QualityCycle /\ Spent(work)'
      BY <2>1, IdleStands DEF Spent
    <3>2. RoundsStand(work)'
      BY <2>1 DEF RoundsStand, Quality!Idle
    <3> QED BY <3>1, <3>2
  <2>2. CASE work' = [work EXCEPT !.at = "push"]
    <3>1. /\ work' \in QualityCycle /\ work'.at = "push"
          /\ work'.path = work.path /\ work'.attempt = work.attempt
          /\ work'.review = work.review /\ work'.runs = work.runs
      BY <1>1, <2>2 DEF QualityCycle, QualityStage
    <3>2. RoundsStand(work)'
      BY <1>1, <3>1 DEF RoundsStand, Withstood, CoverageStands
    <3>3. PICK c : c = work'
      OBVIOUS
    <3>4. Spent(c)
      BY <1>1, <3>1, <3>3, SpentStays DEF QualityStage
    <3> QED BY <3>1, <3>2, <3>3, <3>4 DEF Spent
  <2> QED BY <2>1, <2>2 DEF Quality!Commit
<1>3. QualityTyped'
  BY <1>1, <1>2 DEF QualityTyped
<1>4. Ahead' /\ PushStands'
  BY <1>1 DEF QualityInv, Ahead, PushStands, Withstood, CoverageStands
<1> QED BY <1>2, <1>3, <1>4 DEF QualityInv

LEMMA QualityPushes ==
    ASSUME QualityConstants, QualityInv, Quality!Push
    PROVE  QualityInv'
<1>1. /\ UNCHANGED <<made, tree, local, request, report, faults>> /\ work.at = "push"
      /\ remote' = [edit |-> local, by |-> work.path] /\ work' = [work EXCEPT !.at = "request"]
      /\ work \in QualityCycle /\ QualityTyped /\ work.path \in {"task", "feedback"}
      /\ local # 0 /\ Withstood(local) /\ (work.path = "task" /\ SelfReview => made[local].fine)
  BY DEF Quality!Push, Quality!Goes, QualityInv, QualityTyped, RoundsStand, Spent
<1>2. /\ work' \in QualityCycle /\ work'.at = "request"
      /\ work'.path = work.path /\ work'.attempt = work.attempt
      /\ work'.review = work.review /\ work'.runs = work.runs
  BY <1>1 DEF QualityCycle, QualityStage
<1>3. RoundsStand(work)'
  BY <1>1, <1>2 DEF RoundsStand, Withstood, CoverageStands
<1>4. Spent(work)'
  <2>1. PICK c : c = work'
    OBVIOUS
  <2>2. Spent(c)
    BY <1>1, <1>2, <2>1, SpentStays DEF QualityStage
  <2> QED BY <2>1, <2>2 DEF Spent
<1>5. QualityTyped'
  <2>1. remote' \in [edit : 0..Len(made), by : {"none", "task", "feedback"}]
    BY <1>1 DEF QualityTyped
  <2> QED BY <1>1, <1>2, <2>1 DEF QualityTyped
<1>6. Ahead' /\ PushStands'
  BY <1>1 DEF QualityInv, Ahead, PushStands, Withstood, CoverageStands
<1> QED BY <1>3, <1>4, <1>5, <1>6 DEF QualityInv

LEMMA QualityStep ==
    ASSUME QualityConstants, QualityInv, [Quality!Next]_(Quality!vars)
    PROVE  QualityInv'
<1>1. CASE UNCHANGED Quality!vars
  <2>1. UNCHANGED <<made, tree, local, remote, request, report, faults, work>>
    BY <1>1 DEF Quality!vars
  <2>2. Spent(work)'
    BY <2>1 DEF QualityInv, Spent
  <2>3. RoundsStand(work)'
    BY <2>1 DEF QualityInv, RoundsStand, RoundStands, Withstood, CoverageStands
  <2> QED BY <2>1, <2>2, <2>3, QualityMoves DEF QualityInv, QualityTyped
<1>2. CASE Quality!Next
  BY <1>2, QualityBegins, QualityCodes, QualityStops, QualityValidates, QualityGate, QualityGatesEnd,
     QualityDecides, QualityReviews, QualityCommits, QualityPushes DEF Quality!Next
<1> QED BY <1>1, <1>2

\* A cycle has what each of its steps relies on: the gates' verdicts belong to the edit in
\* the working copy, what is committed and pushed withstood them, and the repairs are as
\* many as the settings allow (qualityGates.ts, and the loops of both orchestrators).
THEOREM QualityInvariant == ASSUME QualityConstants PROVE Quality!Spec => []QualityInv
<1>1. Quality!Init => QualityInv
  BY QualityStarts
<1>2. QualityInv /\ [Quality!Next]_(Quality!vars) => QualityInv'
  BY QualityStep
<1> QED BY <1>1, <1>2, PTL DEF Quality!Spec

\* What is pushed is an edit that passed every gate that has a command, and for a task
\* the review as well; Codex runs no more often than the settings allow; and a round
\* that failed names one gate (validateRepositoryState, runSelfReviewGate, publish).
THEOREM PushesAreSound == ASSUME QualityConstants PROVE Quality!Spec => [](Quality!PushedIsSound)
<1>1. QualityInv => Quality!PushedIsSound
  <2> SUFFICES ASSUME QualityInv PROVE Quality!PushedIsSound
    OBVIOUS
  <2>1. Quality!RemoteIsEdit /\ Quality!RemotePassed /\ Quality!RemoteReviewed
    BY DEF QualityInv, PushStands, Withstood, CoverageStands, Quality!RemoteIsEdit,
           Quality!RemotePassed, Quality!RemoteReviewed
  <2>2. Quality!RunsAreBounded
    <3>1. /\ work.runs \in Nat /\ work.attempt \in Nat /\ work.review \in Nat
          /\ MaxFix \in Nat /\ MaxReviewFix \in Nat /\ MaxSelfFix \in Nat
      BY DEF QualityInv, QualityTyped, QualityCycle, QualityConstants
    <3>2. /\ work.runs <= 1 + work.attempt + work.review /\ work.review <= MaxSelfFix
          /\ work.path # "task" => work.review = 0
          /\ work.path = "task" => work.attempt <= MaxFix
          /\ work.path # "task" => work.attempt <= MaxReviewFix
      BY DEF QualityInv, Spent
    <3>3. CASE work.path = "task"
      <4>1. work.runs <= 1 + (MaxFix + MaxSelfFix)
        BY <3>1, <3>2, <3>3
      <4> QED BY <3>3, <4>1 DEF Quality!RunsAreBounded
    <3>4. CASE work.path # "task"
      <4>1. work.runs <= 1 + MaxReviewFix
        BY <3>1, <3>2, <3>4
      <4> QED BY <3>4, <4>1 DEF Quality!RunsAreBounded
    <3> QED BY <3>3, <3>4
  <2>3. Quality!RoundIsWhole
    <3> SUFFICES ASSUME work.at = "decide", work.results # <<>>
                 PROVE  /\ [i \in DOMAIN work.results |-> work.results[i].gate] = Quality!Gates
                        /\ \A i, k \in DOMAIN Quality!Gates :
                              work.results[i].status = "failed" /\ k > i => work.results[k].status = "skipped"
                        /\ Quality!Successful =>
                              \A i \in DOMAIN Quality!Gates :
                                 Quality!Gates[i] \in Commanded => work.results[i].status = "passed"
      BY DEF Quality!RoundIsWhole
    <3>1. /\ work.results \in Seq(Outcomes) /\ RoundStands(work.results, <<>>)
          /\ Len(work.results) = 8 /\ DOMAIN work.results = 1..8
      <4>1. work.results \in Seq(Outcomes) /\ RoundStands(work.results, <<>>)
        BY DEF QualityInv, QualityTyped, QualityCycle, RoundsStand
      <4> QED BY <4>1 DEF RoundStands
    <3>2. DOMAIN Quality!Gates = 1..8 /\ Quality!Gates = [i \in 1..8 |-> Quality!Gates[i]]
      BY GatesAre
    <3>3. \A i \in 1..8 : work.results[i].gate = Quality!Gates[i]
      BY <3>1 DEF RoundStands
    <3>4. [i \in DOMAIN work.results |-> work.results[i].gate] = Quality!Gates
      BY <3>1, <3>2, <3>3
    <3>5. \A i, k \in 1..8 :
             work.results[i].status = "failed" /\ k > i => work.results[k].status = "skipped"
      BY <3>1 DEF RoundStands
    <3>6. Quality!Successful =>
             \A i \in 1..8 : Quality!Gates[i] \in Commanded => work.results[i].status = "passed"
      BY <3>1, SuccessStands DEF Quality!Successful
    <3> QED BY <3>2, <3>4, <3>5, <3>6
  <2> QED BY <2>1, <2>2, <2>3 DEF Quality!PushedIsSound
<1> QED BY <1>1, QualityInvariant, PTL

-----------------------------------------------------------------------------
(* The review of the intake *)

CONSTANT Leases

VARIABLES lease, was, edits, lost

Intake == INSTANCE IntakeReview

IntakeConstants ==
    /\ IsFiniteSet(Workers) /\ Leases \in BOOLEAN
    /\ MaxEdits \in Nat /\ MaxFaults \in Nat

IntakeTyped ==
    /\ issue \in [Issues -> [fields : Nat, said : Nat, open : BOOLEAN, reviews : Seq(Nat \X Nat)]]
    /\ lease \in [Issues -> {<<>>} \cup {<<w>> : w \in Workers}]
    /\ was \in [Issues -> SUBSET (Nat \X Nat)]
    /\ edits \in Nat /\ lost \in Nat

\* What an issue says, in one.
Current(i) == <<issue[i].fields, issue[i].said>>

\* A worker with c is at an issue, and may still write a review of it; one that will
\* write it unless something changes.
Within(c, i) ==
    c.on = i /\ c.at \in {"issue", "comments", "codex", "issue again", "comments again", "post"}
Pends(c, i) ==
    \/ c.at = "post"
    \/ c.at = "comments again" /\ c.prompt = <<c.read, issue[i].said>>

\* The comments in its prompt were there; and where they are those there are, so that
\* only what was read again can differ, what it will write is what the issue once was.
Reading(c, i) ==
    /\ c.at \in {"comments", "comments again"} => c.read \in Nat
    /\ c.at \in {"codex", "issue again", "comments again", "post"} =>
          c.prompt \in Nat \X Nat /\ c.prompt[2] <= issue[i].said
    /\ Pends(c, i) => c.prompt \in was[i]
Reader(c) ==
    /\ c = [at |-> c.at, on |-> c.on, listed |-> c.listed, read |-> c.read, prompt |-> c.prompt]
    /\ c.on \in Issues => Reading(c, c.on)

\* Who is at an issue in his own right, and who has lost his lease.
Owners(i)  == {w \in Workers : Within(work[w], i) /\ (Leases => lease[i] = <<w>>)}
Orphans(i) == {w \in Workers : Within(work[w], i) /\ Leases /\ lease[i] # <<w>>}

\* An owner will write what is there already; or what is neither there nor is so any more.
Twice(i)  == \E w \in Owners(i) : work[w].at = "post" /\ work[w].prompt = Intake!Latest(i)
Behind(i) == \E w \in Owners(i) : Pends(work[w], i) /\ work[w].prompt \notin {Intake!Latest(i), Current(i)}

\* So many reviews may follow without another change.
Again(i) == IF Twice(i) THEN 1 ELSE 0
Due(i)   == IF Behind(i) THEN 2 ELSE IF Intake!Latest(i) # Current(i) THEN 1 ELSE 0

\* Each lease that was lost may cost a review that repeats one, and two that follow none.
Covered(repeats, orphans, again, due, reviews, changes, losses) ==
    /\ repeats + orphans + again <= losses
    /\ reviews + 2 * orphans + due + again <= 1 + changes + 2 * losses
Paid(i) == Covered(Cardinality(Intake!Repeats(i)), Cardinality(Orphans(i)), Again(i), Due(i),
                   Len(issue[i].reviews), edits, lost)

IsAlone == Leases \/ \A v, w \in Workers : v = w

IntakeInv ==
    /\ IntakeTyped
    /\ \A i \in Issues : Current(i) \in was[i] /\ \A k \in 1..Len(issue[i].reviews) : issue[i].reviews[k] \in was[i]
    /\ DOMAIN work = Workers /\ work = [w \in Workers |-> work[w]]
    /\ \A w \in Workers : Reader(work[w])
    /\ IsAlone => \A i \in Issues : Paid(i)

\* There is one owner at most.
LEMMA OneOwner ==
    ASSUME IntakeTyped, IsAlone, NEW i \in Issues, NEW v \in Owners(i), NEW w \in Owners(i)
    PROVE  v = w
<1>1. CASE Leases
  <2>1. lease[i] = <<v>> /\ lease[i] = <<w>>
    BY <1>1 DEF Owners
  <2>2. <<v>>[1] = <<w>>[1]
    BY <2>1
  <2> QED BY <2>2
<1>2. CASE ~Leases
  BY <1>2 DEF Owners, IsAlone
<1> QED BY <1>1, <1>2 DEF IntakeConstants

\* The numbers are numbers.
LEMMA Counts ==
    ASSUME IntakeConstants, IntakeTyped, NEW i \in Issues
    PROVE  /\ IsFiniteSet(Orphans(i)) /\ Cardinality(Orphans(i)) \in Nat
           /\ IsFiniteSet(Intake!Repeats(i)) /\ Cardinality(Intake!Repeats(i)) \in Nat
           /\ Again(i) \in {0, 1} /\ Due(i) \in {0, 1, 2} /\ Len(issue[i].reviews) \in Nat
<1>1. IsFiniteSet(Orphans(i))
  <2>1. Orphans(i) \subseteq Workers /\ IsFiniteSet(Workers)
    BY DEF Orphans, IntakeConstants
  <2> QED BY <2>1, FS_Subset
<1>2. Len(issue[i].reviews) \in Nat
  BY DEF IntakeTyped
<1>3. IsFiniteSet(Intake!Repeats(i))
  <2>1. IsFiniteSet(1..Len(issue[i].reviews) - 1)
    BY <1>2, FS_Interval
  <2>2. Intake!Repeats(i) \subseteq 1..Len(issue[i].reviews) - 1
    BY DEF Intake!Repeats
  <2> QED BY <2>1, <2>2, FS_Subset
<1>4. Again(i) \in {0, 1} /\ Due(i) \in {0, 1, 2}
  BY DEF Again, Due
<1> QED BY <1>1, <1>2, <1>3, <1>4, FS_CardinalityType

\* Where nothing is posted, the count stays good as long as nobody new threatens.
LEMMA PaidStays ==
    ASSUME IntakeConstants, IntakeTyped, IntakeTyped', NEW i \in Issues, Paid(i),
           UNCHANGED <<edits, lost, issue[i]>>,
           Orphans(i)' \subseteq Orphans(i), Twice(i)' => Twice(i), Behind(i)' => Behind(i)
    PROVE  Paid(i)'
<1>1. Cardinality(Orphans(i)') <= Cardinality(Orphans(i)) /\ Cardinality(Orphans(i)') \in Nat
  BY Counts, FS_Subset, FS_CardinalityType
<1>2. Again(i)' <= Again(i) /\ Again(i)' \in Nat
  BY DEF Again
<1>3. Due(i)' <= Due(i) /\ Due(i)' \in Nat
  BY DEF Due, Intake!Latest, Current, Intake!None, Intake!Last
<1>4. Intake!Repeats(i)' = Intake!Repeats(i)
  BY DEF Intake!Repeats
<1>5. PICK r, o, a, d, n, e, l :
        /\ r = Cardinality(Intake!Repeats(i)) /\ o = Cardinality(Orphans(i)) /\ a = Again(i)
        /\ d = Due(i) /\ n = Len(issue[i].reviews) /\ e = edits /\ l = lost
  OBVIOUS
<1>6. PICK o2, a2, d2 : o2 = Cardinality(Orphans(i)') /\ a2 = Again(i)' /\ d2 = Due(i)'
  OBVIOUS
<1>7. /\ r \in Nat /\ o \in Nat /\ a \in Nat /\ d \in Nat /\ n \in Nat /\ e \in Nat /\ l \in Nat
      /\ o2 \in Nat /\ a2 \in Nat /\ d2 \in Nat /\ o2 <= o /\ a2 <= a /\ d2 <= d
  <2>1. r \in Nat /\ o \in Nat /\ a \in {0, 1} /\ d \in {0, 1, 2} /\ n \in Nat
    BY <1>5, Counts
  <2>2. a \in Nat /\ d \in Nat
    BY <2>1
  <2>3. e \in Nat /\ l \in Nat
    BY <1>5 DEF IntakeTyped
  <2>4. o2 \in Nat /\ a2 \in Nat /\ d2 \in Nat /\ o2 <= o /\ a2 <= a /\ d2 <= d
    BY <1>1, <1>2, <1>3, <1>5, <1>6
  <2> QED BY <2>1, <2>2, <2>3, <2>4
<1>8. Covered(r, o, a, d, n, e, l)
  BY <1>5 DEF Paid
<1>9. Covered(r, o2, a2, d2, n, e, l)
  BY <1>7, <1>8 DEF Covered
<1>10. /\ r = Cardinality(Intake!Repeats(i))' /\ o2 = Cardinality(Orphans(i))' /\ a2 = Again(i)'
       /\ d2 = Due(i)' /\ n = Len(issue[i].reviews)' /\ e = edits' /\ l = lost'
  BY <1>4, <1>5, <1>6
<1> QED BY <1>9, <1>10 DEF Paid

\* What a worker turns to relies on what is so, and threatens nothing that it did not.
Safely(c, w) ==
    /\ Reader(c)
    /\ \A i \in Issues :
          Within(c, i) =>
             /\ Leases /\ lease'[i] # <<w>> => w \in Orphans(i)
             /\ c.at = "post" => c.prompt # Intake!Latest(i)
             /\ /\ Pends(c, i) /\ c.prompt \notin {Intake!Latest(i), Current(i)}
                /\ Leases => lease'[i] = <<w>>
                => w \in Owners(i) /\ Pends(work[w], i) /\ work[w].prompt = c.prompt

\* Nobody's lease is taken from him, or given to him.
LeasesStay(w) ==
    /\ lease' \in [Issues -> {<<>>} \cup {<<v>> : v \in Workers}]
    /\ \A i \in Issues : \A v \in Workers \ {w} : lease'[i] = <<v>> <=> lease[i] = <<v>>

\* A step of a worker that leaves the issues, and everybody else's lease, as they are.
LEMMA IntakeMoves ==
    ASSUME IntakeConstants, IntakeInv, NEW w \in Workers, NEW c,
           work' = [work EXCEPT ![w] = c], UNCHANGED <<issue, was, edits, lost>>,
           LeasesStay(w), Safely(c, w)
    PROVE  IntakeInv'
<1>1. IntakeTyped /\ IntakeTyped'
  BY DEF IntakeInv, IntakeTyped, LeasesStay
<1>2. /\ DOMAIN work' = Workers /\ work' = [v \in Workers |-> work'[v]]
      /\ work'[w] = c /\ \A v \in Workers \ {w} : work'[v] = work[v]
  BY DEF IntakeInv
<1>3. ASSUME NEW v \in Workers PROVE Reader(work[v])'
  <2>1. PICK d : d = work'[v]
    OBVIOUS
  <2>2. Reader(d)
    BY <1>2, <2>1 DEF IntakeInv, Safely
  <2>3. Reader(d)'
    BY <2>2 DEF Reader, Reading, Pends
  <2> QED BY <2>1, <2>3 DEF Reader, Reading, Pends
<1>4. ASSUME IsAlone, NEW i \in Issues PROVE Paid(i)'
  <2>1. Intake!Latest(i)' = Intake!Latest(i) /\ Current(i)' = Current(i)
    BY DEF Intake!Latest, Intake!None, Intake!Last, Current
  <2>2. Orphans(i)' \subseteq Orphans(i)
    <3> SUFFICES ASSUME NEW v \in Workers, Within(work'[v], i), Leases, lease'[i] # <<v>>
                 PROVE  v \in Orphans(i)
      BY DEF Orphans, Within
    <3>1. CASE v = w
      BY <1>2, <3>1 DEF Safely
    <3>2. CASE v # w
      BY <1>2, <3>2 DEF Orphans, LeasesStay
    <3> QED BY <3>1, <3>2
  <2>3. Twice(i)' => Twice(i)
    <3> SUFFICES ASSUME NEW v \in Workers, Within(work'[v], i), Leases => lease'[i] = <<v>>,
                        work'[v].at = "post", work'[v].prompt = Intake!Latest(i)
                 PROVE  Twice(i)
      BY <2>1 DEF Twice, Owners, Within
    <3>1. v # w
      BY <1>2 DEF Safely
    <3> QED BY <1>2, <3>1 DEF Twice, Owners, LeasesStay
  <2>4. Behind(i)' => Behind(i)
    <3> SUFFICES ASSUME NEW v \in Workers, Within(work'[v], i), Leases => lease'[i] = <<v>>,
                        Pends(work'[v], i), work'[v].prompt \notin {Intake!Latest(i), Current(i)}
                 PROVE  Behind(i)
      BY <2>1 DEF Behind, Owners, Within, Pends
    <3>1. CASE v = w
      <4>1. w \in Owners(i) /\ Pends(work[w], i) /\ work[w].prompt = c.prompt
        BY <1>2, <3>1 DEF Safely
      <4> QED BY <1>2, <3>1, <4>1 DEF Behind
    <3>2. CASE v # w
      BY <1>2, <3>2 DEF Behind, Owners, LeasesStay
    <3> QED BY <3>1, <3>2
  <2>5. Paid(i)
    BY <1>4 DEF IntakeInv
  <2> QED BY <1>1, <2>2, <2>3, <2>4, <2>5, PaidStays
<1> QED BY <1>1, <1>2, <1>3, <1>4 DEF IntakeInv, Current, IsAlone

LEMMA IntakeStarts == ASSUME IntakeConstants, Intake!Init PROVE IntakeInv
<1>1. /\ issue = [i \in Issues |-> [fields |-> 0, said |-> 0, open |-> TRUE, reviews |-> <<>>]]
      /\ work = [w \in Workers |-> Intake!Idle] /\ lease = [i \in Issues |-> <<>>]
      /\ was = [i \in Issues |-> {<<0, 0>>}] /\ edits = 0 /\ lost = 0
  BY DEF Intake!Init
<1>2. <<>> \in Seq(Nat \X Nat) /\ <<0, 0>> \in Nat \X Nat /\ Len(<<>>) = 0
  OBVIOUS
<1>3. IntakeTyped
  BY <1>1, <1>2 DEF IntakeTyped
<1>4. ASSUME NEW i \in Issues
      PROVE  /\ Current(i) \in was[i] /\ issue[i].reviews = <<>> /\ Len(issue[i].reviews) = 0
             /\ \A k \in 1..Len(issue[i].reviews) : issue[i].reviews[k] \in was[i]
  BY <1>1, <1>2 DEF Current
<1>5. \A w \in Workers : Reader(work[w]) /\ \A i \in Issues : ~Within(work[w], i)
  BY <1>1 DEF Reader, Reading, Within, Pends, Intake!Idle, Intake!None
<1>6. ASSUME NEW i \in Issues PROVE Paid(i)
  <2>1. Orphans(i) = {} /\ Owners(i) = {}
    BY <1>5 DEF Orphans, Owners
  <2>2. Intake!Repeats(i) = {}
    <3>1. 1..Len(issue[i].reviews) - 1 = {}
      BY <1>4
    <3> QED BY <3>1 DEF Intake!Repeats
  <2>3. Cardinality(Orphans(i)) = 0 /\ Cardinality(Intake!Repeats(i)) = 0
    BY <2>1, <2>2, FS_EmptySet
  <2>4. Again(i) = 0 /\ Due(i) \in {0, 1}
    BY <2>1 DEF Again, Due, Twice, Behind
  <2>5. \A d \in {0, 1} : Covered(0, 0, 0, d, 0, 0, 0)
    BY DEF Covered
  <2> QED BY <1>1, <1>4, <2>3, <2>4, <2>5 DEF Paid
<1> QED BY <1>1, <1>3, <1>4, <1>5, <1>6 DEF IntakeInv

\* Of a worker at one of its steps.
LEMMA AtWork ==
    ASSUME IntakeInv, NEW w \in Workers
    PROVE  /\ Reader(work[w]) /\ lease \in [Issues -> {<<>>} \cup {<<v>> : v \in Workers}]
           /\ issue \in [Issues -> [fields : Nat, said : Nat, open : BOOLEAN, reviews : Seq(Nat \X Nat)]]
           /\ was \in [Issues -> SUBSET (Nat \X Nat)] /\ \A i \in Issues : Current(i) \in was[i]
BY DEF IntakeInv, IntakeTyped

\* Away from an issue, or having just come to it, a worker relies on nothing.
LEMMA Outside ==
    ASSUME NEW w, NEW c, c.at \in {"idle", "look", "lease", "release"},
           c = [at |-> c.at, on |-> c.on, listed |-> c.listed, read |-> c.read, prompt |-> c.prompt]
    PROVE  Safely(c, w)
BY DEF Safely, Reader, Reading, Within, Pends

LEMMA LeasesUntouched ==
    ASSUME IntakeInv, NEW w, UNCHANGED lease
    PROVE  LeasesStay(w)
BY DEF IntakeInv, IntakeTyped, LeasesStay

LEMMA IntakeSearches ==
    ASSUME IntakeConstants, IntakeInv, NEW w \in Workers, Intake!Search(w) \/ Intake!Pick(w)
    PROVE  IntakeInv'
<1>1. UNCHANGED <<issue, was, edits, lost, lease>> /\ LeasesStay(w)
  BY LeasesUntouched DEF Intake!Search, Intake!Pick, Intake!Same
<1>2. PICK d : d = work[w] /\ Reader(d)
  BY AtWork
<1>3. CASE Intake!Search(w)
  <2>1. PICK listed : work' = [work EXCEPT ![w] = [Intake!Idle EXCEPT !.at = "look", !.listed = listed]]
    BY <1>3 DEF Intake!Search
  <2>2. PICK c : c = [Intake!Idle EXCEPT !.at = "look", !.listed = listed]
    OBVIOUS
  <2>3. Safely(c, w)
    <3>1. c = [at |-> c.at, on |-> c.on, listed |-> c.listed, read |-> c.read, prompt |-> c.prompt]
          /\ c.at = "look"
      BY <2>2 DEF Intake!Idle
    <3> QED BY <3>1, Outside
  <2> QED BY <1>1, <2>1, <2>2, <2>3, IntakeMoves
<1>4. CASE Intake!Pick(w)
  <2>1. CASE d.listed = <<>>
    <3>1. PICK c : c = Intake!Idle
      OBVIOUS
    <3>2. work' = [work EXCEPT ![w] = c]
      BY <1>2, <1>4, <2>1, <3>1 DEF Intake!Pick
    <3>3. c = [at |-> c.at, on |-> c.on, listed |-> c.listed, read |-> c.read, prompt |-> c.prompt]
          /\ c.at = "idle"
      BY <3>1 DEF Intake!Idle
    <3>4. Safely(c, w)
      BY <3>3, Outside
    <3> QED BY <1>1, <3>2, <3>4, IntakeMoves
  <2>2. CASE d.listed # <<>>
    <3> DEFINE x == Head(d.listed)
               at == IF Intake!Latest(x.on) = <<x.fields, issue[x.on].said>> THEN "look" ELSE "lease"
    <3>1. PICK c : c = [d EXCEPT !.on = x.on, !.listed = Tail(d.listed), !.at = at]
      OBVIOUS
    <3>2. work' = [work EXCEPT ![w] = c]
      BY <1>2, <1>4, <2>2, <3>1 DEF Intake!Pick
    <3>3. at \in {"look", "lease"}
      OBVIOUS
    <3> HIDE DEF x, at
    <3>4. c = [at |-> c.at, on |-> c.on, listed |-> c.listed, read |-> c.read, prompt |-> c.prompt]
          /\ c.at = at
      BY <1>2, <3>1 DEF Reader
    <3>5. Safely(c, w)
      BY <3>3, <3>4, Outside
    <3> QED BY <1>1, <3>2, <3>5, IntakeMoves
  <2> QED BY <2>1, <2>2
<1> QED BY <1>3, <1>4

LEMMA IntakeReads ==
    ASSUME IntakeConstants, IntakeInv, NEW w \in Workers, Intake!ReadIssue(w)
    PROVE  IntakeInv'
<1>1. UNCHANGED <<issue, was, edits, lost, lease>> /\ LeasesStay(w)
  BY LeasesUntouched DEF Intake!ReadIssue, Intake!Same
<1>2. PICK d : d = work[w] /\ Reader(d) /\ d.at \in {"issue", "issue again"}
  BY AtWork DEF Intake!ReadIssue
<1> DEFINE at == CASE d.at = "issue" -> "comments"
                   [] d.at # "issue" /\ ~Intake!Eligible(d.on) -> "release"
                   [] OTHER -> "comments again"
<1>3. PICK c : c = [d EXCEPT !.read = issue[d.on].fields, !.at = at]
  OBVIOUS
<1>4. work' = [work EXCEPT ![w] = c]
  BY <1>2, <1>3 DEF Intake!ReadIssue
<1>5. \/ at = "release"
      \/ at = "comments"
      \/ at = "comments again" /\ d.at = "issue again"
  BY <1>2
<1> HIDE DEF at
<1>6. /\ c = [at |-> c.at, on |-> c.on, listed |-> c.listed, read |-> c.read, prompt |-> c.prompt]
      /\ c.at = at /\ c.on = d.on /\ c.read = issue[d.on].fields /\ c.prompt = d.prompt
  BY <1>2, <1>3 DEF Reader
<1>7. CASE at = "release"
  <2>1. Safely(c, w)
    BY <1>6, <1>7, Outside
  <2> QED BY <1>1, <1>4, <2>1, IntakeMoves
<1>8. CASE at # "release"
  <2>1. ASSUME d.on \in Issues
        PROVE  Reading(c, d.on) /\ (at = "comments again" /\ Pends(c, d.on) => c.prompt = Current(d.on))
    <3>1. /\ issue[d.on].fields \in Nat /\ issue[d.on].said \in Nat
          /\ Current(d.on) \in was[d.on] /\ Reading(d, d.on)
      BY <1>2, <2>1, AtWork DEF Reader
    <3>2. at = "comments again" /\ Pends(c, d.on) => c.prompt = Current(d.on)
      BY <1>6 DEF Pends, Current
    <3>3. CASE at = "comments"
      BY <1>6, <3>1, <3>3 DEF Reading, Pends
    <3>4. CASE at = "comments again" /\ d.at = "issue again"
      <4>1. d.prompt \in Nat \X Nat /\ d.prompt[2] <= issue[d.on].said
        BY <3>1, <3>4 DEF Reading
      <4> QED BY <1>6, <3>1, <3>2, <3>4, <4>1 DEF Reading
    <3> QED BY <1>5, <1>8, <3>2, <3>3, <3>4
  <2>2. Reader(c)
    BY <1>6, <2>1 DEF Reader
  <2>3. ASSUME NEW i \in Issues, Within(c, i)
        PROVE  /\ Leases /\ lease'[i] # <<w>> => w \in Orphans(i)
               /\ c.at # "post"
               /\ Pends(c, i) => c.prompt = Current(i)
    <3>1. Within(work[w], i) /\ d.on = i
      BY <1>2, <1>6, <2>3 DEF Within
    <3>2. c.at # "post"
      BY <1>5, <1>6, <1>8
    <3>3. Pends(c, i) => c.prompt = Current(i)
      BY <1>5, <1>6, <2>1, <3>1, <3>2 DEF Pends
    <3> QED BY <1>1, <3>1, <3>2, <3>3 DEF Orphans
  <2>4. Safely(c, w)
    BY <2>2, <2>3 DEF Safely
  <2> QED BY <1>1, <1>4, <2>4, IntakeMoves
<1> QED BY <1>7, <1>8

LEMMA IntakePrompts ==
    ASSUME IntakeConstants, IntakeInv, NEW w \in Workers, Intake!ReadComments(w)
    PROVE  IntakeInv'
<1>1. UNCHANGED <<issue, was, edits, lost, lease>> /\ LeasesStay(w)
  BY LeasesUntouched DEF Intake!ReadComments, Intake!Same
<1>2. PICK d : d = work[w] /\ Reader(d) /\ d.at = "comments"
  BY AtWork DEF Intake!ReadComments
<1>3. PICK at, prompt :
        /\ work' = [work EXCEPT ![w] = [d EXCEPT !.prompt = prompt, !.at = at]]
        /\ at = "release" \/ (at = "codex" /\ prompt = Intake!Fingerprint(w))
  <2>1. CASE Intake!Unchanged(w)
    BY <1>2, <2>1 DEF Intake!ReadComments
  <2>2. CASE ~Intake!Unchanged(w)
    BY <1>2, <2>2 DEF Intake!ReadComments
  <2> QED BY <2>1, <2>2
<1>4. PICK c : c = [d EXCEPT !.prompt = prompt, !.at = at]
  OBVIOUS
<1>5. /\ c = [at |-> c.at, on |-> c.on, listed |-> c.listed, read |-> c.read, prompt |-> c.prompt]
      /\ c.at = at /\ c.on = d.on /\ c.read = d.read /\ c.prompt = prompt
  BY <1>2, <1>4 DEF Reader
<1>6. CASE at = "release"
  <2>1. Safely(c, w)
    BY <1>5, <1>6, Outside
  <2> QED BY <1>1, <1>3, <1>4, <2>1, IntakeMoves
<1>7. CASE at = "codex" /\ prompt = Intake!Fingerprint(w)
  <2>1. ASSUME d.on \in Issues PROVE Reading(c, d.on)
    <3>1. d.read \in Nat /\ issue[d.on].said \in Nat
      BY <1>2, <2>1, AtWork DEF Reader, Reading
    <3>2. prompt = <<d.read, issue[d.on].said>>
      BY <1>2, <1>7 DEF Intake!Fingerprint
    <3>3. prompt \in Nat \X Nat /\ prompt[2] <= issue[d.on].said
      BY <3>1, <3>2
    <3> QED BY <1>5, <1>7, <3>3 DEF Reading, Pends
  <2>2. Reader(c)
    BY <1>5, <2>1 DEF Reader
  <2>3. ASSUME NEW i \in Issues, Within(c, i)
        PROVE  /\ Leases /\ lease'[i] # <<w>> => w \in Orphans(i)
               /\ c.at # "post" /\ ~Pends(c, i)
    BY <1>1, <1>2, <1>5, <1>7, <2>3 DEF Within, Orphans, Pends
  <2>4. Safely(c, w)
    BY <2>2, <2>3 DEF Safely
  <2> QED BY <1>1, <1>3, <1>4, <2>4, IntakeMoves
<1> QED BY <1>3, <1>6, <1>7

\* A worker enters another stage at the same issue.
LEMMA Enters ==
    ASSUME IntakeInv, NEW w \in Workers, NEW at, Intake!Enter(w, at)
    PROVE  \E c : /\ work' = [work EXCEPT ![w] = c] /\ c.at = at
                  /\ c = [at |-> c.at, on |-> c.on, listed |-> c.listed, read |-> c.read, prompt |-> c.prompt]
                  /\ c.on = work[w].on /\ c.read = work[w].read /\ c.prompt = work[w].prompt
<1>1. PICK d : d = work[w] /\ Reader(d)
  BY AtWork
<1>2. PICK c : c = [d EXCEPT !.at = at]
  OBVIOUS
<1>3. work' = [work EXCEPT ![w] = c]
  BY <1>1, <1>2 DEF Intake!Enter, IntakeInv
<1>4. /\ c.at = at
      /\ c = [at |-> c.at, on |-> c.on, listed |-> c.listed, read |-> c.read, prompt |-> c.prompt]
      /\ c.on = d.on /\ c.read = d.read /\ c.prompt = d.prompt
  BY <1>1, <1>2 DEF Reader
<1> QED BY <1>1, <1>3, <1>4

LEMMA IntakeFails ==
    ASSUME IntakeConstants, IntakeInv, NEW w \in Workers, Intake!Codex(w) \/ Intake!Fail(w)
    PROVE  IntakeInv'
<1>1. UNCHANGED <<issue, was, edits, lost, lease>> /\ LeasesStay(w)
  BY LeasesUntouched DEF Intake!Codex, Intake!Fail, Intake!Same
<1>2. PICK d : d = work[w] /\ Reader(d)
  BY AtWork
<1>3. CASE Intake!Codex(w)
  <2>1. PICK at : at = "issue again"
    OBVIOUS
  <2>2. Intake!Enter(w, at)
    BY <1>3, <2>1 DEF Intake!Codex
  <2>3. PICK c : /\ work' = [work EXCEPT ![w] = c] /\ c.at = at
                 /\ c = [at |-> c.at, on |-> c.on, listed |-> c.listed, read |-> c.read, prompt |-> c.prompt]
                 /\ c.on = work[w].on /\ c.read = work[w].read /\ c.prompt = work[w].prompt
    BY <2>2, Enters
  <2>4. d.at = "codex"
    BY <1>2, <1>3 DEF Intake!Codex
  <2>5. Reader(c)
    BY <1>2, <2>3, <2>4, <2>1 DEF Reader, Reading, Pends
  <2>6. ASSUME NEW i \in Issues, Within(c, i)
        PROVE  /\ Leases /\ lease'[i] # <<w>> => w \in Orphans(i)
               /\ c.at # "post" /\ ~Pends(c, i)
    BY <1>1, <1>2, <2>3, <2>4, <2>6, <2>1 DEF Within, Orphans, Pends
  <2>7. Safely(c, w)
    BY <2>5, <2>6 DEF Safely
  <2> QED BY <1>1, <2>3, <2>7, IntakeMoves
<1>4. CASE Intake!Fail(w) /\ Intake!Enter(w, "release")
  <2>1. PICK c : /\ work' = [work EXCEPT ![w] = c] /\ c.at = "release"
                 /\ c = [at |-> c.at, on |-> c.on, listed |-> c.listed, read |-> c.read, prompt |-> c.prompt]
    BY <1>2, <1>4, Enters
  <2>2. Safely(c, w)
    BY <2>1, Outside
  <2> QED BY <1>1, <2>1, <2>2, IntakeMoves
<1>5. CASE work' = [work EXCEPT ![w] = Intake!Idle]
  <2>1. PICK c : c = Intake!Idle
    OBVIOUS
  <2>2. c = [at |-> c.at, on |-> c.on, listed |-> c.listed, read |-> c.read, prompt |-> c.prompt]
        /\ c.at = "idle"
    BY <2>1 DEF Intake!Idle
  <2>3. Safely(c, w)
    BY <2>2, Outside
  <2> QED BY <1>1, <1>5, <2>1, <2>3, IntakeMoves
<1> QED BY <1>3, <1>4, <1>5 DEF Intake!Fail

LEMMA IntakeCompares ==
    ASSUME IntakeConstants, IntakeInv, NEW w \in Workers, Intake!Compare(w)
    PROVE  IntakeInv'
<1>1. UNCHANGED <<issue, was, edits, lost, lease>> /\ LeasesStay(w)
  BY LeasesUntouched DEF Intake!Compare, Intake!Same
<1>2. PICK d : d = work[w] /\ Reader(d) /\ d.at = "comments again"
  BY AtWork DEF Intake!Compare
<1>3. PICK at : Intake!Enter(w, at) /\ at = (IF Intake!Unchanged(w) \/ Intake!Stale(w) THEN "release" ELSE "post")
  BY DEF Intake!Compare
<1>4. PICK c : /\ work' = [work EXCEPT ![w] = c] /\ c.at = at
               /\ c = [at |-> c.at, on |-> c.on, listed |-> c.listed, read |-> c.read, prompt |-> c.prompt]
               /\ c.on = work[w].on /\ c.read = work[w].read /\ c.prompt = work[w].prompt
  BY <1>3, Enters
<1>5. CASE at = "release"
  <2>1. Safely(c, w)
    BY <1>4, <1>5, Outside
  <2> QED BY <1>1, <1>4, <2>1, IntakeMoves
<1>6. CASE at = "post" /\ ~Intake!Unchanged(w) /\ ~Intake!Stale(w)
  <2>1. d.prompt = <<d.read, issue[d.on].said>> /\ Intake!Latest(d.on) # d.prompt
    BY <1>2, <1>6 DEF Intake!Unchanged, Intake!Stale, Intake!Fingerprint
  <2>2. Reader(c)
    BY <1>2, <1>4, <1>6, <2>1 DEF Reader, Reading, Pends
  <2>3. ASSUME NEW i \in Issues, Within(c, i)
        PROVE  /\ Leases /\ lease'[i] # <<w>> => w \in Orphans(i)
               /\ c.prompt # Intake!Latest(i)
               /\ (Leases => lease'[i] = <<w>>) => w \in Owners(i)
               /\ Pends(work[w], i) /\ work[w].prompt = c.prompt
    <3>1. d.on = i /\ Within(work[w], i)
      BY <1>2, <1>4, <2>3 DEF Within
    <3>2. Pends(work[w], i) /\ c.prompt # Intake!Latest(i)
      BY <1>2, <1>4, <2>1, <3>1 DEF Pends
    <3> QED BY <1>1, <1>2, <1>4, <3>1, <3>2 DEF Orphans, Owners
  <2>4. Safely(c, w)
    BY <2>2, <2>3 DEF Safely
  <2> QED BY <1>1, <1>4, <2>4, IntakeMoves
<1> QED BY <1>3, <1>5, <1>6

LEMMA IntakeLeases ==
    ASSUME IntakeConstants, IntakeInv, NEW w \in Workers, Intake!Lease(w) \/ Intake!Release(w)
    PROVE  IntakeInv'
<1>1. UNCHANGED <<issue, was, edits, lost>>
  BY DEF Intake!Lease, Intake!Release
<1>2. PICK d : d = work[w] /\ Reader(d)
  BY AtWork
<1>3. ASSUME NEW v, NEW u, <<v>> = <<u>> PROVE v = u
  <2>1. <<v>>[1] = <<u>>[1]
    BY <1>3
  <2> QED BY <2>1
<1>4. ASSUME d.on \in Issues, Intake!Rightful(d.on) \subseteq {w} PROVE lease[d.on] \in {<<>>, <<w>>}
  <2>1. CASE lease[d.on] = <<>>
    BY <2>1
  <2>2. CASE \E v \in Workers : lease[d.on] = <<v>>
    <3>1. PICK v \in Workers : lease[d.on] = <<v>>
      BY <2>2
    <3>2. v \in Intake!Rightful(d.on)
      BY <3>1 DEF Intake!Rightful, Intake!ToSet
    <3> QED BY <1>4, <3>1, <3>2
  <2> QED BY <1>4, <2>1, <2>2, AtWork
<1>5. ASSUME NEW s \in {<<>>, <<w>>}, lease' = [lease EXCEPT ![d.on] = s],
             d.on \in Issues => lease[d.on] \in {<<>>, <<w>>}
      PROVE  LeasesStay(w)
  <2>1. lease' \in [Issues -> {<<>>} \cup {<<v>> : v \in Workers}]
    BY <1>5, AtWork
  <2>2. \A v \in Workers \ {w} : <<v>> # <<w>> /\ <<v>> # <<>>
    BY <1>3
  <2>3. \A i \in Issues : \A v \in Workers \ {w} : lease'[i] = <<v>> <=> lease[i] = <<v>>
    BY <1>5, <2>2, AtWork
  <2> QED BY <2>1, <2>3 DEF LeasesStay
<1>6. LeasesStay(w)
  <2>1. CASE Intake!Lease(w)
    <3>1. CASE ~(Leases /\ Intake!Free(w))
      BY <2>1, <3>1, LeasesUntouched DEF Intake!Lease
    <3>2. CASE Leases /\ Intake!Free(w)
      <4>1. lease' = [lease EXCEPT ![d.on] = <<w>>] /\ Intake!Rightful(d.on) \subseteq {w}
        BY <1>2, <2>1, <3>2 DEF Intake!Lease, Intake!Free
      <4> QED BY <1>4, <1>5, <4>1
    <3> QED BY <3>1, <3>2
  <2>2. CASE Intake!Release(w)
    <3>1. lease' = [lease EXCEPT ![d.on] = IF Intake!Rightful(d.on) = {w} THEN <<>> ELSE lease[d.on]]
      BY <1>2, <2>2 DEF Intake!Release
    <3>2. CASE Intake!Rightful(d.on) = {w}
      <4>1. lease' = [lease EXCEPT ![d.on] = <<>>] /\ Intake!Rightful(d.on) \subseteq {w}
        BY <3>1, <3>2
      <4> QED BY <1>4, <1>5, <4>1
    <3>3. CASE Intake!Rightful(d.on) # {w}
      <4>1. lease' = lease
        BY <3>1, <3>3, AtWork
      <4> QED BY <4>1, LeasesUntouched
    <3> QED BY <3>2, <3>3
  <2> QED BY <2>1, <2>2
<1>7. CASE work' = [work EXCEPT ![w] = Intake!Idle]
  <2>1. PICK c : c = Intake!Idle
    OBVIOUS
  <2>2. c = [at |-> c.at, on |-> c.on, listed |-> c.listed, read |-> c.read, prompt |-> c.prompt]
        /\ c.at = "idle"
    BY <2>1 DEF Intake!Idle
  <2>3. Safely(c, w)
    BY <2>2, Outside
  <2> QED BY <1>1, <1>6, <1>7, <2>1, <2>3, IntakeMoves
<1>8. CASE Intake!Enter(w, "issue") /\ (Leases => lease' = [lease EXCEPT ![d.on] = <<w>>])
  <2>1. PICK c : /\ work' = [work EXCEPT ![w] = c] /\ c.at = "issue"
                 /\ c = [at |-> c.at, on |-> c.on, listed |-> c.listed, read |-> c.read, prompt |-> c.prompt]
                 /\ c.on = d.on
    BY <1>2, <1>8, Enters
  <2>2. Reader(c)
    BY <2>1 DEF Reader, Reading, Pends
  <2>3. ASSUME NEW i \in Issues, Within(c, i)
        PROVE  (Leases => lease'[i] = <<w>>) /\ c.at # "post" /\ ~Pends(c, i)
    BY <1>8, <2>1, <2>3, AtWork DEF Within, Pends
  <2>4. Safely(c, w)
    BY <2>2, <2>3 DEF Safely
  <2> QED BY <1>1, <1>6, <2>1, <2>4, IntakeMoves
<1> QED BY <1>2, <1>7, <1>8 DEF Intake!Lease, Intake!Release

LEMMA CountsNext ==
    ASSUME IntakeConstants, IntakeTyped', NEW i \in Issues
    PROVE  /\ Cardinality(Orphans(i))' \in Nat /\ Cardinality(Intake!Repeats(i))' \in Nat
           /\ Again(i)' \in {0, 1} /\ Due(i)' \in {0, 1, 2}
<1>1. PICK O : O = Orphans(i)'
  OBVIOUS
<1>2. O \subseteq Workers /\ IsFiniteSet(Workers)
  BY <1>1 DEF Orphans, IntakeConstants
<1>3. PICK R, n : R = Intake!Repeats(i)' /\ n = Len(issue'[i].reviews)
  OBVIOUS
<1>4. R \subseteq 1..n - 1 /\ IsFiniteSet(1..n - 1)
  <2>1. n \in Nat
    BY <1>3 DEF IntakeTyped
  <2>2. 1 \in Int /\ n - 1 \in Int
    BY <2>1
  <2>3. IsFiniteSet(1..n - 1)
    BY <2>2, FS_Interval
  <2> QED BY <1>3, <2>3 DEF Intake!Repeats
<1>5. Cardinality(O) \in Nat /\ Cardinality(R) \in Nat
  BY <1>2, <1>4, FS_Subset, FS_CardinalityType
<1>6. Again(i)' \in {0, 1} /\ Due(i)' \in {0, 1, 2}
  BY DEF Again, Due
<1> QED BY <1>1, <1>3, <1>5, <1>6

\* What somebody else's post does to an issue: nothing, if it is at another.
LEMMA Elsewhere ==
    ASSUME IntakeConstants, IntakeInv, IntakeTyped', IsAlone, NEW i \in Issues, NEW w \in Workers, NEW c,
           work' = [work EXCEPT ![w] = c], c.at = "release", UNCHANGED <<lease, edits, lost, issue[i]>>
    PROVE  Paid(i)'
<1>1. work'[w] = c /\ \A v \in Workers \ {w} : work'[v] = work[v]
  BY DEF IntakeInv
<1>2. ~Within(c, i)
  BY DEF Within
<1>3. Intake!Latest(i)' = Intake!Latest(i) /\ Current(i)' = Current(i)
  BY DEF Intake!Latest, Intake!None, Intake!Last, Current
<1>4. Orphans(i)' \subseteq Orphans(i)
  BY <1>1, <1>2 DEF Orphans, Within
<1>5. Twice(i)' => Twice(i)
  BY <1>1, <1>2, <1>3 DEF Twice, Owners, Within
<1>6. Behind(i)' => Behind(i)
  <2> SUFFICES ASSUME NEW v \in Workers, Within(work'[v], i), Leases => lease'[i] = <<v>>,
                      Pends(work'[v], i), work'[v].prompt \notin {Intake!Latest(i), Current(i)}
               PROVE  Behind(i)
    BY <1>3 DEF Behind, Owners, Within, Pends
  <2> QED BY <1>1, <1>2 DEF Behind, Owners
<1>7. Paid(i) /\ IntakeTyped
  BY DEF IntakeInv
<1> QED BY <1>4, <1>5, <1>6, <1>7, PaidStays

\* A review has been written.
LEMMA Appended ==
    ASSUME IntakeTyped, IntakeTyped', NEW i \in Issues, NEW x \in Nat \X Nat,
           issue'[i] = [issue[i] EXCEPT !.reviews = Append(issue[i].reviews, x)]
    PROVE  /\ issue'[i].fields = issue[i].fields /\ issue'[i].said = issue[i].said
           /\ Len(issue'[i].reviews) = Len(issue[i].reviews) + 1
           /\ Intake!Latest(i)' = x
           /\ \A k \in 1..Len(issue'[i].reviews) :
                 \/ issue'[i].reviews[k] = x
                 \/ k \in 1..Len(issue[i].reviews) /\ issue'[i].reviews[k] = issue[i].reviews[k]
           /\ Cardinality(Intake!Repeats(i))' \in Nat /\ Cardinality(Intake!Repeats(i)) \in Nat
           /\ \/ Cardinality(Intake!Repeats(i))' = Cardinality(Intake!Repeats(i))
              \/ /\ Cardinality(Intake!Repeats(i))' = Cardinality(Intake!Repeats(i)) + 1
                 /\ Intake!Latest(i) = x
<1>1. PICK s, t : s = issue[i].reviews /\ t = issue'[i].reviews
  OBVIOUS
<1>2. s \in Seq(Nat \X Nat) /\ t = Append(s, x)
  BY <1>1 DEF IntakeTyped
<1>3. issue'[i].fields = issue[i].fields /\ issue'[i].said = issue[i].said
  BY DEF IntakeTyped
<1>4. PICK n : n = Len(s)
  OBVIOUS
<1>5. n \in Nat /\ n = Len(s) /\ Len(t) = n + 1 /\ t[n + 1] = x /\ \A k \in 1..n : t[k] = s[k]
  BY <1>4, <1>2
<1>6. Intake!Latest(i)' = x
  <2>1. t # <<>>
    BY <1>5
  <2> QED BY <1>1, <1>5, <2>1 DEF Intake!Latest, Intake!Last
<1>7. PICK R, Q : R = Intake!Repeats(i) /\ Q = Intake!Repeats(i)'
  OBVIOUS
<1>8. /\ R = {k \in 1..n - 1 : s[k] = s[k + 1]}
      /\ Q = {k \in 1..(n + 1) - 1 : t[k] = t[k + 1]}
  BY <1>1, <1>5, <1>7 DEF Intake!Repeats
<1>9. IsFiniteSet(R) /\ Cardinality(R) \in Nat
  <2>3. 1 \in Int /\ n - 1 \in Int
    BY <1>5
  <2>1. IsFiniteSet(1..n - 1)
    BY <2>3, FS_Interval
  <2>2. R \subseteq 1..n - 1
    BY <1>8
  <2> QED BY <2>1, <2>2, FS_Subset, FS_CardinalityType
<1>10. \A k \in 1..n - 1 : k \in 1..n /\ k + 1 \in 1..n /\ k \in 1..(n + 1) - 1
  BY <1>5
<1>11. \A k \in 1..(n + 1) - 1 : k \in 1..n - 1 \/ k = n
  BY <1>5
<1>12. \A k \in 1..n - 1 : k \in R <=> k \in Q
  BY <1>5, <1>8, <1>10
<1>13. n \in Q => Intake!Latest(i) = x
  <2> SUFFICES ASSUME n \in Q PROVE Intake!Latest(i) = x
    OBVIOUS
  <2>1. n \in 1..n /\ t[n] = x /\ s # <<>>
    BY <1>5, <1>8
  <2> QED BY <1>1, <1>5, <2>1 DEF Intake!Latest, Intake!Last
<1>14. n \notin R
  BY <1>5, <1>8
<1>15. \A k \in 1..Len(issue'[i].reviews) :
          \/ issue'[i].reviews[k] = x
          \/ k \in 1..Len(issue[i].reviews) /\ issue'[i].reviews[k] = issue[i].reviews[k]
  <2>1. \A k \in 1..n + 1 : k = n + 1 \/ k \in 1..n
    BY <1>5
  <2> QED BY <1>1, <1>5, <2>1
<1>16. Len(issue'[i].reviews) = Len(issue[i].reviews) + 1
  BY <1>1, <1>5
<1>17. CASE n \in Q
  <2>1. Q = R \cup {n}
    BY <1>8, <1>11, <1>12, <1>17
  <2>2. Cardinality(Q) = Cardinality(R) + 1
    BY <1>9, <1>14, <2>1, FS_AddElement
  <2> QED BY <1>15, <1>16, <1>3, <1>6, <1>7, <1>9, <1>13, <1>17, <2>2
<1>18. CASE n \notin Q
  <2>1. Q = R
    BY <1>8, <1>11, <1>12, <1>14, <1>18
  <2> QED BY <1>15, <1>16, <1>3, <1>6, <1>7, <1>9, <2>1
<1> QED BY <1>17, <1>18

\* What w has written of an issue, which it now leaves.
PostedHere(i, w, c, x) ==
    /\ w \in Workers /\ Within(work[w], i) /\ work[w].at = "post" /\ work[w].prompt = x /\ x \in Nat \X Nat
    /\ work'[w] = c /\ c.at = "release" /\ \A v \in Workers \ {w} : work'[v] = work[v]
    /\ issue'[i] = [issue[i] EXCEPT !.reviews = Append(issue[i].reviews, x)]
    /\ UNCHANGED <<lease, edits, lost>>

\* What changes by it.
LEMMA PostedLeaves ==
    ASSUME IntakeTyped, IntakeTyped', NEW i \in Issues, NEW w, NEW c, NEW x, PostedHere(i, w, c, x)
    PROVE  /\ Intake!Latest(i)' = x /\ Current(i)' = Current(i)
           /\ Orphans(i)' = Orphans(i) \ {w} /\ Owners(i)' = Owners(i) \ {w}
           /\ \A v \in Workers \ {w} : work'[v] = work[v] /\ (Pends(work[v], i)' <=> Pends(work[v], i))
<1>1. Intake!Latest(i)' = x /\ issue'[i].fields = issue[i].fields /\ issue'[i].said = issue[i].said
  BY Appended DEF PostedHere
<1>2. \A v \in Workers : Within(work[v], i)' <=> v # w /\ Within(work[v], i)
  BY DEF PostedHere, Within
<1>3. lease' = lease /\ \A v \in Workers \ {w} : work'[v] = work[v]
  BY DEF PostedHere
<1>4. Orphans(i)' = Orphans(i) \ {w}
  BY <1>2, <1>3 DEF Orphans
<1>5. Owners(i)' = Owners(i) \ {w}
  BY <1>2, <1>3 DEF Owners
<1>6. \A v \in Workers \ {w} : work'[v] = work[v] /\ (Pends(work[v], i)' <=> Pends(work[v], i))
  BY <1>1, <1>3 DEF Pends
<1> QED BY <1>1, <1>4, <1>5, <1>6 DEF Current

\* An owner that posts leaves nobody else in charge.
LEMMA OwnerPosts ==
    ASSUME IntakeConstants, IntakeTyped, IntakeTyped', IsAlone, NEW i \in Issues, NEW w, NEW c, NEW x,
           PostedHere(i, w, c, x), Leases => lease[i] = <<w>>
    PROVE  /\ Orphans(i)' = Orphans(i) /\ Again(i)' = 0
           /\ Due(i)' = (IF x # Current(i) THEN 1 ELSE 0)
           /\ Intake!Latest(i) = x => Again(i) = 1
           /\ x # Current(i) => Due(i) + Again(i) >= 2
           /\ x = Current(i) => Due(i) + Again(i) >= 1
<1>1. w \in Owners(i) /\ w \notin Orphans(i) /\ Pends(work[w], i) /\ work[w].at = "post" /\ work[w].prompt = x
  BY DEF PostedHere, Owners, Orphans, Pends
<1>2. /\ Intake!Latest(i)' = x /\ Current(i)' = Current(i)
      /\ Orphans(i)' = Orphans(i) \ {w} /\ Owners(i)' = Owners(i) \ {w}
  BY PostedLeaves
<1>3. Owners(i)' = {}
  <2>1. \A v \in Owners(i) : v = w
    BY <1>1, OneOwner
  <2> QED BY <1>2, <2>1
<1>4. Orphans(i)' = Orphans(i)
  BY <1>1, <1>2
<1>5. Again(i)' = 0 /\ ~Behind(i)'
  BY <1>3 DEF Again, Twice, Behind
<1>6. Due(i)' = (IF x # Current(i) THEN 1 ELSE 0)
  BY <1>2, <1>5 DEF Due
<1>7. Intake!Latest(i) = x => Again(i) = 1
  BY <1>1 DEF Again, Twice
<1>8. Intake!Latest(i) # x /\ x # Current(i) => Due(i) = 2
  BY <1>1 DEF Due, Behind
<1>9. Intake!Latest(i) # Current(i) => Due(i) \in {1, 2}
  BY DEF Due
<1>10. ~Behind(i) => Due(i) \in {0, 1}
  BY DEF Due
<1>11. Again(i) \in {0, 1} /\ Due(i) \in {0, 1, 2}
  BY DEF Again, Due
<1> QED BY <1>4, <1>5, <1>6, <1>7, <1>8, <1>9, <1>11
\* An orphan that posts may make the owner repeat it, or follow what is no longer so.
LEMMA OrphanPosts ==
    ASSUME IntakeConstants, IntakeTyped, IntakeTyped', IsAlone, NEW i \in Issues, NEW w, NEW c, NEW x,
           PostedHere(i, w, c, x), Leases, lease[i] # <<w>>
    PROVE  /\ w \in Orphans(i) /\ Orphans(i)' = Orphans(i) \ {w}
           /\ Intake!Latest(i) = x => Again(i)' = Again(i)
           /\ Due(i)' + Again(i)' <= Due(i) + Again(i) + 1
<1>1. w \in Orphans(i) /\ w \notin Owners(i)
  BY DEF PostedHere, Owners, Orphans
<1>2. /\ Intake!Latest(i)' = x /\ Current(i)' = Current(i)
      /\ Orphans(i)' = Orphans(i) \ {w} /\ Owners(i)' = Owners(i) \ {w}
      /\ \A v \in Workers \ {w} : work'[v] = work[v] /\ (Pends(work[v], i)' <=> Pends(work[v], i))
  BY PostedLeaves
<1>3. Owners(i)' = Owners(i)
  BY <1>1, <1>2
<1>4. \A v \in Owners(i) : /\ v \in Workers \ {w} /\ work'[v] = work[v]
                           /\ Pends(work[v], i)' <=> Pends(work[v], i)
  BY <1>1, <1>2 DEF Owners
<1>5. Twice(i)' <=> \E v \in Owners(i) : work[v].at = "post" /\ work[v].prompt = x
  BY <1>2, <1>3, <1>4 DEF Twice
<1>6. Behind(i)' <=> \E v \in Owners(i) : Pends(work[v], i) /\ work[v].prompt \notin {x, Current(i)}
  BY <1>2, <1>3, <1>4 DEF Behind
<1>7. Intake!Latest(i) = x => (Twice(i)' <=> Twice(i)) /\ (Behind(i)' <=> Behind(i))
  BY <1>5, <1>6 DEF Twice, Behind
<1>8. Twice(i)' => ~Behind(i)'
  BY <1>5, <1>6, OneOwner
<1>9. Twice(i)' /\ x # Current(i) /\ Intake!Latest(i) # x => Behind(i)
  BY <1>5 DEF Behind, Pends
<1>10. Behind(i)' => Behind(i) \/ Intake!Latest(i) # Current(i)
  BY <1>6 DEF Behind
<1>11. Due(i)' = (IF Behind(i)' THEN 2 ELSE IF x # Current(i) THEN 1 ELSE 0)
  BY <1>2 DEF Due
<1>12. Again(i)' = (IF Twice(i)' THEN 1 ELSE 0)
  BY DEF Again
<1>13. Again(i) \in {0, 1} /\ Due(i) \in {0, 1, 2} /\ Again(i)' \in {0, 1} /\ Due(i)' \in {0, 1, 2}
  BY DEF Again, Due
<1>14. Intake!Latest(i) = x => Again(i)' = Again(i) /\ Due(i)' = Due(i)
  BY <1>7, <1>11, <1>12 DEF Again, Due
<1>15. Behind(i) => Due(i) = 2
  BY DEF Due
<1>16. Intake!Latest(i) # Current(i) => Due(i) \in {1, 2}
  BY DEF Due
<1>17. ASSUME Intake!Latest(i) # x PROVE Due(i)' + Again(i)' <= Due(i) + Again(i) + 1
  <2>1. CASE Twice(i)' /\ x # Current(i)
    <3>1. Due(i) = 2 /\ Due(i)' = 1 /\ Again(i)' = 1
      BY <1>8, <1>9, <1>11, <1>12, <1>15, <1>17, <2>1
    <3> QED BY <1>13, <3>1
  <2>2. CASE Twice(i)' /\ x = Current(i)
    <3>1. Due(i)' = 0 /\ Again(i)' = 1
      BY <1>8, <1>11, <1>12, <2>2
    <3> QED BY <1>13, <3>1
  <2>3. CASE ~Twice(i)' /\ Behind(i)'
    <3>1. Due(i) \in {1, 2} /\ Due(i)' = 2 /\ Again(i)' = 0
      BY <1>10, <1>11, <1>12, <1>15, <1>16, <2>3
    <3> QED BY <1>13, <3>1
  <2>4. CASE ~Twice(i)' /\ ~Behind(i)'
    <3>1. Due(i)' \in {0, 1} /\ Again(i)' = 0
      BY <1>11, <1>12, <2>4
    <3> QED BY <1>13, <3>1
  <2> QED BY <2>1, <2>2, <2>3, <2>4
<1>18. ASSUME Intake!Latest(i) = x PROVE Due(i)' + Again(i)' <= Due(i) + Again(i) + 1
  BY <1>13, <1>14, <1>18
<1> QED BY <1>1, <1>2, <1>14, <1>17, <1>18

LEMMA PostedPays ==
    ASSUME IntakeConstants, IntakeTyped, IntakeTyped', IsAlone, NEW i \in Issues, Paid(i),
           NEW w, NEW c, NEW x, PostedHere(i, w, c, x)
    PROVE  Paid(i)'
<1>1. PICK r, o, a, d, n, e, l :
        /\ r = Cardinality(Intake!Repeats(i)) /\ o = Cardinality(Orphans(i)) /\ a = Again(i)
        /\ d = Due(i) /\ n = Len(issue[i].reviews) /\ e = edits /\ l = lost
  OBVIOUS
<1>2. PICK r2, o2, a2, d2 :
        /\ r2 = Cardinality(Intake!Repeats(i))' /\ o2 = Cardinality(Orphans(i))' /\ a2 = Again(i)' /\ d2 = Due(i)'
  OBVIOUS
<1>3. r \in Nat /\ o \in Nat /\ a \in {0, 1} /\ d \in {0, 1, 2} /\ n \in Nat /\ e \in Nat /\ l \in Nat
  BY <1>1, Counts DEF IntakeTyped
<1>4. r2 \in Nat /\ o2 \in Nat /\ a2 \in {0, 1} /\ d2 \in {0, 1, 2}
  BY <1>2, CountsNext
<1>5. Covered(r, o, a, d, n, e, l)
  BY <1>1 DEF Paid
<1>6. /\ x \in Nat \X Nat /\ UNCHANGED <<edits, lost>>
      /\ issue'[i] = [issue[i] EXCEPT !.reviews = Append(issue[i].reviews, x)]
  BY DEF PostedHere
<1>7. Len(issue'[i].reviews) = n + 1 /\ (r2 = r \/ (r2 = r + 1 /\ Intake!Latest(i) = x))
  BY <1>1, <1>2, <1>6, Appended
<1>8. CASE Leases => lease[i] = <<w>>
  <2>1. /\ Orphans(i)' = Orphans(i) /\ Again(i)' = 0
        /\ Due(i)' = (IF x # Current(i) THEN 1 ELSE 0)
        /\ Intake!Latest(i) = x => Again(i) = 1
        /\ x # Current(i) => Due(i) + Again(i) >= 2
        /\ x = Current(i) => Due(i) + Again(i) >= 1
    BY <1>8, OwnerPosts
  <2>2. o2 = o /\ a2 = 0
    BY <1>1, <1>2, <2>1
  <2>3. r2 <= r + a
    <3>1. r2 = r \/ (r2 = r + 1 /\ a = 1)
      BY <1>1, <1>7, <2>1
    <3> QED BY <1>3, <3>1
  <2>4. d2 + 1 <= d + a
    <3>1. CASE x # Current(i)
      <4>1. d2 = 1 /\ d + a >= 2
        BY <1>1, <1>2, <2>1, <3>1
      <4> QED BY <1>3, <4>1
    <3>2. CASE x = Current(i)
      <4>1. d2 = 0 /\ d + a >= 1
        BY <1>1, <1>2, <2>1, <3>2
      <4> QED BY <1>3, <4>1
    <3> QED BY <3>1, <3>2
  <2>5. Covered(r2, o, 0, d2, n + 1, e, l)
    BY <1>3, <1>4, <1>5, <2>2, <2>3, <2>4 DEF Covered
  <2> QED BY <1>1, <1>2, <1>6, <1>7, <2>2, <2>5 DEF Paid
<1>9. CASE Leases /\ lease[i] # <<w>>
  <2>1. /\ w \in Orphans(i) /\ Orphans(i)' = Orphans(i) \ {w}
        /\ Intake!Latest(i) = x => Again(i)' = Again(i)
        /\ Due(i)' + Again(i)' <= Due(i) + Again(i) + 1
    BY <1>9, OrphanPosts
  <2>2. o = o2 + 1
    <3>1. IsFiniteSet(Orphans(i))
      BY Counts
    <3>2. Cardinality(Orphans(i) \ {w}) = Cardinality(Orphans(i)) - 1
      BY <2>1, <3>1, FS_RemoveElement
    <3>3. o2 = o - 1
      BY <1>1, <1>2, <2>1, <3>2
    <3> QED BY <1>3, <1>4, <3>3
  <2>3. r2 = r \/ (r2 = r + 1 /\ a2 <= a)
    <3>1. Intake!Latest(i) = x => a2 = a
      BY <1>1, <1>2, <2>1
    <3> QED BY <1>3, <1>7, <3>1
  <2>4. d2 + a2 <= d + a + 1
    BY <1>1, <1>2, <2>1
  <2>5. Covered(r, o2 + 1, a, d, n, e, l)
    BY <1>5, <2>2
  <2>6. Covered(r2, o2, a2, d2, n + 1, e, l)
    BY <1>3, <1>4, <2>3, <2>4, <2>5 DEF Covered
  <2> QED BY <1>1, <1>2, <1>6, <1>7, <2>6 DEF Paid
<1> QED BY <1>8, <1>9

LEMMA IntakePosts ==
    ASSUME IntakeConstants, IntakeInv, NEW w \in Workers, Intake!Post(w) \/ Intake!Unheard(w)
    PROVE  IntakeInv'
<1>1. UNCHANGED <<was, edits, lost, lease>>
  BY DEF Intake!Post, Intake!Unheard
<1>2. PICK d : d = work[w] /\ Reader(d) /\ d.at = "post"
  BY AtWork DEF Intake!Post, Intake!Unheard
<1>3. PICK c : /\ work' = [work EXCEPT ![w] = c] /\ c.at = "release"
               /\ c = [at |-> c.at, on |-> c.on, listed |-> c.listed, read |-> c.read, prompt |-> c.prompt]
  BY Enters DEF Intake!Post, Intake!Unheard
<1>4. PICK x, on : x = d.prompt /\ on = d.on
  OBVIOUS
<1>5. issue' = [issue EXCEPT ![on].reviews = Append(@, x)]
  BY <1>2, <1>4 DEF Intake!Post, Intake!Unheard, Intake!Posted
<1>6. ASSUME on \in Issues PROVE x \in Nat \X Nat /\ x \in was[on] /\ w \in Workers /\ Pends(work[w], on)
  BY <1>2, <1>4, <1>6 DEF Reader, Reading, Pends
<1>7. IntakeTyped /\ IntakeTyped'
  <2>1. IntakeTyped
    BY DEF IntakeInv
  <2>2. issue' \in [Issues -> [fields : Nat, said : Nat, open : BOOLEAN, reviews : Seq(Nat \X Nat)]]
    <3>1. CASE on \in Issues
      <4>1. Append(issue[on].reviews, x) \in Seq(Nat \X Nat)
        BY <1>6, <2>1, <3>1 DEF IntakeTyped
      <4> QED BY <1>5, <2>1, <3>1, <4>1 DEF IntakeTyped
    <3>2. CASE on \notin Issues
      BY <1>5, <2>1, <3>2 DEF IntakeTyped
    <3> QED BY <3>1, <3>2
  <2> QED BY <1>1, <2>1, <2>2 DEF IntakeTyped
<1>8. ASSUME NEW i \in Issues, i # on PROVE issue'[i] = issue[i]
  BY <1>5, <1>7, <1>8 DEF IntakeTyped
<1>9. ASSUME on \in Issues PROVE issue'[on] = [issue[on] EXCEPT !.reviews = Append(issue[on].reviews, x)]
  BY <1>5, <1>7, <1>9 DEF IntakeTyped
<1>10. ASSUME NEW i \in Issues
       PROVE  /\ issue'[i].fields = issue[i].fields /\ issue'[i].said = issue[i].said
              /\ \A k \in 1..Len(issue'[i].reviews) : issue'[i].reviews[k] \in was[i]
  <2>1. \A k \in 1..Len(issue[i].reviews) : issue[i].reviews[k] \in was[i]
    BY DEF IntakeInv
  <2>2. CASE i # on
    BY <1>8, <2>1, <2>2
  <2>3. CASE i = on
    <3>1. /\ issue'[i].fields = issue[i].fields /\ issue'[i].said = issue[i].said
          /\ \A k \in 1..Len(issue'[i].reviews) :
                 \/ issue'[i].reviews[k] = x
                 \/ k \in 1..Len(issue[i].reviews) /\ issue'[i].reviews[k] = issue[i].reviews[k]
      BY <1>6, <1>7, <1>9, <2>3, Appended
    <3> QED BY <1>6, <2>1, <2>3, <3>1
  <2> QED BY <2>2, <2>3
<1>11. /\ DOMAIN work' = Workers /\ work' = [v \in Workers |-> work'[v]]
       /\ work'[w] = c /\ \A v \in Workers \ {w} : work'[v] = work[v]
  BY <1>3 DEF IntakeInv
<1>12. ASSUME NEW v \in Workers PROVE Reader(work[v])'
  <2>1. PICK b : b = work'[v]
    OBVIOUS
  <2>2. Reader(b)
    <3>1. CASE v = w
      BY <1>3, <1>11, <2>1, <3>1 DEF Reader, Reading, Pends
    <3>2. CASE v # w
      BY <1>11, <2>1, <3>2 DEF IntakeInv
    <3> QED BY <3>1, <3>2
  <2>3. Reader(b)'
    BY <1>1, <1>10, <2>2 DEF Reader, Reading, Pends
  <2> QED BY <2>1, <2>3 DEF Reader, Reading, Pends
<1>13. ASSUME NEW i \in Issues, IsAlone PROVE Paid(i)'
  <2>1. CASE i # on
    BY <1>1, <1>3, <1>7, <1>8, <1>13, <2>1, Elsewhere
  <2>2. CASE i = on
    <3>1. PostedHere(i, w, c, x)
      BY <1>1, <1>2, <1>3, <1>4, <1>6, <1>9, <1>11, <2>2 DEF PostedHere, Within, Pends
    <3>2. Paid(i)
      BY <1>13 DEF IntakeInv
    <3> QED BY <1>7, <1>13, <3>1, <3>2, PostedPays
  <2> QED BY <2>1, <2>2
<1>14. ASSUME NEW i \in Issues PROVE Current(i)' \in was'[i]
  BY <1>1, <1>10, AtWork DEF Current
<1> QED BY <1>1, <1>7, <1>10, <1>11, <1>12, <1>13, <1>14 DEF IntakeInv, IsAlone

\* A lease runs out under a worker that goes on.
LEMMA IntakeLoses ==
    ASSUME IntakeConstants, IntakeInv, NEW j \in Issues, Intake!RunOut(j)
    PROVE  IntakeInv'
<1>1. UNCHANGED <<issue, work, was, edits>> /\ lost' = lost + 1 /\ lease[j] # <<>>
  BY DEF Intake!RunOut
<1>2. IntakeTyped /\ lease' \in [Issues -> {<<>>} \cup {<<w>> : w \in Workers}]
      /\ \A i \in Issues : lease'[i] = lease[i] \/ (lease'[i] = <<>> /\ i = j)
  BY DEF Intake!RunOut, IntakeInv, IntakeTyped
<1>3. IntakeTyped'
  BY <1>1, <1>2 DEF IntakeTyped
<1>4. ASSUME NEW v \in Workers PROVE Reader(work[v])'
  <2>1. Reader(work[v])
    BY DEF IntakeInv
  <2> QED BY <1>1, <2>1 DEF Reader, Reading, Pends
<1>5. ASSUME NEW i \in Issues, IsAlone PROVE Paid(i)'
  <2>1. Intake!Latest(i)' = Intake!Latest(i) /\ Current(i)' = Current(i) /\ Intake!Repeats(i)' = Intake!Repeats(i)
    BY <1>1 DEF Intake!Latest, Intake!None, Intake!Last, Current, Intake!Repeats
  <2>3. Owners(i)' \subseteq Owners(i)
    <3>1. \A v \in Workers : lease'[i] = <<v>> => lease[i] = <<v>>
      <4>1. \A v \in Workers : <<>> # <<v>>
        OBVIOUS
      <4> QED BY <1>2, <4>1
    <3> QED BY <1>1, <3>1 DEF Owners, Within
  <2>4. Twice(i)' => Twice(i)
    BY <1>1, <2>1, <2>3 DEF Twice
  <2>5. Behind(i)' => Behind(i)
    BY <1>1, <2>1, <2>3 DEF Behind, Pends
  <2>6. PICK v : Orphans(i)' \subseteq Orphans(i) \cup {v}
    <3>1. CASE lease'[i] = lease[i]
      BY <1>1, <3>1 DEF Orphans, Within
    <3>2. CASE i = j
      <4>1. PICK v \in Workers : lease[i] = <<v>>
        BY <1>1, <1>2, <3>2 DEF IntakeTyped
      <4>2. \A u \in Workers : u # v => lease[i] # <<u>>
        <5>1. ASSUME NEW u \in Workers, <<u>> = <<v>> PROVE u = v
          <6>1. <<u>>[1] = <<v>>[1]
            BY <5>1
          <6> QED BY <6>1
        <5> QED BY <4>1, <5>1
      <4>3. Orphans(i)' \subseteq Orphans(i) \cup {v}
        BY <1>1, <4>2 DEF Orphans, Within
      <4> QED BY <4>3
    <3> QED BY <1>2, <3>1, <3>2
  <2>7. PICK r, o, a, d, n, e, l :
          /\ r = Cardinality(Intake!Repeats(i)) /\ o = Cardinality(Orphans(i)) /\ a = Again(i)
          /\ d = Due(i) /\ n = Len(issue[i].reviews) /\ e = edits /\ l = lost
    OBVIOUS
  <2>8. PICK o2, a2, d2 : o2 = Cardinality(Orphans(i))' /\ a2 = Again(i)' /\ d2 = Due(i)'
    OBVIOUS
  <2>9. r \in Nat /\ o \in Nat /\ a \in {0, 1} /\ d \in {0, 1, 2} /\ n \in Nat /\ e \in Nat /\ l \in Nat
    BY <1>2, <2>7, Counts DEF IntakeTyped
  <2>10. o2 \in Nat /\ a2 \in {0, 1} /\ d2 \in {0, 1, 2}
    BY <1>3, <2>8, CountsNext
  <2>11. o2 <= o + 1
    <3>1. PICK O : O = Orphans(i)'
      OBVIOUS
    <3>2. IsFiniteSet(Orphans(i)) /\ O \subseteq Orphans(i) \cup {v}
      BY <1>2, <2>6, <3>1, Counts
    <3>3. /\ IsFiniteSet(Orphans(i) \cup {v})
          /\ Cardinality(Orphans(i) \cup {v}) = IF v \in Orphans(i) THEN Cardinality(Orphans(i)) ELSE Cardinality(Orphans(i)) + 1
      BY <3>2, FS_AddElement
    <3>4. Cardinality(O) <= Cardinality(Orphans(i) \cup {v})
      BY <3>2, <3>3, FS_Subset
    <3>5. CASE v \in Orphans(i)
      <4>1. o2 <= o
        BY <2>7, <2>8, <3>1, <3>3, <3>4, <3>5
      <4> QED BY <2>9, <2>10, <4>1
    <3>6. CASE v \notin Orphans(i)
      BY <2>7, <2>8, <3>1, <3>3, <3>4, <3>6
    <3> QED BY <3>5, <3>6
  <2>12. a2 <= a
    BY <2>4, <2>7, <2>8 DEF Again
  <2>13. d2 <= d
    BY <2>1, <2>5, <2>7, <2>8 DEF Due
  <2>14. Covered(r, o, a, d, n, e, l)
    BY <1>5, <2>7 DEF IntakeInv, Paid
  <2>15. Covered(r, o2, a2, d2, n, e, l + 1)
    BY <2>9, <2>10, <2>11, <2>12, <2>13, <2>14 DEF Covered
  <2> QED BY <1>1, <2>1, <2>7, <2>8, <2>15 DEF Paid
<1> QED BY <1>1, <1>3, <1>4, <1>5 DEF IntakeInv, IsAlone, Current

\* People have changed what an issue says: nothing that a worker relies on was of it yet.
People(i) ==
    /\ issue'[i].reviews = issue[i].reviews
    /\ \/ issue'[i].said = issue[i].said
       \/ issue'[i].said = issue[i].said + 1 /\ issue'[i].fields = issue[i].fields

LEMMA PendsBefore ==
    ASSUME IntakeTyped, NEW i \in Issues, People(i), NEW c, Reading(c, i), Pends(c, i)'
    PROVE  Pends(c, i)
<1>1. CASE c.at = "comments again"
  <2>1. c.prompt = <<c.read, issue'[i].said>>
    BY <1>1 DEF Pends
  <2>2. c.prompt[2] <= issue[i].said
    BY <1>1 DEF Reading
  <2>3. issue[i].said \in Nat
    BY DEF IntakeTyped
  <2>4. issue'[i].said = issue[i].said \/ issue'[i].said = issue[i].said + 1
    BY DEF People
  <2>5. c.prompt[2] = issue'[i].said
    BY <2>1
  <2>6. issue'[i].said = issue[i].said
    BY <2>2, <2>3, <2>4, <2>5
  <2> QED BY <1>1, <2>1, <2>6 DEF Pends
<1>2. CASE c.at # "comments again"
  BY <1>2 DEF Pends
<1> QED BY <1>1, <1>2

LEMMA Unsettles ==
    ASSUME IntakeConstants, IntakeInv, IntakeTyped', IsAlone, NEW i \in Issues, People(i),
           UNCHANGED <<work, lease, lost>>, edits' = edits + 1
    PROVE  Paid(i)'
<1>1. Intake!Latest(i)' = Intake!Latest(i) /\ Intake!Repeats(i)' = Intake!Repeats(i)
  BY DEF People, Intake!Latest, Intake!None, Intake!Last, Intake!Repeats
<1>2. Orphans(i)' = Orphans(i) /\ Owners(i)' = Owners(i)
  BY DEF Orphans, Owners, Within
<1>3. ASSUME NEW v \in Owners(i), Pends(work[v], i)' PROVE Pends(work[v], i)
  <2>1. v \in Workers /\ work[v].on = i /\ work'[v] = work[v]
    BY DEF Owners, Within
  <2>2. PICK b : b = work[v] /\ Reading(b, i)
    BY <2>1, AtWork DEF Reader
  <2>3. Pends(b, i)'
    BY <1>3, <2>1, <2>2 DEF Pends
  <2>4. Pends(b, i)
    BY <2>2, <2>3, PendsBefore DEF IntakeInv
  <2> QED BY <2>2, <2>4
<1>4. Again(i)' = Again(i)
  BY <1>1, <1>2 DEF Again, Twice
<1>5. Behind(i)' => Behind(i) \/ Intake!Latest(i) # Current(i)
  <2> SUFFICES ASSUME NEW v \in Owners(i), Pends(work[v], i)', work[v].prompt # Intake!Latest(i),
                      Intake!Latest(i) = Current(i)
               PROVE  Behind(i)
    BY <1>1, <1>2 DEF Behind
  <2> QED BY <1>3 DEF Behind
<1>6. PICK r, o, a, d, n, e, l :
        /\ r = Cardinality(Intake!Repeats(i)) /\ o = Cardinality(Orphans(i)) /\ a = Again(i)
        /\ d = Due(i) /\ n = Len(issue[i].reviews) /\ e = edits /\ l = lost
  OBVIOUS
<1>7. PICK d2 : d2 = Due(i)'
  OBVIOUS
<1>8. r \in Nat /\ o \in Nat /\ a \in {0, 1} /\ d \in {0, 1, 2} /\ n \in Nat /\ e \in Nat /\ l \in Nat
  BY <1>6, Counts DEF IntakeInv, IntakeTyped
<1>9. d2 \in {0, 1, 2}
  BY <1>7, CountsNext
<1>10. d2 <= d + 1
  <2>1. CASE Behind(i)'
    <3>1. d \in {1, 2}
      BY <1>5, <1>6, <2>1 DEF Due
    <3> QED BY <1>9, <3>1
  <2>2. CASE ~Behind(i)'
    <3>1. d2 \in {0, 1}
      BY <1>7, <2>2 DEF Due
    <3> QED BY <1>8, <3>1
  <2> QED BY <2>1, <2>2
<1>11. Covered(r, o, a, d, n, e, l)
  BY <1>6 DEF IntakeInv, Paid
<1>12. Covered(r, o, a, d2, n, e + 1, l)
  BY <1>8, <1>9, <1>10, <1>11 DEF Covered
<1> QED BY <1>1, <1>2, <1>4, <1>6, <1>7, <1>12 DEF Paid, People

LEMMA IntakeChanges ==
    ASSUME IntakeConstants, IntakeInv, NEW j \in Issues, Intake!Edit(j) \/ Intake!Comment(j) \/ Intake!Move(j)
    PROVE  IntakeInv'
<1>1. UNCHANGED <<work, lease, lost>> /\ edits' = edits + 1
  BY DEF Intake!Edit, Intake!Comment, Intake!Move, Intake!Changed
<1>2. IntakeTyped /\ \A i \in Issues : Current(i) \in was[i]
  BY DEF IntakeInv
<1>3. /\ issue' \in [Issues -> [fields : Nat, said : Nat, open : BOOLEAN, reviews : Seq(Nat \X Nat)]]
      /\ was' \in [Issues -> SUBSET (Nat \X Nat)]
      /\ \A i \in Issues : People(i) /\ was[i] \subseteq was'[i] /\ Current(i)' \in was'[i]
  <2>1. ASSUME NEW f \in Nat, NEW c \in Nat, Intake!Changed(j, f, c),
               \/ c = issue[j].said
               \/ c = issue[j].said + 1 /\ f = issue[j].fields
        PROVE  <1>3!:
    <3>1. issue' = [issue EXCEPT ![j] = [issue[j] EXCEPT !.fields = f, !.said = c]]
          /\ was' = [was EXCEPT ![j] = was[j] \cup {<<f, c>>}]
      BY <2>1, <1>2 DEF Intake!Changed, IntakeTyped
    <3>2. /\ issue' \in [Issues -> [fields : Nat, said : Nat, open : BOOLEAN, reviews : Seq(Nat \X Nat)]]
          /\ issue'[j].fields = f /\ issue'[j].said = c /\ issue'[j].reviews = issue[j].reviews
          /\ \A i \in Issues \ {j} : issue'[i] = issue[i]
      BY <1>2, <3>1 DEF IntakeTyped
    <3>3. was' \in [Issues -> SUBSET (Nat \X Nat)] /\ was'[j] = was[j] \cup {<<f, c>>}
          /\ \A i \in Issues \ {j} : was'[i] = was[i]
      BY <1>2, <3>1 DEF IntakeTyped
    <3>4. \A i \in Issues : People(i)
      BY <2>1, <3>2 DEF People
    <3>5. \A i \in Issues : Current(i)' \in was'[i]
      <4>1. Current(j)' \in was'[j]
        BY <3>2, <3>3 DEF Current
      <4>2. \A i \in Issues \ {j} : Current(i)' = Current(i)
        BY <3>2 DEF Current
      <4> QED BY <1>2, <3>3, <4>1, <4>2
    <3> QED BY <3>2, <3>3, <3>4, <3>5
  <2>2. CASE Intake!Edit(j)
    <3>1. PICK f \in 0..MaxEdits : Intake!Changed(j, f, issue[j].said)
      BY <2>2 DEF Intake!Edit
    <3>2. f \in Nat /\ issue[j].said \in Nat
      BY <1>2, <3>1 DEF IntakeTyped, IntakeConstants
    <3> QED BY <2>1, <3>1, <3>2
  <2>3. CASE Intake!Comment(j)
    <3>1. issue[j].fields \in Nat /\ issue[j].said + 1 \in Nat
      BY <1>2 DEF IntakeTyped
    <3> QED BY <2>1, <2>3, <3>1 DEF Intake!Comment
  <2>4. CASE Intake!Move(j)
    <3>1. was' = was /\ issue' = [issue EXCEPT ![j].open = ~@]
      BY <2>4 DEF Intake!Move
    <3>2. /\ issue' \in [Issues -> [fields : Nat, said : Nat, open : BOOLEAN, reviews : Seq(Nat \X Nat)]]
          /\ \A i \in Issues : issue'[i].fields = issue[i].fields /\ issue'[i].said = issue[i].said /\ issue'[i].reviews = issue[i].reviews
      BY <1>2, <3>1 DEF IntakeTyped
    <3>3. was' \in [Issues -> SUBSET (Nat \X Nat)]
      BY <1>2, <3>1 DEF IntakeTyped
    <3>4. \A i \in Issues : People(i) /\ Current(i)' = Current(i)
      BY <3>2 DEF People, Current
    <3> QED BY <1>2, <3>1, <3>2, <3>3, <3>4
  <2> QED BY <2>2, <2>3, <2>4
<1>4. IntakeTyped'
  BY <1>1, <1>2, <1>3 DEF IntakeTyped
<1>5. ASSUME NEW v \in Workers PROVE Reader(work[v])'
  <2>1. PICK b : b = work[v] /\ Reader(b)
    BY AtWork
  <2>2. ASSUME b.on \in Issues PROVE Reading(b, b.on)'
    <3>1. PICK i \in Issues : i = b.on /\ Reading(b, i) /\ People(i)
      BY <1>3, <2>1, <2>2 DEF Reader
    <3>2. issue[i].said \in Nat /\ issue'[i].said \in Nat /\ issue[i].said <= issue'[i].said
      <4>1. issue[i].said \in Nat
        BY <1>2 DEF IntakeTyped
      <4>2. issue'[i].said \in {issue[i].said, issue[i].said + 1}
        BY <3>1 DEF People
      <4> QED BY <4>1, <4>2
    <3>3. Pends(b, i)' => Pends(b, i)
      BY <1>2, <3>1, PendsBefore
    <3>4. b.prompt \in Nat \X Nat /\ b.prompt[2] <= issue[i].said => b.prompt[2] <= issue'[i].said
      BY <3>2
    <3>5. Reading(b, i)'
      <4>1. /\ b.at \in {"comments", "comments again"} => b.read \in Nat
            /\ b.at \in {"codex", "issue again", "comments again", "post"} =>
                  b.prompt \in Nat \X Nat /\ b.prompt[2] <= issue'[i].said
        BY <3>1, <3>4 DEF Reading
      <4>2. Pends(b, i)' => b.prompt \in was'[i]
        BY <1>3, <3>1, <3>3 DEF Reading
      <4> QED BY <4>1, <4>2 DEF Reading
    <3> QED BY <3>1, <3>5
  <2> QED BY <1>1, <2>1, <2>2 DEF Reader
<1>6. ASSUME NEW i \in Issues, IsAlone PROVE Paid(i)'
  BY <1>1, <1>3, <1>4, <1>6, Unsettles
<1>7. ASSUME NEW i \in Issues, NEW k \in 1..Len(issue'[i].reviews) PROVE issue'[i].reviews[k] \in was'[i]
  BY <1>3, <1>7 DEF IntakeInv, People
<1> QED BY <1>1, <1>3, <1>4, <1>5, <1>6, <1>7 DEF IntakeInv, IsAlone

\* Whatever happens, what has been reviewed remains accounted for.
THEOREM IntakeInvariant == ASSUME IntakeConstants PROVE Intake!Spec => []IntakeInv
<1>1. Intake!Init => IntakeInv
  BY IntakeStarts
<1>2. IntakeInv /\ [Intake!Next]_(Intake!vars) => IntakeInv'
  <2> SUFFICES ASSUME IntakeInv, [Intake!Next]_(Intake!vars) PROVE IntakeInv'
    OBVIOUS
  <2>1. CASE \E w \in Workers : \/ Intake!Search(w) \/ Intake!Pick(w) \/ Intake!Lease(w) \/ Intake!ReadIssue(w)
                                \/ Intake!ReadComments(w) \/ Intake!Codex(w) \/ Intake!Compare(w) \/ Intake!Post(w)
                                \/ Intake!Release(w) \/ Intake!Fail(w) \/ Intake!Unheard(w)
    BY <2>1, IntakeSearches, IntakeLeases, IntakeReads, IntakePrompts, IntakeFails, IntakeCompares, IntakePosts
  <2>2. CASE \E i \in Issues : Intake!RunOut(i) \/ Intake!Edit(i) \/ Intake!Comment(i) \/ Intake!Move(i)
    BY <2>2, IntakeLoses, IntakeChanges
  <2>3. CASE UNCHANGED Intake!vars
    <3>1. UNCHANGED <<issue, work, lease, was, edits, lost>>
      BY <2>3 DEF Intake!vars
    <3>2. IntakeTyped /\ IntakeTyped'
      BY <3>1 DEF IntakeInv, IntakeTyped
    <3>3. ASSUME NEW v \in Workers PROVE Reader(work[v])'
      <4>1. Reader(work[v])
        BY DEF IntakeInv
      <4> QED BY <3>1, <4>1 DEF Reader, Reading, Pends
    <3>4. ASSUME NEW i \in Issues, IsAlone PROVE Paid(i)'
      <4>1. Intake!Latest(i)' = Intake!Latest(i) /\ Current(i)' = Current(i)
        BY <3>1 DEF Intake!Latest, Intake!None, Intake!Last, Current
      <4>2. Orphans(i)' = Orphans(i) /\ Owners(i)' = Owners(i)
        BY <3>1 DEF Orphans, Owners, Within
      <4>3. (Twice(i)' => Twice(i)) /\ (Behind(i)' => Behind(i))
        BY <3>1, <4>1, <4>2 DEF Twice, Behind, Pends
      <4>4. Paid(i)
        BY <3>4 DEF IntakeInv
      <4> QED BY <3>1, <3>2, <4>2, <4>3, <4>4, PaidStays
    <3> QED BY <3>1, <3>2, <3>3, <3>4 DEF IntakeInv, Current, IsAlone
  <2> QED BY <2>1, <2>2, <2>3 DEF Intake!Next
<1> QED BY <1>1, <1>2, PTL DEF Intake!Spec

\* What the review of the intake owes the reporters of issues: each review is of a task as
\* it was at one moment, and none is repeated, or answers itself, but for a lease that ran out.
THEOREM IntakeReviewed == ASSUME IntakeConstants PROVE Intake!Spec => []Intake!IntakeIsSound
<1>1. IntakeInv => Intake!IntakeIsSound
  <2> SUFFICES ASSUME IntakeInv PROVE Intake!IntakeIsSound
    OBVIOUS
  <2>1. Intake!ReviewsOfOneMoment
    <3>1. ASSUME NEW i \in Issues PROVE Intake!ToSet(issue[i].reviews) \subseteq was[i]
      <4>1. PICK s : s = issue[i].reviews
        OBVIOUS
      <4>2. s \in Seq(Nat \X Nat) /\ \A k \in 1..Len(s) : s[k] \in was[i]
        BY <4>1 DEF IntakeInv, IntakeTyped
      <4>3. DOMAIN s = 1..Len(s)
        BY <4>2
      <4> QED BY <4>1, <4>2, <4>3 DEF Intake!ToSet
    <3> QED BY <3>1 DEF Intake!ReviewsOfOneMoment
  <2>2. Leases \/ Cardinality(Workers) = 1 => IsAlone
    <3>1. ASSUME Cardinality(Workers) = 1 PROVE \A v, w \in Workers : v = w
      <4>1. \E x : Workers = {x}
        BY <3>1, FS_Singleton DEF IntakeConstants
      <4> QED BY <4>1
    <3> QED BY <3>1 DEF IsAlone
  <2>3. ASSUME IsAlone, NEW i \in Issues
        PROVE  Cardinality(Intake!Repeats(i)) <= lost /\ Len(issue[i].reviews) <= 1 + edits + 2 * lost
    <3>1. PICK r, o, a, d, n, e, l :
            /\ r = Cardinality(Intake!Repeats(i)) /\ o = Cardinality(Orphans(i)) /\ a = Again(i)
            /\ d = Due(i) /\ n = Len(issue[i].reviews) /\ e = edits /\ l = lost
      OBVIOUS
    <3>2. /\ r \in Nat /\ o \in Nat /\ a \in {0, 1} /\ d \in {0, 1, 2} /\ n \in Nat /\ e \in Nat /\ l \in Nat
      BY <3>1, Counts DEF IntakeInv, IntakeTyped
    <3>3. Covered(r, o, a, d, n, e, l)
      BY <2>3, <3>1 DEF IntakeInv, Paid
    <3>4. r <= l /\ n <= 1 + e + 2 * l
      BY <3>2, <3>3 DEF Covered
    <3> QED BY <3>1, <3>4
  <2>4. /\ Intake!Cardinality(Workers) = Cardinality(Workers)
        /\ \A i \in Issues : Intake!Cardinality(Intake!Repeats(i)) = Cardinality(Intake!Repeats(i))
    BY DEF Intake!Cardinality, Cardinality
  <2>5. Intake!ReviewedOnce
    BY <2>2, <2>3, <2>4 DEF Intake!ReviewedOnce
  <2>6. Intake!ReviewsFollowChanges
    BY <2>2, <2>3, <2>4 DEF Intake!ReviewsFollowChanges
  <2> QED BY <2>1, <2>5, <2>6 DEF Intake!IntakeIsSound
<1> QED BY <1>1, IntakeInvariant, PTL

-----------------------------------------------------------------------------
(* The life of a process *)

CONSTANTS Polling, Strict, RunOnce, MaxSignals

VARIABLES phase, ready, http, worker, shutting, poller, stopping, webhook, scanTimer, cleanTimer,
          scans, sweeps, scanning, cleaning, pool, heard, broken, signals

Runtime == INSTANCE AppRuntime

RuntimeConstants ==
    Polling \in BOOLEAN /\ Strict \in BOOLEAN /\ RunOnce \in BOOLEAN /\ MaxFaults \in Nat /\ MaxSignals \in Nat

RuntimeWords ==
    /\ phase \in {"observe", "telegram", "repository", "codex", "run", "stop_telegram", "stop_http",
                  "stop_cleanup", "over"}
    /\ http \in {"off", "up", "dead"} /\ worker \in {"off", "cycle", "sleep"}
    /\ poller \in {"off", "poll", "handle", "wait"} /\ pool \in {"open", "ended"}
RuntimeNumbers == scans \in {0, 1} /\ sweeps \in {0, 1} /\ faults \in 0..MaxFaults /\ signals \in 0..MaxSignals
RuntimeBits ==
    /\ ready \in BOOLEAN /\ shutting \in BOOLEAN /\ stopping \in BOOLEAN /\ webhook \in BOOLEAN
    /\ scanTimer \in BOOLEAN /\ cleanTimer \in BOOLEAN /\ scanning \in BOOLEAN /\ cleaning \in BOOLEAN
    /\ broken \in BOOLEAN

\* The flags say what goes on, as long as the process lives.
FlagsHold == phase # "over" \/ http = "up" => (scanning <=> scans = 1) /\ (cleaning <=> sweeps = 1)

\* What there is at each phase, on the way up and on the way out.
NothingLeft ==
    /\ http # "up" /\ poller = "off" /\ worker = "off" /\ ~scanTimer /\ ~cleanTimer
    /\ signals = 0 => ~webhook
PhasesHold ==
    /\ phase = "observe" => http = "off"
    /\ phase \in {"observe", "telegram"} => poller = "off" /\ ~scanTimer /\ ~webhook
    /\ phase \in {"observe", "telegram", "repository", "codex"} => ~cleanTimer
    /\ worker # "off" => phase = "run"
    /\ phase \in {"stop_http", "stop_cleanup"} => poller = "off" /\ ~scanTimer /\ ~webhook
    /\ phase = "stop_cleanup" => http = "off"
    /\ pool = "ended" => poller = "off" /\ phase \in {"stop_http", "stop_cleanup", "over"}
    /\ phase = "over" => poller = "off" /\ (~broken => NothingLeft)
    /\ shutting => ~ready

RuntimeInv == RuntimeWords /\ RuntimeNumbers /\ RuntimeBits /\ FlagsHold /\ PhasesHold

LEMMA RuntimeBegins ==
    ASSUME RuntimeConstants, Runtime!Init
    PROVE  RuntimeInv
<1>1. RuntimeWords
  BY DEF Runtime!Init, RuntimeWords
<1>2. RuntimeNumbers
  BY DEF Runtime!Init, RuntimeNumbers, RuntimeConstants
<1>3. RuntimeBits
  BY DEF Runtime!Init, RuntimeBits
<1>4. FlagsHold
  BY DEF Runtime!Init, RuntimeNumbers, FlagsHold
<1>5. PhasesHold
  BY DEF Runtime!Init, RuntimeWords, RuntimeBits, PhasesHold, NothingLeft
<1> QED BY <1>1, <1>2, <1>3, <1>4, <1>5 DEF RuntimeInv

\* On the way up, and at work.
LEMMA RuntimeListen ==
    ASSUME RuntimeConstants, RuntimeInv, Runtime!Listen
    PROVE  RuntimeInv'
<1>1. RuntimeWords'
  BY DEF RuntimeInv, RuntimeWords, Runtime!Listen, Runtime!Fault, Runtime!count, Runtime!telegram,
         Runtime!beside
<1>2. RuntimeNumbers'
  BY DEF RuntimeInv, RuntimeNumbers, RuntimeConstants, Runtime!Listen, Runtime!Fault, Runtime!count,
         Runtime!telegram, Runtime!beside
<1>3. RuntimeBits'
  BY DEF RuntimeInv, RuntimeBits, Runtime!Listen, Runtime!Fault, Runtime!count, Runtime!telegram,
         Runtime!beside
<1>4. FlagsHold'
  BY DEF RuntimeInv, RuntimeNumbers, FlagsHold, Runtime!Listen, Runtime!Fault, Runtime!count,
         Runtime!telegram, Runtime!beside
<1>5. PhasesHold'
  BY DEF RuntimeInv, RuntimeWords, RuntimeBits, PhasesHold, NothingLeft, Runtime!Listen, Runtime!Fault,
         Runtime!count, Runtime!telegram, Runtime!beside
<1> QED BY <1>1, <1>2, <1>3, <1>4, <1>5 DEF RuntimeInv

LEMMA RuntimeStartTelegram ==
    ASSUME RuntimeConstants, RuntimeInv, Runtime!StartTelegram
    PROVE  RuntimeInv'
<1>1. RuntimeWords'
  BY DEF RuntimeInv, RuntimeWords, Runtime!StartTelegram, Runtime!Throw, Runtime!Fault, Runtime!count,
         Runtime!telegram
<1>2. RuntimeNumbers'
  BY DEF RuntimeInv, RuntimeNumbers, RuntimeConstants, Runtime!StartTelegram, Runtime!Throw, Runtime!Fault,
         Runtime!count, Runtime!telegram
<1>3. RuntimeBits'
  BY DEF RuntimeInv, RuntimeBits, Runtime!StartTelegram, Runtime!Throw, Runtime!Fault, Runtime!count,
         Runtime!telegram
<1>4. FlagsHold'
  BY DEF RuntimeInv, RuntimeNumbers, FlagsHold, Runtime!StartTelegram, Runtime!Throw, Runtime!Fault,
         Runtime!count, Runtime!telegram
<1>5. PhasesHold'
  BY DEF RuntimeInv, RuntimeWords, RuntimeBits, PhasesHold, NothingLeft, Runtime!StartTelegram, Runtime!Throw,
         Runtime!Fault, Runtime!count, Runtime!telegram
<1> QED BY <1>1, <1>2, <1>3, <1>4, <1>5 DEF RuntimeInv

LEMMA RuntimeCheck ==
    ASSUME RuntimeConstants, RuntimeInv, Runtime!Check
    PROVE  RuntimeInv'
<1>1. RuntimeWords'
  BY DEF RuntimeInv, RuntimeWords, Runtime!Check, Runtime!Checks, Runtime!Throw, Runtime!Fault, Runtime!count,
         Runtime!telegram
<1>2. RuntimeNumbers'
  BY DEF RuntimeInv, RuntimeNumbers, RuntimeConstants, Runtime!Check, Runtime!Checks, Runtime!Throw,
         Runtime!Fault, Runtime!count, Runtime!telegram
<1>3. RuntimeBits'
  BY DEF RuntimeInv, RuntimeBits, Runtime!Check, Runtime!Checks, Runtime!Throw, Runtime!Fault, Runtime!count,
         Runtime!telegram
<1>4. FlagsHold'
  BY DEF RuntimeInv, RuntimeNumbers, FlagsHold, Runtime!Check, Runtime!Checks, Runtime!Throw, Runtime!Fault,
         Runtime!count, Runtime!telegram
<1>5. PhasesHold'
  BY DEF RuntimeInv, RuntimeWords, RuntimeBits, PhasesHold, NothingLeft, Runtime!Check, Runtime!Checks,
         Runtime!Throw, Runtime!Fault, Runtime!count, Runtime!telegram
<1> QED BY <1>1, <1>2, <1>3, <1>4, <1>5 DEF RuntimeInv

LEMMA RuntimeCycleEnds ==
    ASSUME RuntimeConstants, RuntimeInv, Runtime!CycleEnds
    PROVE  RuntimeInv'
<1>1. RuntimeWords'
  BY DEF RuntimeInv, RuntimeWords, Runtime!CycleEnds, Runtime!Leave, Runtime!Throw, Runtime!Fault,
         Runtime!count, Runtime!telegram, Runtime!beside
<1>2. RuntimeNumbers'
  BY DEF RuntimeInv, RuntimeNumbers, RuntimeConstants, Runtime!CycleEnds, Runtime!Leave, Runtime!Throw,
         Runtime!Fault, Runtime!count, Runtime!telegram, Runtime!beside
<1>3. RuntimeBits'
  BY DEF RuntimeInv, RuntimeBits, Runtime!CycleEnds, Runtime!Leave, Runtime!Throw, Runtime!Fault,
         Runtime!count, Runtime!telegram, Runtime!beside
<1>4. FlagsHold'
  BY DEF RuntimeInv, RuntimeNumbers, FlagsHold, PhasesHold, Runtime!CycleEnds, Runtime!Leave, Runtime!Throw,
         Runtime!Fault, Runtime!count, Runtime!telegram, Runtime!beside
<1>5. PhasesHold'
  BY DEF RuntimeInv, RuntimeWords, RuntimeBits, PhasesHold, NothingLeft, Runtime!CycleEnds, Runtime!Leave,
         Runtime!Throw, Runtime!Fault, Runtime!count, Runtime!telegram, Runtime!beside
<1> QED BY <1>1, <1>2, <1>3, <1>4, <1>5 DEF RuntimeInv

LEMMA RuntimeWake ==
    ASSUME RuntimeConstants, RuntimeInv, Runtime!Wake
    PROVE  RuntimeInv'
<1>1. RuntimeWords'
  BY DEF RuntimeInv, RuntimeWords, Runtime!Wake, Runtime!Leave, Runtime!count, Runtime!telegram,
         Runtime!beside
<1>2. RuntimeNumbers'
  BY DEF RuntimeInv, RuntimeNumbers, RuntimeConstants, Runtime!Wake, Runtime!Leave, Runtime!count,
         Runtime!telegram, Runtime!beside
<1>3. RuntimeBits'
  BY DEF RuntimeInv, RuntimeBits, Runtime!Wake, Runtime!Leave, Runtime!count, Runtime!telegram, Runtime!beside
<1>4. FlagsHold'
  BY DEF RuntimeInv, RuntimeNumbers, FlagsHold, PhasesHold, Runtime!Wake, Runtime!Leave, Runtime!count,
         Runtime!telegram, Runtime!beside
<1>5. PhasesHold'
  BY DEF RuntimeInv, RuntimeWords, RuntimeBits, PhasesHold, NothingLeft, Runtime!Wake, Runtime!Leave, Runtime!count,
         Runtime!telegram, Runtime!beside
<1> QED BY <1>1, <1>2, <1>3, <1>4, <1>5 DEF RuntimeInv

\* A signal is heard, or ends the process.
LEMMA RuntimeSignal ==
    ASSUME RuntimeConstants, RuntimeInv, Runtime!Signal
    PROVE  RuntimeInv'
<1> DEFINE deaf == phase \in {"observe", "stop_telegram", "stop_http", "stop_cleanup"}
<1>1. /\ signals < MaxSignals /\ signals' = signals + 1 /\ faults' = faults /\ phase # "over"
      /\ stopping' = stopping /\ webhook' = webhook /\ scanning' = scanning /\ cleaning' = cleaning
      /\ broken' = broken
  BY DEF Runtime!Signal
<1>2. signals' \in 0..MaxSignals
  BY <1>1 DEF RuntimeConstants, RuntimeInv, RuntimeNumbers
<1>3. CASE deaf
  <2>1. /\ phase' = "over" /\ http' = "off" /\ poller' = "off" /\ pool' = "ended" /\ worker' = "off"
        /\ scanTimer' = FALSE /\ cleanTimer' = FALSE /\ scans' = 0 /\ sweeps' = 0
        /\ ready' = ready /\ shutting' = shutting
    BY <1>3 DEF Runtime!Signal, Runtime!WayOut
  <2>2. RuntimeWords' /\ RuntimeNumbers' /\ RuntimeBits'
    BY <1>1, <1>2, <2>1 DEF RuntimeInv, RuntimeWords, RuntimeNumbers, RuntimeBits
  <2>3. signals' # 0
    BY <1>1 DEF RuntimeInv, RuntimeNumbers
  <2>4. FlagsHold' /\ PhasesHold'
    BY <2>1, <2>3 DEF RuntimeInv, FlagsHold, PhasesHold, NothingLeft
  <2> QED BY <2>2, <2>4 DEF RuntimeInv
<1>4. CASE ~deaf
  <2>1. /\ ready' = FALSE /\ shutting' = (shutting \/ (worker # "off" /\ ~RunOnce))
        /\ worker' = (IF RunOnce THEN worker ELSE IF worker = "sleep" THEN "off" ELSE worker)
        /\ phase' = IF worker' = "off" /\ worker # "off" THEN "stop_telegram" ELSE phase
        /\ http' = http /\ poller' = poller /\ pool' = pool /\ scanTimer' = scanTimer /\ cleanTimer' = cleanTimer
        /\ scans' = scans /\ sweeps' = sweeps
    BY <1>4 DEF Runtime!Signal, Runtime!Interrupted, Runtime!WayOut
  <2>2. RuntimeWords'
    BY <2>1 DEF RuntimeInv, RuntimeWords
  <2>3. RuntimeNumbers'
    BY <1>1, <1>2, <2>1 DEF RuntimeInv, RuntimeNumbers
  <2>4. RuntimeBits'
    BY <1>1, <1>2, <2>1 DEF RuntimeInv, RuntimeBits
  <2>5. FlagsHold'
    BY <1>1, <1>2, <2>1 DEF RuntimeInv, FlagsHold
  <2>6. PhasesHold'
    BY <1>1, <1>2, <1>4, <2>1 DEF RuntimeInv, RuntimeWords, PhasesHold, NothingLeft
  <2> QED BY <2>2, <2>3, <2>4, <2>5, <2>6 DEF RuntimeInv
<1> QED BY <1>3, <1>4

\* What goes on beside the worker.
LEMMA RuntimePoll ==
    ASSUME RuntimeConstants, RuntimeInv, Runtime!Poll
    PROVE  RuntimeInv'
<1>1. RuntimeWords'
  BY DEF RuntimeInv, RuntimeWords, Runtime!Poll, Runtime!count, Runtime!beside
<1>2. RuntimeNumbers'
  BY DEF RuntimeInv, RuntimeNumbers, RuntimeConstants, Runtime!Poll, Runtime!count, Runtime!beside
<1>3. RuntimeBits'
  BY DEF RuntimeInv, RuntimeBits, Runtime!Poll, Runtime!count, Runtime!beside
<1>4. FlagsHold'
  BY DEF RuntimeInv, RuntimeNumbers, FlagsHold, Runtime!Poll, Runtime!count, Runtime!beside
<1>5. PhasesHold'
  BY DEF RuntimeInv, RuntimeWords, RuntimeBits, PhasesHold, NothingLeft, Runtime!Poll, Runtime!count, Runtime!beside
<1> QED BY <1>1, <1>2, <1>3, <1>4, <1>5 DEF RuntimeInv

LEMMA RuntimeScan ==
    ASSUME RuntimeConstants, RuntimeInv, Runtime!Scan
    PROVE  RuntimeInv'
<1>1. RuntimeWords'
  BY DEF RuntimeInv, RuntimeWords, Runtime!Scan, Runtime!Alive, Runtime!MayScan, Runtime!count,
         Runtime!telegram
<1>2. RuntimeNumbers'
  BY DEF RuntimeInv, RuntimeNumbers, RuntimeConstants, FlagsHold, Runtime!Scan, Runtime!Alive,
         Runtime!MayScan, Runtime!count, Runtime!telegram
<1>3. RuntimeBits'
  BY DEF RuntimeInv, RuntimeBits, Runtime!Scan, Runtime!Alive, Runtime!MayScan, Runtime!count,
         Runtime!telegram
<1>4. FlagsHold'
  BY DEF RuntimeInv, RuntimeNumbers, FlagsHold, Runtime!Scan, Runtime!Alive, Runtime!MayScan, Runtime!count,
         Runtime!telegram
<1>5. PhasesHold'
  BY DEF RuntimeInv, RuntimeWords, RuntimeBits, PhasesHold, NothingLeft, Runtime!Scan, Runtime!Alive,
         Runtime!MayScan, Runtime!count, Runtime!telegram
<1> QED BY <1>1, <1>2, <1>3, <1>4, <1>5 DEF RuntimeInv

LEMMA RuntimeSweep ==
    ASSUME RuntimeConstants, RuntimeInv, Runtime!Sweep
    PROVE  RuntimeInv'
<1>1. RuntimeWords'
  BY DEF RuntimeInv, RuntimeWords, Runtime!Sweep, Runtime!Alive, Runtime!count, Runtime!telegram
<1>2. RuntimeNumbers'
  BY DEF RuntimeInv, RuntimeNumbers, RuntimeConstants, FlagsHold, Runtime!Sweep, Runtime!Alive, Runtime!count,
         Runtime!telegram
<1>3. RuntimeBits'
  BY DEF RuntimeInv, RuntimeBits, Runtime!Sweep, Runtime!Alive, Runtime!count, Runtime!telegram
<1>4. FlagsHold'
  BY DEF RuntimeInv, RuntimeNumbers, FlagsHold, Runtime!Sweep, Runtime!Alive, Runtime!count, Runtime!telegram
<1>5. PhasesHold'
  BY DEF RuntimeInv, RuntimeWords, RuntimeBits, PhasesHold, NothingLeft, Runtime!Sweep, Runtime!Alive,
         Runtime!count, Runtime!telegram
<1> QED BY <1>1, <1>2, <1>3, <1>4, <1>5 DEF RuntimeInv

\* On the way out.
LEMMA RuntimeTellPoller ==
    ASSUME RuntimeConstants, RuntimeInv, Runtime!TellPoller
    PROVE  RuntimeInv'
<1>1. RuntimeWords'
  BY DEF RuntimeInv, RuntimeWords, Runtime!TellPoller, Runtime!count, Runtime!beside
<1>2. RuntimeNumbers'
  BY DEF RuntimeInv, RuntimeNumbers, RuntimeConstants, Runtime!TellPoller, Runtime!count, Runtime!beside
<1>3. RuntimeBits'
  BY DEF RuntimeInv, RuntimeBits, Runtime!TellPoller, Runtime!count, Runtime!beside
<1>4. FlagsHold'
  BY DEF RuntimeInv, RuntimeNumbers, FlagsHold, Runtime!TellPoller, Runtime!count, Runtime!beside
<1>5. PhasesHold'
  BY DEF RuntimeInv, RuntimeWords, RuntimeBits, PhasesHold, NothingLeft, Runtime!TellPoller, Runtime!count,
         Runtime!beside
<1> QED BY <1>1, <1>2, <1>3, <1>4, <1>5 DEF RuntimeInv

LEMMA RuntimeStopTelegram ==
    ASSUME RuntimeConstants, RuntimeInv, Runtime!StopTelegram
    PROVE  RuntimeInv'
<1>1. RuntimeWords'
  BY DEF RuntimeInv, RuntimeWords, Runtime!StopTelegram, Runtime!Fault, Runtime!Loops, Runtime!count
<1>2. RuntimeNumbers'
  BY DEF RuntimeInv, RuntimeNumbers, RuntimeConstants, Runtime!StopTelegram, Runtime!Fault, Runtime!Loops,
         Runtime!count
<1>3. RuntimeBits'
  BY DEF RuntimeInv, RuntimeBits, Runtime!StopTelegram, Runtime!Fault, Runtime!Loops, Runtime!count
<1>4. FlagsHold'
  BY DEF RuntimeInv, RuntimeNumbers, FlagsHold, Runtime!StopTelegram, Runtime!Fault, Runtime!Loops,
         Runtime!count
<1>5. PhasesHold'
  BY DEF RuntimeInv, RuntimeWords, RuntimeBits, PhasesHold, NothingLeft, Runtime!StopTelegram, Runtime!Fault,
         Runtime!Loops, Runtime!count
<1> QED BY <1>1, <1>2, <1>3, <1>4, <1>5 DEF RuntimeInv

LEMMA RuntimeStopHttp ==
    ASSUME RuntimeConstants, RuntimeInv, Runtime!StopHttp
    PROVE  RuntimeInv'
<1>1. RuntimeWords'
  BY DEF RuntimeInv, RuntimeWords, Runtime!StopHttp, Runtime!count, Runtime!telegram, Runtime!beside
<1>2. RuntimeNumbers'
  BY DEF RuntimeInv, RuntimeNumbers, RuntimeConstants, Runtime!StopHttp, Runtime!count, Runtime!telegram,
         Runtime!beside
<1>3. RuntimeBits'
  BY DEF RuntimeInv, RuntimeBits, Runtime!StopHttp, Runtime!count, Runtime!telegram, Runtime!beside
<1>4. FlagsHold'
  BY DEF RuntimeInv, RuntimeNumbers, FlagsHold, Runtime!StopHttp, Runtime!count, Runtime!telegram,
         Runtime!beside
<1>5. PhasesHold'
  BY DEF RuntimeInv, RuntimeWords, RuntimeBits, PhasesHold, NothingLeft, Runtime!StopHttp, Runtime!count,
         Runtime!telegram, Runtime!beside
<1> QED BY <1>1, <1>2, <1>3, <1>4, <1>5 DEF RuntimeInv

LEMMA RuntimeStopCleanup ==
    ASSUME RuntimeConstants, RuntimeInv, Runtime!StopCleanup
    PROVE  RuntimeInv'
<1>1. RuntimeWords'
  BY DEF RuntimeInv, RuntimeWords, Runtime!StopCleanup, Runtime!StopTimers, Runtime!count, Runtime!telegram
<1>2. RuntimeNumbers'
  BY DEF RuntimeInv, RuntimeNumbers, RuntimeConstants, Runtime!StopCleanup, Runtime!StopTimers, Runtime!count,
         Runtime!telegram
<1>3. RuntimeBits'
  BY DEF RuntimeInv, RuntimeBits, Runtime!StopCleanup, Runtime!StopTimers, Runtime!count, Runtime!telegram
<1>4. FlagsHold'
  BY DEF RuntimeInv, RuntimeNumbers, FlagsHold, Runtime!StopCleanup, Runtime!StopTimers, Runtime!count,
         Runtime!telegram
<1>5. PhasesHold'
  BY DEF RuntimeInv, RuntimeWords, RuntimeBits, PhasesHold, NothingLeft, Runtime!StopCleanup, Runtime!StopTimers,
         Runtime!count, Runtime!telegram
<1> QED BY <1>1, <1>2, <1>3, <1>4, <1>5 DEF RuntimeInv

\* The inductive invariant: what there is of a process at each await of runApplicationRuntime,
\* and that the flags of scans and cleanups say what is under way (src/app.ts).
THEOREM RuntimeInvariant ==
    ASSUME RuntimeConstants
    PROVE  Runtime!Spec => []RuntimeInv
<1>1. Runtime!Init => RuntimeInv
  BY RuntimeBegins
<1>2. RuntimeInv /\ [Runtime!Next]_Runtime!vars => RuntimeInv'
  <2>1. SUFFICES ASSUME RuntimeInv, [Runtime!Next]_Runtime!vars PROVE RuntimeInv'
    OBVIOUS
  <2>2. CASE UNCHANGED Runtime!vars
    <3>1. /\ phase' = phase /\ ready' = ready /\ http' = http /\ worker' = worker /\ shutting' = shutting
          /\ poller' = poller /\ stopping' = stopping /\ webhook' = webhook /\ pool' = pool
          /\ scanTimer' = scanTimer /\ cleanTimer' = cleanTimer /\ scans' = scans /\ sweeps' = sweeps
          /\ scanning' = scanning /\ cleaning' = cleaning /\ broken' = broken
          /\ faults' = faults /\ signals' = signals
      BY <2>2 DEF Runtime!vars, Runtime!count, Runtime!telegram, Runtime!beside
    <3> QED BY <2>1, <3>1 DEF RuntimeInv, RuntimeWords, RuntimeNumbers, RuntimeBits, FlagsHold, PhasesHold, NothingLeft
  <2> QED BY <2>1, <2>2, RuntimeListen, RuntimeStartTelegram, RuntimeCheck, RuntimeCycleEnds, RuntimeWake,
            RuntimeSignal, RuntimePoll, RuntimeScan, RuntimeSweep, RuntimeTellPoller, RuntimeStopTelegram,
            RuntimeStopHttp, RuntimeStopCleanup DEF Runtime!Next, Runtime!Main
<1> QED BY <1>1, <1>2, PTL DEF Runtime!Spec

\* Whatever is configured, whichever calls fail and whenever signals come: no update is handled
\* on closed connections, scans and cleanups do not overlap, a process that ends without a
\* failing call leaves nothing behind it, and one that was told to stop is not ready again
\* (src/app.ts, poller.ts, InternalTrackerCleanupScheduler).
THEOREM RuntimeSound ==
    ASSUME RuntimeConstants
    PROVE  Runtime!Spec => []Runtime!RuntimeIsSound
<1>1. RuntimeInv => Runtime!RuntimeIsSound
  BY DEF RuntimeInv, RuntimeWords, RuntimeNumbers, FlagsHold, PhasesHold, NothingLeft, Runtime!RuntimeIsSound,
         Runtime!HandlesConnected, Runtime!OneAtATime, Runtime!LeavesNothing, Runtime!StaysNotReady
<1> QED BY <1>1, RuntimeInvariant, PTL

\* The state of a process is of its type (src/app.ts).
THEOREM RuntimeTypes ==
    ASSUME RuntimeConstants
    PROVE  Runtime!Spec => []Runtime!TypeOK
<1>1. RuntimeInv => Runtime!TypeOK
  BY DEF RuntimeInv, RuntimeWords, RuntimeNumbers, Runtime!TypeOK, Runtime!Checks, Runtime!WayOut
<1> QED BY <1>1, RuntimeInvariant, PTL

-----------------------------------------------------------------------------
(* The configuration *)

Ended             == {"preflight", "running"}
AfterTalks        == {"worker"} \cup Ended
AfterStores       == {"webhook", "talks"} \cup AfterTalks
AfterCoordination == {"stores"} \cup AfterStores
AfterAssistant    == {"coordination"} \cup AfterCoordination
AfterSecrets      == {"assistant"} \cup AfterAssistant
AfterManager      == {"secrets"} \cup AfterSecrets
AfterTracker      == {"profiles", "manager"} \cup AfterManager

IsInternal == tracker.provider = "internal"

\* What each parser leaves for those after it.
TrackerParsed ==
    /\ stage \in AfterTracker => tracker.provider \in Providers
    /\ IsInternal  => tracker.storage \in Storages /\ (tracker.storage = "memory" => start.test)
    /\ ~IsInternal => ~tracker.sync
ProfilesParsed == Distinct(profiles) /\ (~start.file => policies = NoPolicies)
ManagerParsed  == stage \in AfterManager => (SomeManaged => IsInternal)
SecretsParsed  == stage \in AfterSecrets => (UsesYandex => yandex)
AssistantParsed ==
    stage \in AfterAssistant =>
        /\ assistant.webhook => assistant.mode = "webhook"
        /\ ~start.preflight =>
              /\ assistant.mode = "webhook" => assistant.webhook /\ assistant.secret
              /\ assistant.enabled => assistant.token /\ (start.production => assistant.allowed)
Located == stage \in AfterCoordination => (IsInternal => locking = "none")

\* What each step of the construction leaves for those after it.
StoresBuilt ==
    stage \in AfterStores =>
        /\ app.tracker = (IF IsInternal THEN tracker.storage ELSE "none")
        /\ app.goals   = (IF SomeManaged /\ IsInternal THEN tracker.storage ELSE "none")
AssistantBuilt ==
    /\ stage \in AfterTalks /\ app.talks # "none" =>
          /\ assistant.enabled /\ assistant.token
          /\ assistant.mode = "webhook" => assistant.webhook
          /\ IsInternal => app.talks = tracker.storage
    /\ stage \in {"webhook", "talks"} => app.talks = "none"
WorkerBuilt ==
    stage \in Ended =>
        /\ stage = "running" => ~start.preflight
        /\ app.bridge # "none" => IsInternal /\ tracker.sync /\ app.bridge = tracker.storage
        /\ app.locks = "comments" => locking = "tracker"
        /\ app.worker = "internal" <=> IsInternal

CInv ==
    /\ TypeOK /\ TrackerParsed /\ ProfilesParsed /\ ManagerParsed /\ SecretsParsed /\ AssistantParsed
    /\ Located /\ StoresBuilt /\ AssistantBuilt /\ WorkerBuilt /\ NeverBroken
    /\ stage \in {"tracker", "profiles"} => profiles = <<>>
    /\ stage \in {"tracker", "profiles", "manager", "secrets", "assistant", "coordination", "stores"}
          => app = NoApp

\* What the constants stand for.
Sane ==
    /\ Lower \in [Names -> Names] /\ \A n \in Names : Lower[Lower[n]] = Lower[n]
    /\ Single \in Names /\ Starts \subseteq Starting /\ Assistants \subseteq Settings
    /\ MaxProfiles \in Nat

USE DEF Sane

\* A profile of a list is a profile.
LEMMA Listed ==
    ASSUME NEW S, NEW n \in Nat, NEW given \in [1..n -> S]
    PROVE  given \in Seq(S) /\ Len(given) = n
  OBVIOUS

LEMMA InitInv ==
    ASSUME Sane, Init PROVE CInv
  <1>1. Distinct(profiles) BY DEF Init, Distinct
  <1>2. TypeOK
    <2>1. tracker \in [provider : Providers \cup {"unset"}, sync : BOOLEAN, storage : Storages \cup {"none"}]
      BY DEF Init, NoTracker
    <2>2. profiles \in Seq([name : Names, manager : Flag, auto : Flag \cup {"none"}])
      BY DEF Init
    <2>3. policies \in [Names -> {"none", "on", "off"}]
      BY DEF Init, NoPolicies
    <2>4. assistant \in [enabled : BOOLEAN, mode : Modes, token : BOOLEAN, webhook : BOOLEAN,
                         secret : BOOLEAN, allowed : BOOLEAN]
      BY DEF Init, NoAssistant, Modes
    <2>5. app \in Made BY DEF Init, NoApp, Made
    <2> QED BY <2>1, <2>2, <2>3, <2>4, <2>5 DEF Init, TypeOK
  <1> QED
    BY <1>1, <1>2
    DEF Init, CInv, TrackerParsed, ProfilesParsed, ManagerParsed, SecretsParsed, AssistantParsed, Located,
        StoresBuilt, AssistantBuilt, WorkerBuilt, NeverBroken, IsInternal, NoTracker, NoPolicies,
        AfterTracker, AfterManager, AfterSecrets, AfterAssistant, AfterCoordination, AfterStores,
        AfterTalks, Ended

\* A process that has been stopped has nothing more to keep.
LEMMA StopKeeps ==
    ASSUME CInv, NEW how \in {"refused", "failed"}, Stop(how) PROVE CInv'
  BY DEF Stop, CInv, loaded, TypeOK, TrackerParsed, ProfilesParsed, ManagerParsed, SecretsParsed,
         AssistantParsed, Located, StoresBuilt, AssistantBuilt, WorkerBuilt, NeverBroken, IsInternal,
         Distinct, NoPolicies, UsesYandex, SomeManaged,
         AfterTracker, AfterManager, AfterSecrets, AfterAssistant, AfterCoordination, AfterStores,
         AfterTalks, Ended

LEMMA TrackerStep ==
    ASSUME Sane, CInv, ParseTracker PROVE CInv'
  <1>1. CASE Stop("refused") BY <1>1, StopKeeps
  <1>2. CASE ~Stop("refused")
    <2>1. PICK env \in Providers \cup {"unset", "blank", "bad"},
               file \in (IF start.file THEN Providers \cup {"unset", "bad"} ELSE {"unset"}),
               intake \in {"standalone", "hybrid", "bad"}, sync \in BOOLEAN,
               storage \in Storages \cup {"bad"}, url \in {"unset", "postgres", "bad"} :
            /\ Nullish(env, file, "yandex") # "bad" /\ storage # "bad"
            /\ Nullish(env, file, "yandex") = "internal" => Internal(intake, sync, storage, url)
            /\ tracker' = (IF Nullish(env, file, "yandex") = "internal"
                           THEN [provider |-> Nullish(env, file, "yandex"), sync |-> sync, storage |-> storage]
                           ELSE [NoTracker EXCEPT !.provider = Nullish(env, file, "yandex")])
            /\ stage = "tracker" /\ stage' = "profiles"
            /\ UNCHANGED <<start, profiles, policies, auto, manager, yandex, assistant, locking, app>>
      BY <1>2 DEF ParseTracker
    <2>a. Nullish(env, file, "yandex") \in Providers
      BY <2>1 DEF Nullish, Providers
    <2>2. /\ tracker' \in [provider : Providers, sync : BOOLEAN, storage : Storages \cup {"none"}]
          /\ tracker'.provider = "internal"
                => tracker'.storage \in Storages /\ (tracker'.storage = "memory" => start.test)
          /\ tracker'.provider # "internal" => ~tracker'.sync
      BY <2>1, <2>a DEF NoTracker, Internal
    <2>3. TypeOK' BY <2>1, <2>2 DEF CInv, TypeOK
    <2> QED
      BY <2>1, <2>2, <2>3
      DEF CInv, TrackerParsed, ProfilesParsed, ManagerParsed, SecretsParsed, AssistantParsed, Located,
          StoresBuilt, AssistantBuilt, WorkerBuilt, NeverBroken, IsInternal, Distinct, NoPolicies,
          AfterTracker, AfterManager, AfterSecrets, AfterAssistant, AfterCoordination, AfterStores,
          AfterTalks, Ended
  <1> QED BY <1>1, <1>2

LEMMA MergedType ==
    ASSUME NEW n \in Nat, NEW given \in [1..n -> [name : Names, manager : Flag, auto : Flag \cup {"none"}]],
           NEW listed \in [Names -> Flag \cup {"none"}]
    PROVE  Merged(listed, given) \in [Names -> {"none", "on", "off"}]
  <1> SUFFICES ASSUME NEW name \in Names PROVE Merged(listed, given)[name] \in {"none", "on", "off"}
    BY DEF Merged
  <1> DEFINE own == {given[i].auto : i \in {j \in 1..Len(given) : given[j].name = name}}
  <1>1. own \cap {"on", "off"} # {}
           => (CHOOSE said \in own \cap {"on", "off"} : TRUE) \in {"on", "off"}
    OBVIOUS
  <1>2. listed[name] \in {"on", "off", "unset", "none"} BY DEF Flag
  <1> QED BY <1>1, <1>2 DEF Merged

LEMMA ProfilesStep ==
    ASSUME Sane, CInv, ParseProfiles PROVE CInv'
  <1> DEFINE Profile == [name : Names, manager : Flag, auto : Flag \cup {"none"}]
  <1>1. CASE Stop("refused") BY <1>1, StopKeeps
  <1>2. CASE ~Stop("refused")
    <2>1. /\ stage = "profiles" /\ stage' = "manager" /\ auto' \in BOOLEAN
          /\ UNCHANGED <<start, tracker, manager, yandex, assistant, locking, app>>
      BY <1>2 DEF ParseProfiles
    <2>2. profiles' \in Seq(Profile) /\ policies' \in [Names -> {"none", "on", "off"}] /\ ProfilesParsed'
      <3>1. CASE start.file
        <4>0. PICK n \in 0..MaxProfiles : \E given \in [1..n -> Profile] :
                /\ Distinct(given) /\ profiles' = given
                /\ \E listed \in [Names -> Flag \cup {"none"}] : policies' = Merged(listed, given)
          BY <1>2, <3>1 DEF ParseProfiles
        <4>1. PICK given \in [1..n -> Profile], listed \in [Names -> Flag \cup {"none"}] :
                Distinct(given) /\ profiles' = given /\ policies' = Merged(listed, given)
          BY <4>0
        <4>2. given \in Seq(Profile)
          <5>1. n \in Nat BY DEF Sane
          <5>2. ASSUME NEW S, given \in [1..n -> S] PROVE given \in Seq(S) BY <5>1, <5>2, Listed
          <5> QED BY <4>1, <5>2
        <4>3. Merged(listed, given) \in [Names -> {"none", "on", "off"}] BY MergedType
        <4> QED BY <2>1, <3>1, <4>1, <4>2, <4>3 DEF ProfilesParsed
      <3>2. CASE ~start.file
        <4>1. profiles' = SingleProfile /\ UNCHANGED policies BY <1>2, <3>2 DEF ParseProfiles
        <4>2. SingleProfile \in Seq(Profile) BY DEF SingleProfile, Flag
        <4>3. Distinct(SingleProfile) BY DEF Distinct, SingleProfile
        <4> QED BY <2>1, <3>2, <4>1, <4>2, <4>3 DEF ProfilesParsed, CInv, TypeOK, NoPolicies
      <3> QED BY <3>1, <3>2
    <2>3. TypeOK' BY <2>1, <2>2 DEF CInv, TypeOK
    <2> QED
      BY <2>1, <2>2, <2>3
      DEF CInv, TrackerParsed, ManagerParsed, SecretsParsed, AssistantParsed, Located, StoresBuilt,
          AssistantBuilt, WorkerBuilt, NeverBroken, IsInternal,
          AfterTracker, AfterManager, AfterSecrets, AfterAssistant, AfterCoordination, AfterStores,
          AfterTalks, Ended
  <1> QED BY <1>1, <1>2

LEMMA ManagerStep ==
    ASSUME CInv, ParseManager PROVE CInv'
  <1>1. CASE Stop("refused") BY <1>1, StopKeeps
  <1>2. CASE ~Stop("refused")
    <2>1. PICK enabled \in BOOLEAN :
            /\ (enabled \/ \E i \in 1..Len(profiles) : profiles[i].manager = "on") => IsInternal
            /\ stage = "manager" /\ stage' = "secrets" /\ manager' = enabled
            /\ UNCHANGED <<start, tracker, profiles, policies, auto, yandex, assistant, locking, app>>
      BY <1>2 DEF ParseManager, IsInternal
    <2>2. TypeOK' BY <2>1 DEF CInv, TypeOK
    <2>3. (SomeManaged => IsInternal)' BY <2>1 DEF SomeManaged, IsInternal
    <2> QED
      BY <2>1, <2>2, <2>3
      DEF CInv, TrackerParsed, ProfilesParsed, ManagerParsed, SecretsParsed, AssistantParsed, Located,
          StoresBuilt, AssistantBuilt, WorkerBuilt, NeverBroken, IsInternal, Distinct, NoPolicies,
          AfterTracker, AfterManager, AfterSecrets, AfterAssistant, AfterCoordination, AfterStores,
          AfterTalks, Ended
  <1> QED BY <1>1, <1>2

LEMMA SecretsStep ==
    ASSUME CInv, ParseSecrets PROVE CInv'
  <1>1. CASE Stop("refused") BY <1>1, StopKeeps
  <1>2. CASE ~Stop("refused")
    <2>1. PICK missing \in EnvironmentRequires \cup YandexRequires \cup {"nothing"} :
            /\ missing \notin Required
            /\ stage = "secrets" /\ stage' = "assistant" /\ yandex' = (missing \notin YandexRequires)
            /\ UNCHANGED <<start, tracker, profiles, policies, auto, manager, assistant, locking, app>>
      BY <1>2 DEF ParseSecrets
    <2>2. yandex' \in BOOLEAN /\ (UsesYandex => yandex') BY <2>1 DEF Required
    <2>3. TypeOK' BY <2>1, <2>2 DEF CInv, TypeOK
    <2> QED
      BY <2>1, <2>2, <2>3
      DEF CInv, TrackerParsed, ProfilesParsed, ManagerParsed, SecretsParsed, AssistantParsed, Located,
          StoresBuilt, AssistantBuilt, WorkerBuilt, NeverBroken, IsInternal, Distinct, NoPolicies,
          UsesYandex, SomeManaged,
          AfterTracker, AfterManager, AfterSecrets, AfterAssistant, AfterCoordination, AfterStores,
          AfterTalks, Ended
  <1> QED BY <1>1, <1>2

LEMMA AssistantStep ==
    ASSUME Sane, CInv, ParseAssistant PROVE CInv'
  <1>1. CASE Stop("refused") BY <1>1, StopKeeps
  <1>2. CASE ~Stop("refused")
    <2>1. PICK given \in Assistants :
            /\ ~AssistantRefused(given)
            /\ assistant' = [enabled |-> given.enabled, mode |-> given.mode, token |-> given.token,
                             webhook |-> given.mode = "webhook" /\ given.path = "ok",
                             secret |-> given.secret, allowed |-> given.allowed]
            /\ stage = "assistant" /\ stage' = "coordination"
            /\ UNCHANGED <<start, tracker, profiles, policies, auto, manager, yandex, locking, app>>
      BY <1>2 DEF ParseAssistant
    <2>2. given \in Settings OBVIOUS
    <2>3. assistant' \in [enabled : BOOLEAN, mode : Modes, token : BOOLEAN, webhook : BOOLEAN,
                          secret : BOOLEAN, allowed : BOOLEAN]
      BY <2>1, <2>2 DEF AssistantRefused, Settings
    <2>4. /\ assistant'.webhook => assistant'.mode = "webhook"
          /\ ~start.preflight =>
                /\ assistant'.mode = "webhook" => assistant'.webhook /\ assistant'.secret
                /\ assistant'.enabled => assistant'.token /\ (start.production => assistant'.allowed)
      BY <2>1, <2>2 DEF AssistantRefused, Settings
    <2>5. TypeOK' BY <2>1, <2>3 DEF CInv, TypeOK
    <2> QED
      BY <2>1, <2>4, <2>5
      DEF CInv, TrackerParsed, ProfilesParsed, ManagerParsed, SecretsParsed, AssistantParsed, Located,
          StoresBuilt, AssistantBuilt, WorkerBuilt, NeverBroken, IsInternal, Distinct, NoPolicies,
          UsesYandex, SomeManaged,
          AfterTracker, AfterManager, AfterSecrets, AfterAssistant, AfterCoordination, AfterStores,
          AfterTalks, Ended
  <1> QED BY <1>1, <1>2

LEMMA CoordinationStep ==
    ASSUME CInv, ParseCoordination PROVE CInv'
  <1>1. CASE Stop("refused") BY <1>1, StopKeeps
  <1>2. CASE ~Stop("refused")
    <2>1. /\ stage = "coordination" /\ stage' = "stores"
          /\ locking' \in {"none", "tracker"} /\ (IsInternal => locking' = "none")
          /\ UNCHANGED <<start, tracker, profiles, policies, auto, manager, yandex, assistant, app>>
      BY <1>2 DEF ParseCoordination, IsInternal, Backends
    <2>2. TypeOK' BY <2>1 DEF CInv, TypeOK
    <2> QED
      BY <2>1, <2>2
      DEF CInv, TrackerParsed, ProfilesParsed, ManagerParsed, SecretsParsed, AssistantParsed, Located,
          StoresBuilt, AssistantBuilt, WorkerBuilt, NeverBroken, IsInternal, Distinct, NoPolicies,
          UsesYandex, SomeManaged,
          AfterTracker, AfterManager, AfterSecrets, AfterAssistant, AfterCoordination, AfterStores,
          AfterTalks, Ended
  <1> QED BY <1>1, <1>2

\* The steps of buildApplication, which change no setting.
LEMMA BuildStep ==
    ASSUME CInv, BuildStores \/ CheckWebhook \/ BuildAssistant \/ BuildWorker PROVE CInv'
  <1>1. CASE Stop("failed") BY <1>1, StopKeeps
  <1>2. ~Stop("broken")
    BY DEF Stop, BuildStores, CheckWebhook, BuildAssistant, BuildWorker, CInv, TypeOK, TrackerParsed,
           AssistantParsed, StoresBuilt, IsInternal, Storages, Modes, loaded,
           AfterAssistant, AfterCoordination, AfterStores, AfterTalks, Ended
  <1>3. CASE ~Stop("failed")
    <2>1. UNCHANGED <<start, loaded>>
      BY <1>2, <1>3 DEF BuildStores, CheckWebhook, BuildAssistant, BuildWorker
    <2>2. \/ stage = "stores" /\ stage' = "webhook" /\ BuildStores
          \/ stage = "webhook" /\ stage' = "talks" /\ CheckWebhook /\ UNCHANGED app
          \/ stage = "talks" /\ stage' = "worker" /\ BuildAssistant
          \/ stage = "worker" /\ stage' \in Ended /\ BuildWorker
      BY <1>2, <1>3 DEF BuildStores, CheckWebhook, BuildAssistant, BuildWorker, Ended
    <2>3. /\ TrackerParsed' /\ ProfilesParsed' /\ ManagerParsed' /\ SecretsParsed' /\ AssistantParsed'
          /\ Located'
      BY <2>1, <2>2
      DEF CInv, TrackerParsed, ProfilesParsed, ManagerParsed, SecretsParsed, AssistantParsed, Located,
          loaded, IsInternal, Distinct, NoPolicies, UsesYandex, SomeManaged,
          AfterTracker, AfterManager, AfterSecrets, AfterAssistant, AfterCoordination, AfterStores,
          AfterTalks, Ended
    <2>4. tracker.storage \in Storages \/ ~IsInternal BY DEF CInv, TrackerParsed
    <2>5. app \in Made BY DEF CInv, TypeOK
    <2>a. ASSUME stage = "stores"
         PROVE app' \in Made /\ StoresBuilt' /\ AssistantBuilt' /\ WorkerBuilt'
      <3>1. PICK x \in Storages \cup {"none"}, y \in Storages \cup {"none"} :
              /\ app' = [app EXCEPT !.tracker = x, !.goals = y]
              /\ x = (IF IsInternal THEN tracker.storage ELSE "none")
              /\ y = (IF SomeManaged /\ IsInternal THEN tracker.storage ELSE "none")
        BY <2>2, <2>4, <2>a DEF BuildStores, IsInternal
      <3>2. app' \in Made /\ app'.tracker = x /\ app'.goals = y /\ app'.talks = app.talks
        BY <2>5, <3>1 DEF Made
      <3>3. StoresBuilt' /\ AssistantBuilt' /\ WorkerBuilt'
        BY <2>1, <2>2, <2>a, <3>1, <3>2
        DEF StoresBuilt, AssistantBuilt, WorkerBuilt, CInv, NoApp, loaded, IsInternal, SomeManaged, Managed,
            AfterTalks, Ended
      <3> QED BY <3>2, <3>3
    <2>b. ASSUME stage = "webhook"
         PROVE app' \in Made /\ StoresBuilt' /\ AssistantBuilt' /\ WorkerBuilt'
      BY <2>1, <2>2, <2>5, <2>b
      DEF CInv, Made, StoresBuilt, AssistantBuilt, WorkerBuilt, loaded, IsInternal, SomeManaged, AfterStores,
          AfterTalks, Ended
    <2>c. ASSUME stage = "talks"
         PROVE app' \in Made /\ StoresBuilt' /\ AssistantBuilt' /\ WorkerBuilt'
      <3>1. PICK x \in Storages \cup {"none"} :
              /\ app' = [app EXCEPT !.talks = x]
              /\ x # "none" => /\ assistant.enabled /\ assistant.token
                               /\ assistant.mode = "webhook" => assistant.webhook
                               /\ IsInternal => x = tracker.storage
        <4>1. CASE UNCHANGED app
          BY <4>1, <2>5, <2>c DEF CInv, AssistantBuilt, Made
        <4>2. CASE ~UNCHANGED app
          BY <1>2, <2>2, <2>4, <2>c, <4>2 DEF BuildAssistant, IsInternal, Storages
        <4> QED BY <4>1, <4>2
      <3>2. app' \in Made /\ app'.tracker = app.tracker /\ app'.goals = app.goals /\ app'.talks = x
        BY <2>5, <3>1 DEF Made
      <3>3. StoresBuilt' /\ AssistantBuilt' /\ WorkerBuilt'
        BY <2>1, <2>2, <2>c, <3>1, <3>2
        DEF StoresBuilt, AssistantBuilt, WorkerBuilt, CInv, loaded, IsInternal, SomeManaged, AfterStores,
            AfterTalks, Ended
      <3> QED BY <3>2, <3>3
    <2>d. ASSUME stage = "worker"
         PROVE app' \in Made /\ StoresBuilt' /\ AssistantBuilt' /\ WorkerBuilt'
      <3>1. PICK x \in Storages \cup {"none"}, y \in {"noop", "comments"}, z \in {"internal", "fleet", "direct"} :
              /\ app' = [app EXCEPT !.bridge = x, !.locks = y, !.worker = z]
              /\ x # "none" => IsInternal /\ tracker.sync /\ x = tracker.storage
              /\ y = "comments" => locking = "tracker"
              /\ z = "internal" <=> IsInternal
              /\ stage' = "running" => ~start.preflight
        BY <1>2, <2>2, <2>4, <2>d DEF BuildWorker, IsInternal, CInv, TypeOK
      <3>2. /\ app' \in Made /\ app'.tracker = app.tracker /\ app'.goals = app.goals
            /\ app'.talks = app.talks /\ app'.bridge = x /\ app'.locks = y /\ app'.worker = z
        BY <2>5, <3>1 DEF Made
      <3>3. StoresBuilt' /\ AssistantBuilt' /\ WorkerBuilt'
        BY <2>1, <2>2, <2>d, <3>1, <3>2
        DEF StoresBuilt, AssistantBuilt, WorkerBuilt, CInv, loaded, IsInternal, SomeManaged, AfterStores,
            AfterTalks, Ended
      <3> QED BY <3>2, <3>3
    <2>6. app' \in Made /\ StoresBuilt' /\ AssistantBuilt' /\ WorkerBuilt'
      BY <2>2, <2>a, <2>b, <2>c, <2>d
    <2>7. TypeOK' BY <2>1, <2>2, <2>6 DEF CInv, TypeOK, loaded, Ended
    <2> QED BY <2>1, <2>2, <2>3, <2>6, <2>7 DEF CInv, NeverBroken, Ended
  <1> QED BY <1>1, <1>3

\* The invariant is enough: what Yandex requires is there, the stores agree, managed
\* repositories have their goals, the assistant is guarded, and policies are one's own.
LEMMA CInvSound ==
    ASSUME Sane, CInv PROVE ConfigIsSound
  <1>1. YandexIsKnown
    BY DEF YandexIsKnown, Built, CInv, TypeOK, TrackerParsed, SecretsParsed, WorkerBuilt, Located, UsesYandex,
           IsInternal, Providers, AfterTracker, AfterManager, AfterSecrets, AfterAssistant,
           AfterCoordination, AfterStores, AfterTalks, Ended
  <1>2. StoresAgree
    BY DEF StoresAgree, Built, CInv, TypeOK, TrackerParsed, StoresBuilt, AssistantBuilt, WorkerBuilt,
           IsInternal, Storages, AfterStores, AfterTalks, Ended
  <1>3. ManagedHasGoals
    <2> SUFFICES ASSUME Built, NEW i \in 1..Len(profiles), Managed(profiles[i])
                 PROVE  app.worker = "internal" /\ app.goals # "none"
      BY DEF ManagedHasGoals
    <2>1. SomeManaged BY DEF Managed, SomeManaged
    <2>2. IsInternal /\ tracker.storage \in Storages
      BY <2>1 DEF Built, CInv, ManagerParsed, TrackerParsed, AfterManager, AfterSecrets, AfterAssistant,
                  AfterCoordination, AfterStores, AfterTalks, Ended
    <2> QED
      BY <2>1, <2>2 DEF Built, CInv, StoresBuilt, WorkerBuilt, Storages, AfterStores, AfterTalks, Ended
  <1>4. AssistantIsGuarded
    BY DEF AssistantIsGuarded, CInv, AssistantParsed, AssistantBuilt, WorkerBuilt, AfterAssistant,
           AfterCoordination, AfterStores, AfterTalks, Ended
  <1>5. PolicyIsOwn
    <2> SUFFICES ASSUME NEW i \in 1..Len(profiles), NEW j \in 1..Len(profiles)
                 PROVE  /\ Automatic(profiles[i].name) => start.file
                        /\ i # j => Entry(profiles[i].name) # profiles[j].name
      BY DEF PolicyIsOwn
    <2> DEFINE Profile == [name : Names, manager : Flag, auto : Flag \cup {"none"}]
    <2>0. profiles[i] \in Profile /\ profiles[j] \in Profile
      <3>1. ASSUME NEW S, profiles \in Seq(S) PROVE profiles[i] \in S /\ profiles[j] \in S BY <3>1
      <3> QED BY <3>1 DEF CInv, TypeOK
    <2>1. profiles[i].name \in Names /\ profiles[j].name \in Names BY <2>0
    <2>2. Entry(profiles[i].name) \in Names BY <2>1 DEF Entry
    <2>3. Automatic(profiles[i].name) => start.file
      BY <2>2 DEF Automatic, CInv, ProfilesParsed, NoPolicies
    <2>4. ASSUME i # j PROVE Entry(profiles[i].name) # profiles[j].name
      BY <2>1, <2>4 DEF Entry, CInv, ProfilesParsed, Distinct
    <2> QED BY <2>3, <2>4
  <1> QED BY <1>1, <1>2, <1>3, <1>4, <1>5 DEF ConfigIsSound, CInv

\* parseTaskTrackerConfig to buildApplication: the settings that pass make a process that
\* is whole, for every set of names, environments and settings of the assistant.
THEOREM Configured ==
    ASSUME Sane PROVE Spec => []ConfigIsSound
  <1>1. Init => CInv BY InitInv
  <1>2. CInv /\ [Next]_vars => CInv'
    <2> SUFFICES ASSUME CInv, [Next]_vars PROVE CInv'
      OBVIOUS
    <2>1. CASE UNCHANGED vars
      BY <2>1
      DEF vars, loaded, CInv, TypeOK, TrackerParsed, ProfilesParsed, ManagerParsed, SecretsParsed,
          AssistantParsed, Located, StoresBuilt, AssistantBuilt, WorkerBuilt, NeverBroken, IsInternal,
          Distinct, NoPolicies, UsesYandex, SomeManaged
    <2> QED
      BY <2>1, TrackerStep, ProfilesStep, ManagerStep, SecretsStep, AssistantStep, CoordinationStep, BuildStep
      DEF Next
  <1>3. CInv => ConfigIsSound BY CInvSound
  <1> QED BY <1>1, <1>2, <1>3, PTL DEF Spec
=============================================================================
