------------------------ MODULE ProjectManagerProofs ------------------------
(***************************************************************************)
(* What holds of the goals of the project manager for any runs, operators, *)
(* answers of Codex and faults.                                            *)
(*                                                                         *)
(* A run completes a goal by what it read some time ago.  What makes that  *)
(* sound is that links and finished tasks are only ever added, so that a   *)
(* run knows less than there is; the inductive invariant says so of each   *)
(* run, and that a run which has completed a goal reads no more.           *)
(*                                                                         *)
(* The goals of an answer are inserted one by one, whatever their number:  *)
(* that needs induction, which the last lemmas of the first part give in   *)
(* terms of sets of numbers.                                               *)
(***************************************************************************)
EXTENDS ProjectManager, WellFoundedInduction, SequenceTheorems, TLAPS

\* Runs are no people; Codex proposes goals by their signatures; drafts are
\* numbered.
ManagerConstants ==
    /\ {"nobody", "person"} \cap Runs = {}
    /\ Answers \subseteq Seq(Sigs)
    /\ Drafts \subseteq Nat

-----------------------------------------------------------------------------
(* Induction *)

Before == {p \in Nat \X Nat : p[1] < p[2]}

\* A set of numbers has a least one.
LEMMA LeastNumber ==
    ASSUME NEW S \in SUBSET Nat, S # {}
    PROVE  \E n \in S : \A m \in S : n <= m
<1>1. IsWellFoundedOn(Before, Nat)
  <2>1. OpToRel(<, Nat) = Before
    BY DEF OpToRel, Before
  <2> QED BY <2>1, NatLessThanWellFounded
<1>2. PICK n \in S : \A m \in S : <<m, n>> \notin Before
  BY <1>1, WFMin
<1>3. ASSUME NEW m \in S PROVE n <= m
  <2>1. m \in Nat /\ n \in Nat /\ <<m, n>> \notin Before
    BY <1>2
  <2> QED BY <2>1 DEF Before
<1> QED BY <1>3

\* A set of numbers that holds 0 and the next of each is all of them.
LEMMA SetInduction ==
    ASSUME NEW S \in SUBSET Nat, 0 \in S, \A n \in S : n + 1 \in S
    PROVE  S = Nat
<1> SUFFICES ASSUME Nat \ S # {} PROVE FALSE
  OBVIOUS
<1>1. PICK n \in Nat \ S : \A m \in Nat \ S : n <= m
  BY LeastNumber
<1> QED BY <1>1

-----------------------------------------------------------------------------
(* The inductive invariant *)

Status == Open \cup {"completed", "rejected", "stale"}
Goal == [sig : Sigs, run : Runs, status : Status, by : Runs \cup {"nobody", "person"}]
Run == [status : {"none", "started", "completed", "failed"},
        at     : {"none", "list", "links", "think", "create", "judge", "failing", "end"},
        seen   : UNION {[S -> Status] : S \in SUBSET Nat},
        unread : SUBSET Nat,
        links  : SUBSET (Nat \X Drafts), finished : SUBSET (Nat \X Drafts),
        new    : Seq(Sigs),
        judged : SUBSET Nat, made : SUBSET Nat, record : SUBSET Nat]
Ask == [goal : Nat, todo : SUBSET Drafts, made : BOOLEAN]

Typed ==
    /\ goals \in Seq(Goal)
    /\ proposed \subseteq Ids \X Drafts
    /\ linked \subseteq proposed /\ done \subseteq proposed
    /\ runs \in [Runs -> Run]
    /\ asking \in [Operators -> Ask]

\* Of the goals of one signature in a table at most one is open.
OneOpen(table) ==
    \A g, h \in 1..Len(table) :
      table[g].sig = table[h].sig /\ table[g].status \in Open /\ table[h].status \in Open => g = h

\* A run knows no more than there is: n goals, links L, and tasks D that are done.
Knows(run, n, L, D) ==
    /\ DOMAIN run.seen \subseteq 1..n /\ run.judged \subseteq DOMAIN run.seen
    /\ run.made \subseteq 1..n
    /\ run.links \subseteq L /\ run.finished \subseteq D
    /\ run.status = "none" <=> run.at = "none"
    /\ run.at \in {"none", "list", "links", "think"} => run.judged = {}

\* An operator asks for tasks of one of the n goals, and links a task that was
\* proposed, in P.
Asks(ask, n, P) ==
    LET first == CHOOSE d \in ask.todo : \A e \in ask.todo : d <= e IN
    /\ ask.todo # {} => ask.goal \in 1..n
    /\ ask.made => ask.todo # {} /\ <<ask.goal, first>> \in P

\* A run that has completed goal g has read all it will, work of g among it.
Reads == {"none", "list", "links", "think", "create"}
OnWork(g) ==
    goals[g].by \in Runs =>
      LET run   == runs[goals[g].by]
          known == {k \in run.links : k[1] = g} IN
      run.at \notin Reads /\ known # {} /\ known \subseteq linked \cap done

IInv ==
    /\ Typed
    /\ \A r \in Runs : Knows(runs[r], Len(goals), linked, done)
    /\ \A o \in Operators : Asks(asking[o], Len(goals), proposed)
    /\ OneOpen(goals)
    /\ \A g \in Ids : OnWork(g)

LEMMA InitIInv == Init => IInv
<1> SUFFICES ASSUME Init PROVE IInv
  OBVIOUS
<1>0. goals = <<>> /\ Len(goals) = 0 /\ Ids = {} /\ goals \in Seq(Goal)
  BY DEF Init, Ids
<1>1. NoRun \in Run
  <2>1. [g \in {} |-> "approved"] \in [{} -> Status]
    BY DEF Status
  <2>2. [g \in {} |-> "approved"] \in UNION {[S -> Status] : S \in SUBSET Nat}
    BY <2>1
  <2>3. <<>> \in Seq(Sigs)
    BY EmptySeq
  <2> QED BY <2>2, <2>3 DEF NoRun, Run
<1>2. Knows(NoRun, 0, {}, {})
  BY DEF Knows, NoRun
<1>3. [goal |-> 0, todo |-> {}, made |-> FALSE] \in Ask
      /\ Asks([goal |-> 0, todo |-> {}, made |-> FALSE], 0, {})
  BY DEF Ask, Asks
<1> QED BY <1>0, <1>1, <1>2, <1>3 DEF Init, IInv, Typed, OneOpen

-----------------------------------------------------------------------------
(* The goals of an answer *)

\* The table after the first n goals of an answer.
IsAfter(f, n, table, r, new) ==
    f = [i \in 0..n |-> IF i = 0 THEN table ELSE Insert(f[i - 1], r, new[i])]

\* The recursive function of Inserted exists.
LEMMA AfterExists ==
    ASSUME NEW table, NEW r, NEW new, NEW n \in Nat
    PROVE  \E f : IsAfter(f, n, table, r, new)
<1> DEFINE S == {m \in Nat : \E f : IsAfter(f, m, table, r, new)}
<1>1. 0 \in S
  <2> DEFINE f == [i \in 0..0 |-> table]
  <2>1. f = [i \in 0..0 |-> IF i = 0 THEN table ELSE Insert(f[i - 1], r, new[i])]
    OBVIOUS
  <2>2. IsAfter(f, 0, table, r, new)
    BY <2>1 DEF IsAfter
  <2> QED BY <2>2
<1>2. ASSUME NEW m \in S PROVE m + 1 \in S
  <2>1. PICK f : IsAfter(f, m, table, r, new)
    OBVIOUS
  <2> DEFINE g == [i \in 0..(m + 1) |-> IF i <= m THEN f[i] ELSE Insert(f[m], r, new[m + 1])]
  <2>2. ASSUME NEW i \in 0..(m + 1)
        PROVE  g[i] = IF i = 0 THEN table ELSE Insert(g[i - 1], r, new[i])
    <3>1. CASE i = 0
      BY <2>1, <3>1 DEF IsAfter
    <3>2. CASE i \in 1..m
      <4>1. g[i] = f[i] /\ g[i - 1] = f[i - 1]
        BY <3>2
      <4>2. f[i] = Insert(f[i - 1], r, new[i])
        BY <2>1, <3>2 DEF IsAfter
      <4> QED BY <3>2, <4>1, <4>2
    <3>3. CASE i = m + 1
      <4>1. g[i] = Insert(f[m], r, new[i]) /\ g[i - 1] = f[m]
        BY <3>3
      <4> QED BY <3>3, <4>1
    <3> QED BY <3>1, <3>2, <3>3
  <2>3. IsAfter(g, m + 1, table, r, new)
    BY <2>2 DEF IsAfter
  <2> QED BY <2>3
<1> HIDE DEF S
<1>3. S = Nat
  BY <1>1, <1>2, SetInduction DEF S
<1> QED BY <1>3 DEF S

\* What an answer makes of a table of goals: it adds proposals of its run, none
\* of a signature that is open.
Extends(new, old, r) ==
    /\ new \in Seq(Goal)
    /\ Len(new) >= Len(old)
    /\ \A g \in 1..Len(old) : new[g] = old[g]
    /\ \A g \in (Len(old) + 1)..Len(new) : new[g].by = "nobody" /\ new[g].run = r
    /\ OneOpen(new)

LEMMA InsertExtends ==
    ASSUME NEW old \in Seq(Goal), NEW r \in Runs, NEW sig \in Sigs,
           NEW table, Extends(table, old, r)
    PROVE  Extends(Insert(table, r, sig), old, r)
<1> DEFINE goal == [sig |-> sig, run |-> r, status |-> "proposed", by |-> "nobody"]
<1>1. goal \in Goal
  BY DEF Goal, Status, Open
<1>2. table \in Seq(Goal) /\ Len(table) \in Nat /\ Len(old) \in Nat
  BY DEF Extends
<1>3. CASE Conflicts(table, sig)
  BY <1>3 DEF Insert
<1>4. CASE ~Conflicts(table, sig)
  <2> DEFINE new == Append(table, goal)
  <2>0. Insert(table, r, sig) = new
    BY <1>4 DEF Insert
  <2>1. /\ new \in Seq(Goal) /\ Len(new) = Len(table) + 1
        /\ \A g \in 1..Len(table) : new[g] = table[g]
        /\ new[Len(table) + 1] = goal
    BY <1>1, <1>2, AppendProperties
  <2>2. goal.sig = sig /\ goal.by = "nobody" /\ goal.run = r
    OBVIOUS
  <2>3. \A g \in 1..Len(table) : ~(table[g].sig = sig /\ table[g].status \in Open)
    BY <1>4 DEF Conflicts
  <2> HIDE DEF new, goal
  <2>4. OneOpen(new)
    <3> SUFFICES ASSUME NEW g \in 1..Len(new), NEW h \in 1..Len(new), new[g].sig = new[h].sig,
                        new[g].status \in Open, new[h].status \in Open
                 PROVE  g = h
      BY DEF OneOpen
    <3>1. CASE g \in 1..Len(table) /\ h \in 1..Len(table)
      BY <2>1, <3>1 DEF Extends, OneOpen
    <3>2. CASE g = Len(table) + 1 /\ h \in 1..Len(table)
      BY <2>1, <2>2, <2>3, <3>2
    <3>3. CASE h = Len(table) + 1 /\ g \in 1..Len(table)
      BY <2>1, <2>2, <2>3, <3>3
    <3>4. CASE h = Len(table) + 1 /\ g = Len(table) + 1
      BY <3>4
    <3> QED BY <1>2, <2>1, <3>1, <3>2, <3>3, <3>4
  <2>5. \A g \in 1..Len(old) : new[g] = old[g]
    BY <1>2, <2>1 DEF Extends
  <2>6. \A g \in (Len(old) + 1)..Len(new) : new[g].by = "nobody" /\ new[g].run = r
    <3> SUFFICES ASSUME NEW g \in (Len(old) + 1)..Len(new)
                 PROVE  new[g].by = "nobody" /\ new[g].run = r
      OBVIOUS
    <3>1. CASE g = Len(table) + 1
      BY <2>1, <2>2, <3>1
    <3>2. CASE g \in (Len(old) + 1)..Len(table)
      BY <1>2, <2>1, <3>2 DEF Extends
    <3> QED BY <1>2, <2>1, <3>1, <3>2
  <2> QED BY <1>2, <2>0, <2>1, <2>4, <2>5, <2>6 DEF Extends
<1> QED BY <1>3, <1>4

LEMMA InsertedExtends ==
    ASSUME NEW table \in Seq(Goal), OneOpen(table), NEW r \in Runs, NEW new \in Seq(Sigs)
    PROVE  Extends(Inserted(table, r, new), table, r)
<1> DEFINE len == Len(new)
           f == CHOOSE a : a = [i \in 0..len |-> IF i = 0 THEN table ELSE Insert(a[i - 1], r, new[i])]
<1>0. len \in Nat
  OBVIOUS
<1>1. f = [i \in 0..len |-> IF i = 0 THEN table ELSE Insert(f[i - 1], r, new[i])]
  <2>1. \E a : a = [i \in 0..len |-> IF i = 0 THEN table ELSE Insert(a[i - 1], r, new[i])]
    BY <1>0, AfterExists DEF IsAfter
  <2> QED BY <2>1
<1>2. Inserted(table, r, new) = f[len]
  BY DEF Inserted
<1> HIDE DEF f
<1> DEFINE S == {n \in Nat : n <= len => Extends(f[n], table, r)}
<1>3. 0 \in S
  <2>1. f[0] = table
    BY <1>0, <1>1
  <2>2. Len(table) \in Nat
    OBVIOUS
  <2> QED BY <2>1, <2>2 DEF Extends
<1>4. ASSUME NEW n \in S PROVE n + 1 \in S
  <2> SUFFICES ASSUME n + 1 <= len PROVE Extends(f[n + 1], table, r)
    BY <1>0
  <2>1. f[n + 1] = Insert(f[n], r, new[n + 1])
    BY <1>0, <1>1
  <2>2. Extends(f[n], table, r) /\ new[n + 1] \in Sigs
    BY <1>0
  <2> QED BY <2>1, <2>2, InsertExtends
<1> HIDE DEF S
<1>5. S = Nat
  BY <1>3, <1>4, SetInduction DEF S
<1> QED BY <1>0, <1>2, <1>5 DEF S

-----------------------------------------------------------------------------
(* Steps *)

\* What a step leaves of a run: nothing has happened to it, or it still knows no
\* more than there is; and one that has completed a goal has read all it will.
RunMoves(r) ==
    \/ runs'[r] = runs[r]
    \/ /\ Knows(runs'[r], Len(goals'), linked', done')
       /\ \/ runs[r].at \in Reads
          \/ runs'[r].at \notin Reads /\ runs'[r].links = runs[r].links

\* What it leaves of a goal: its number, and who completed it.
GoalMoves(g) ==
    goals'[g].by \in Runs => \/ g \in Ids /\ goals'[g].by = goals[g].by
                             \/ OnWork(g)'

\* The tables only grow.
Grows ==
    /\ Len(goals) <= Len(goals')
    /\ proposed \subseteq proposed' /\ linked \subseteq linked' /\ done \subseteq done'

LEMMA MoveKeepsIInv ==
    ASSUME IInv, Typed', Grows,
           \A r \in Runs : RunMoves(r),
           \A o \in Operators :
             asking'[o] = asking[o] \/ Asks(asking'[o], Len(goals'), proposed'),
           OneOpen(goals'),
           \A g \in 1..Len(goals') : GoalMoves(g)
    PROVE  IInv'
<1>0. Len(goals) \in Nat /\ Len(goals') \in Nat /\ Ids' = 1..Len(goals') /\ Ids = 1..Len(goals)
  BY DEF IInv, Typed, Ids
<1>1. ASSUME NEW r \in Runs PROVE Knows(runs'[r], Len(goals'), linked', done')
  <2>1. CASE runs'[r] = runs[r]
    <3>1. Knows(runs[r], Len(goals), linked, done)
      BY DEF IInv
    <3> QED BY <1>0, <2>1, <3>1 DEF Knows, Grows
  <2> QED BY <2>1 DEF RunMoves
<1>2. ASSUME NEW o \in Operators PROVE Asks(asking'[o], Len(goals'), proposed')
  <2>1. CASE asking'[o] = asking[o]
    <3>1. Asks(asking[o], Len(goals), proposed)
      BY DEF IInv
    <3> QED BY <1>0, <2>1, <3>1 DEF Asks, Grows
  <2> QED BY <2>1
<1>3. ASSUME NEW g \in 1..Len(goals') PROVE OnWork(g)'
  <2> SUFFICES ASSUME goals'[g].by \in Runs, g \in Ids, goals'[g].by = goals[g].by
               PROVE  OnWork(g)'
    BY DEF GoalMoves, OnWork
  <2> DEFINE r == goals[g].by
  <2>1. /\ runs[r].at \notin Reads
        /\ {k \in runs[r].links : k[1] = g} # {}
        /\ {k \in runs[r].links : k[1] = g} \subseteq linked \cap done
    BY DEF IInv, OnWork
  <2>2. runs'[r].at \notin Reads /\ runs'[r].links = runs[r].links
    BY <2>1 DEF RunMoves
  <2> QED BY <2>1, <2>2 DEF OnWork, Grows
<1> QED BY <1>0, <1>1, <1>2, <1>3 DEF IInv

\* A step of a run that changes nothing but its own row.
LEMMA RunKeepsIInv ==
    ASSUME IInv, NEW r \in Runs, NEW next \in Run, runs' = [runs EXCEPT ![r] = next],
           Knows(next, Len(goals), linked, done),
           \/ runs[r].at \in Reads
           \/ next.at \notin Reads /\ next.links = runs[r].links,
           UNCHANGED <<goals, proposed, linked, done, asking>>
    PROVE  IInv'
<1>1. Typed' /\ Grows
  BY DEF IInv, Typed, Grows, Ids
<1>2. \A q \in Runs : runs'[q] = IF q = r THEN next ELSE runs[q]
  BY DEF IInv, Typed
<1>3. \A q \in Runs : RunMoves(q)
  BY <1>2 DEF RunMoves
<1>4. \A g \in 1..Len(goals') : GoalMoves(g)
  BY DEF GoalMoves, Ids
<1>5. OneOpen(goals') /\ \A o \in Operators : asking'[o] = asking[o]
  BY DEF IInv
<1> QED BY <1>1, <1>3, <1>4, <1>5, MoveKeepsIInv

\* A step of people, of operators or of the worker that finishes a task.
LEMMA AsideKeepsIInv ==
    ASSUME IInv, NEW ask \in [Operators -> Ask], asking' = ask,
           \A o \in Operators : ask[o] = asking[o] \/ Asks(ask[o], Len(goals), proposed'),
           proposed \subseteq proposed', linked \subseteq linked', done \subseteq done',
           proposed' \subseteq Ids \X Drafts, linked' \subseteq proposed', done' \subseteq proposed',
           UNCHANGED <<goals, runs>>
    PROVE  IInv'
<1>1. Typed' /\ Grows
  BY DEF IInv, Typed, Grows, Ids
<1>2. \A r \in Runs : RunMoves(r)
  BY DEF RunMoves
<1>3. \A g \in 1..Len(goals') : GoalMoves(g)
  BY DEF GoalMoves, Ids
<1>4. OneOpen(goals')
  BY DEF IInv
<1> QED BY <1>1, <1>2, <1>3, <1>4, MoveKeepsIInv

\* A goal changes its status, from an open one to one that is further.
LEMMA SetMoves ==
    ASSUME IInv, NEW g \in Ids, NEW from \in SUBSET Open, NEW to \in Status,
           NEW who \in Runs \cup {"nobody", "person"}, Set(g, from, to, who)
    PROVE  /\ goals' \in Seq(Goal) /\ Len(goals') = Len(goals)
           /\ OneOpen(goals')
           /\ \A h \in Ids : h # g => goals'[h] = goals[h]
           /\ goals'[g].by = who
<1>0. goals \in Seq(Goal) /\ g \in 1..Len(goals) /\ goals[g] \in Goal
  BY DEF IInv, Typed, Ids
<1> DEFINE goal == [goals[g] EXCEPT !.status = to, !.by = who]
<1>1. goal \in Goal /\ goal.sig = goals[g].sig /\ goal.by = who /\ goals' = [goals EXCEPT ![g] = goal]
  BY <1>0 DEF Set, Goal
<1> HIDE DEF goal
<1>2. /\ goals' \in Seq(Goal) /\ Len(goals') = Len(goals)
      /\ \A h \in 1..Len(goals) : goals'[h] = IF h = g THEN goal ELSE goals[h]
  BY <1>0, <1>1, ExceptSeq
<1>3. OneOpen(goals')
  BY <1>0, <1>1, <1>2 DEF OneOpen, IInv, Set
<1> QED BY <1>0, <1>1, <1>2, <1>3 DEF Ids

\* A person decides about a goal: it is no run's.
LEMMA DecideKeepsIInv == ManagerConstants /\ IInv /\ Decide => IInv'
<1> SUFFICES ASSUME ManagerConstants, IInv, Decide PROVE IInv'
  OBVIOUS
<1>1. PICK g \in Ids, from \in SUBSET Open, to \in Status : Set(g, from, to, "person")
  BY DEF Decide, Approve, Activate, Complete, Reject, MarkStale, Open, Status
<1>2. /\ goals' \in Seq(Goal) /\ Len(goals') = Len(goals)
      /\ OneOpen(goals')
      /\ \A h \in Ids : h # g => goals'[h] = goals[h]
      /\ goals'[g].by = "person"
  BY <1>1, SetMoves
<1>3. UNCHANGED <<proposed, linked, done, runs, asking>>
  BY DEF Decide
<1>4. Typed' /\ Grows
  BY <1>2, <1>3 DEF IInv, Typed, Grows, Ids
<1>5. \A r \in Runs : RunMoves(r)
  BY <1>3 DEF RunMoves
<1>6. \A h \in 1..Len(goals') : GoalMoves(h)
  BY <1>2 DEF GoalMoves, Ids, ManagerConstants
<1> QED BY <1>2, <1>3, <1>4, <1>5, <1>6, MoveKeepsIInv

\* A run adds the goals of its answer.
LEMMA CreateKeepsIInv ==
    ASSUME ManagerConstants, IInv, NEW r \in Runs, CreateGoals(r)
    PROVE  IInv'
<1>0. goals \in Seq(Goal) /\ runs[r] \in Run /\ runs[r].new \in Seq(Sigs) /\ OneOpen(goals)
  BY DEF IInv, Typed, Run
<1>1. Extends(goals', goals, r)
  BY <1>0, InsertedExtends DEF CreateGoals
<1>2. /\ goals' \in Seq(Goal) /\ Len(goals) \in Nat /\ Len(goals') \in Nat /\ Len(goals) <= Len(goals')
      /\ UNCHANGED <<proposed, linked, done, asking>>
  BY <1>0, <1>1 DEF Extends, CreateGoals
<1> DEFINE made == (Len(goals) + 1)..Len(goals')
           next == [runs[r] EXCEPT !.at = "judge", !.new = <<>>, !.made = made]
<1>3. /\ next \in Run /\ runs' = [runs EXCEPT ![r] = next] /\ next.at = "judge"
      /\ next.made = made /\ next.seen = runs[r].seen /\ next.judged = runs[r].judged
      /\ next.links = runs[r].links /\ next.finished = runs[r].finished
      /\ next.status = runs[r].status /\ runs[r].at = "create"
  <2>1. <<>> \in Seq(Sigs) /\ made \subseteq Nat
    BY <1>2
  <2> HIDE DEF made
  <2>2. next \in Run
    BY <1>0, <2>1 DEF Run
  <2>3. /\ next.at = "judge" /\ next.made = made /\ next.seen = runs[r].seen
        /\ next.judged = runs[r].judged /\ next.links = runs[r].links
        /\ next.finished = runs[r].finished /\ next.status = runs[r].status
    BY <1>0 DEF Run
  <2>4. runs' = [runs EXCEPT ![r] = next] /\ runs[r].at = "create"
    BY DEF CreateGoals, made
  <2> HIDE DEF next
  <2> QED BY <2>2, <2>3, <2>4
<1> HIDE DEF next
<1>4. \A q \in Runs : runs'[q] = IF q = r THEN next ELSE runs[q]
  BY <1>3 DEF IInv, Typed
<1>5. Typed' /\ Grows
  BY <1>2, <1>3 DEF IInv, Typed, Grows, Ids
<1>6. \A q \in Runs : RunMoves(q)
  <2>1. Knows(runs[r], Len(goals), linked, done)
    BY DEF IInv
  <2>2. Knows(next, Len(goals'), linked', done')
    BY <1>2, <1>3, <2>1 DEF Knows
  <2> QED BY <1>3, <1>4, <2>2 DEF RunMoves, Reads
<1>7. \A g \in 1..Len(goals') : GoalMoves(g)
  BY <1>0, <1>1, <1>2 DEF Extends, GoalMoves, Ids, ManagerConstants
<1> QED BY <1>1, <1>2, <1>5, <1>6, <1>7, MoveKeepsIInv DEF Extends

\* What is left of a run that is over is a run that knows as much.
LEMMA OverIsRun ==
    ASSUME IInv, NEW r \in Runs, NEW at \in {"failing", "end"}, NEW s \in {"started", "failed"},
           runs[r].at # "none",
           Over(r, at, s)
    PROVE  \E next \in Run :
             /\ runs' = [runs EXCEPT ![r] = next] /\ next.at \notin Reads
             /\ next.links = runs[r].links /\ Knows(next, Len(goals), linked, done)
<1> DEFINE next == [NoRun EXCEPT !.at = at, !.status = s, !.links = runs[r].links]
<1>1. NoRun \in Run
  <2>1. [g \in {} |-> "approved"] \in [{} -> Status]
    BY DEF Status
  <2>2. [g \in {} |-> "approved"] \in UNION {[S -> Status] : S \in SUBSET Nat}
    BY <2>1
  <2>3. <<>> \in Seq(Sigs)
    BY EmptySeq
  <2> QED BY <2>2, <2>3 DEF NoRun, Run
<1>2. runs[r] \in Run /\ runs[r].links \subseteq linked /\ runs[r].links \subseteq Nat \X Drafts
  BY DEF IInv, Typed, Knows, Run
<1>3. next \in Run
  BY <1>1, <1>2 DEF Run
<1>4. /\ next.at = at /\ next.status = s /\ next.links = runs[r].links
      /\ DOMAIN next.seen = {} /\ next.judged = {} /\ next.made = {} /\ next.finished = {}
  BY DEF NoRun
<1>5. runs' = [runs EXCEPT ![r] = next]
  BY DEF Over
<1> HIDE DEF next
<1>6. Knows(next, Len(goals), linked, done)
  BY <1>2, <1>4 DEF Knows
<1> QED BY <1>3, <1>4, <1>5, <1>6 DEF Reads

LEMMA OverKeepsIInv ==
    ASSUME IInv, NEW r \in Runs, NEW at \in {"failing", "end"}, NEW s \in {"started", "failed"},
           runs[r].at # "none",
           Over(r, at, s), UNCHANGED <<goals, proposed, linked, done, asking>>
    PROVE  IInv'
BY OverIsRun, RunKeepsIInv

\* A run judges a goal: what it completes has work, and all of it is done.
LEMMA JudgeKeepsIInv ==
    ASSUME ManagerConstants, IInv, NEW r \in Runs, Judge(r)
    PROVE  IInv'
<1>0. /\ runs[r] \in Run /\ runs[r].at = "judge" /\ runs[r].judged \subseteq DOMAIN runs[r].seen
      /\ runs[r].judged \subseteq Ids /\ runs[r].judged \subseteq Nat
      /\ UNCHANGED <<proposed, linked, done, asking>>
      /\ Knows(runs[r], Len(goals), linked, done)
  BY DEF Judge, IInv, Typed, Knows, Ids, Run
<1>1. PICK g \in runs[r].judged :
        \/ ~SafeToComplete(runs[r], g) /\ UNCHANGED goals /\ runs' = [runs EXCEPT ![r].judged = @ \ {g}]
        \/ /\ SafeToComplete(runs[r], g) /\ Set(g, {"active"}, "completed", r)
           /\ runs' = [runs EXCEPT ![r].judged = @ \ {g}]
        \/ UNCHANGED goals /\ Over(r, "failing", "started")
  BY DEF Judge
<1> DEFINE next == [runs[r] EXCEPT !.judged = runs[r].judged \ {g}]
<1>2. /\ next \in Run /\ next.at = "judge" /\ next.judged = runs[r].judged \ {g}
      /\ next.links = runs[r].links /\ next.seen = runs[r].seen /\ next.made = runs[r].made
      /\ next.finished = runs[r].finished /\ next.status = runs[r].status
  BY <1>0 DEF Run
<1>3. runs' = [runs EXCEPT ![r].judged = @ \ {g}] => runs' = [runs EXCEPT ![r] = next]
  OBVIOUS
<1> HIDE DEF next
<1>4. Knows(next, Len(goals), linked, done)
  BY <1>0, <1>2 DEF Knows
<1>5. CASE UNCHANGED goals /\ runs' = [runs EXCEPT ![r].judged = @ \ {g}]
  <2>1. next.at \notin Reads
    BY <1>2 DEF Reads
  <2> QED BY <1>0, <1>2, <1>3, <1>4, <1>5, <2>1, RunKeepsIInv
<1>6. CASE UNCHANGED goals /\ Over(r, "failing", "started")
  BY <1>0, <1>6, OverKeepsIInv
<1>7. CASE /\ SafeToComplete(runs[r], g) /\ Set(g, {"active"}, "completed", r)
           /\ runs' = [runs EXCEPT ![r].judged = @ \ {g}]
  <2>0. g \in Ids /\ {"active"} \in SUBSET Open /\ "completed" \in Status
    BY <1>0 DEF Open, Status
  <2>1. /\ goals' \in Seq(Goal) /\ Len(goals') = Len(goals)
        /\ OneOpen(goals')
        /\ \A h \in Ids : h # g => goals'[h] = goals[h]
        /\ goals'[g].by = r
    BY <1>7, <2>0, SetMoves
  <2>2. \A q \in Runs : runs'[q] = IF q = r THEN next ELSE runs[q]
    BY <1>3, <1>7 DEF IInv, Typed
  <2>3. Typed' /\ Grows
    <3>1. runs' = [runs EXCEPT ![r] = next] /\ next \in Run
      BY <1>2, <1>3, <1>7
    <3>2. runs' \in [Runs -> Run]
      BY <3>1 DEF IInv, Typed
    <3>3. goals' \in Seq(Goal) /\ Ids' = Ids /\ Len(goals) \in Nat
      BY <2>1 DEF IInv, Typed, Ids
    <3> QED BY <1>0, <2>1, <3>2, <3>3 DEF IInv, Typed, Grows
  <2>4. \A q \in Runs : RunMoves(q)
    BY <1>0, <1>2, <1>4, <2>1, <2>2 DEF RunMoves, Reads
  <2>5. OnWork(g)'
    <3>1. /\ {k \in next.links : k[1] = g} # {}
          /\ {k \in next.links : k[1] = g} \subseteq linked \cap done
      BY <1>0, <1>2, <1>7 DEF SafeToComplete, Knows
    <3>2. goals'[g].by = r /\ runs'[r] = next /\ next.at \notin Reads
      BY <1>2, <2>1, <2>2 DEF Reads
    <3> QED BY <1>0, <3>1, <3>2 DEF OnWork
  <2>6. \A h \in 1..Len(goals') : GoalMoves(h)
    BY <2>1, <2>5 DEF GoalMoves, Ids
  <2> QED BY <1>0, <2>1, <2>3, <2>4, <2>6, MoveKeepsIInv
<1> QED BY <1>1, <1>5, <1>6, <1>7

\* The other steps of a run change its own row only.
LEMMA ReadKeepsIInv ==
    ASSUME ManagerConstants, IInv, NEW r \in Runs,
           StartRun(r) \/ ListGoals(r) \/ ReadLinks(r) \/ ReadTasks(r) \/ Think(r)
    PROVE  IInv'
<1>0. /\ runs[r] \in Run /\ Knows(runs[r], Len(goals), linked, done)
      /\ linked \subseteq Nat \X Drafts /\ done \subseteq Nat \X Drafts
      /\ Ids \subseteq Nat /\ Ids = 1..Len(goals) /\ goals \in Seq(Goal)
      /\ UNCHANGED <<goals, proposed, linked, done, asking>>
  <2>1. runs[r] \in Run /\ Knows(runs[r], Len(goals), linked, done) /\ goals \in Seq(Goal)
    BY DEF IInv, Typed
  <2>2. Ids \subseteq Nat /\ Ids = 1..Len(goals)
    BY <2>1 DEF Ids
  <2>3. linked \subseteq Nat \X Drafts /\ done \subseteq Nat \X Drafts
    BY <2>2 DEF IInv, Typed
  <2>4. UNCHANGED <<goals, proposed, linked, done, asking>>
    BY DEF StartRun, ListGoals, ReadLinks, ReadTasks, Think
  <2> QED BY <2>1, <2>2, <2>3, <2>4
<1>1. ASSUME NEW next \in Run, runs' = [runs EXCEPT ![r] = next], runs[r].at \in Reads,
             Knows(next, Len(goals), linked, done)
      PROVE  IInv'
  BY <1>0, <1>1, RunKeepsIInv
<1>2. CASE StartRun(r)
  <2>1. PICK at \in {"list", "think"} : runs' = [runs EXCEPT ![r].status = "started", ![r].at = at]
    BY <1>2 DEF StartRun
  <2> DEFINE next == [runs[r] EXCEPT !.status = "started", !.at = at]
  <2>2. /\ next \in Run /\ next.status = "started" /\ next.at = at
        /\ next.seen = runs[r].seen /\ next.judged = runs[r].judged /\ next.made = runs[r].made
        /\ next.links = runs[r].links /\ next.finished = runs[r].finished
    BY <1>0 DEF Run
  <2>3. runs' = [runs EXCEPT ![r] = next]
    BY <2>1
  <2> HIDE DEF next
  <2>4. Knows(next, Len(goals), linked, done) /\ runs[r].at \in Reads
    BY <1>0, <1>2, <2>2 DEF Knows, StartRun, Reads
  <2> QED BY <1>1, <2>2, <2>3, <2>4
<1>3. CASE ListGoals(r)
  <2> DEFINE ids == {g \in Ids : goals[g].status \in {"approved", "active"}}
             seen == [g \in ids |-> goals[g].status]
             next == [runs[r] EXCEPT !.at = "links", !.unread = ids, !.seen = seen]
  <2>1. /\ runs' = [runs EXCEPT ![r] = next] /\ runs[r].at = "list"
        /\ runs[r].judged \subseteq DOMAIN runs[r].seen
    BY <1>0, <1>3 DEF ListGoals, Knows
  <2>2. seen \in [ids -> Status] /\ ids \in SUBSET Nat /\ DOMAIN seen = ids /\ ids \subseteq Ids
    BY <1>0 DEF Status, Open
  <2>3. seen \in UNION {[S -> Status] : S \in SUBSET Nat}
    BY <2>2
  <2> HIDE DEF seen, ids
  <2>4. /\ next \in Run /\ next.status = runs[r].status /\ next.at = "links"
        /\ next.seen = seen /\ next.judged = runs[r].judged /\ next.made = runs[r].made
        /\ next.links = runs[r].links /\ next.finished = runs[r].finished
    BY <1>0, <2>2, <2>3 DEF Run
  <2> HIDE DEF next
  <2>5. Knows(next, Len(goals), linked, done) /\ runs[r].at \in Reads
    BY <1>0, <2>1, <2>2, <2>4 DEF Knows, Reads
  <2> QED BY <1>1, <2>1, <2>4, <2>5
<1>4. CASE ReadLinks(r)
  <2> DEFINE g == CHOOSE x \in runs[r].unread : \A y \in runs[r].unread : x <= y
             next == [runs[r] EXCEPT !.unread = runs[r].unread \ {g}, !.links = runs[r].links \cup Work(g)]
  <2>1. runs' = [runs EXCEPT ![r] = next] /\ runs[r].at = "links"
    BY <1>4 DEF ReadLinks
  <2>2. Work(g) \subseteq linked
    BY DEF Work
  <2> DEFINE work == Work(g)
  <2> HIDE DEF g
  <2>3. /\ next \in Run /\ next.status = runs[r].status /\ next.at = "links"
        /\ next.seen = runs[r].seen /\ next.judged = runs[r].judged /\ next.made = runs[r].made
        /\ next.links = runs[r].links \cup Work(g) /\ next.finished = runs[r].finished
    BY <1>0, <2>1, <2>2 DEF Run
  <2> HIDE DEF next
  <2>4. Knows(next, Len(goals), linked, done) /\ runs[r].at \in Reads
    BY <1>0, <2>1, <2>2, <2>3 DEF Knows, Reads
  <2> QED BY <1>1, <2>1, <2>3, <2>4
<1>5. CASE ReadTasks(r)
  <2> DEFINE next == [runs[r] EXCEPT !.at = "think",
                                     !.finished = runs[r].finished \cup (runs[r].links \cap done)]
  <2>1. runs' = [runs EXCEPT ![r] = next] /\ runs[r].at = "links"
    BY <1>5 DEF ReadTasks
  <2>2. /\ next \in Run /\ next.status = runs[r].status /\ next.at = "think"
        /\ next.seen = runs[r].seen /\ next.judged = runs[r].judged /\ next.made = runs[r].made
        /\ next.links = runs[r].links
        /\ next.finished = runs[r].finished \cup (runs[r].links \cap done)
    BY <1>0 DEF Run
  <2> HIDE DEF next
  <2>3. Knows(next, Len(goals), linked, done) /\ runs[r].at \in Reads
    BY <1>0, <2>1, <2>2 DEF Knows, Reads
  <2> QED BY <1>1, <2>1, <2>2, <2>3
<1>6. CASE Think(r)
  <2>1. PICK new \in Answers, judged \in SUBSET DOMAIN runs[r].seen :
          runs' = [runs EXCEPT ![r].at = "create", ![r].new = new, ![r].judged = judged]
    BY <1>6 DEF Think
  <2> DEFINE next == [runs[r] EXCEPT !.at = "create", !.new = new, !.judged = judged]
  <2>2. judged \subseteq Nat /\ new \in Seq(Sigs)
    BY <1>0, <2>1 DEF Knows, ManagerConstants
  <2>3. /\ next \in Run /\ next.status = runs[r].status /\ next.at = "create"
        /\ next.seen = runs[r].seen /\ next.judged = judged /\ next.made = runs[r].made
        /\ next.links = runs[r].links /\ next.finished = runs[r].finished
    BY <1>0, <2>2 DEF Run
  <2>4. runs' = [runs EXCEPT ![r] = next] /\ runs[r].at = "think"
    BY <1>6, <2>1 DEF Think
  <2> HIDE DEF next
  <2>5. Knows(next, Len(goals), linked, done) /\ runs[r].at \in Reads
    BY <1>0, <2>1, <2>3, <2>4 DEF Knows, Reads
  <2> QED BY <1>1, <2>3, <2>4, <2>5
<1> QED BY <1>2, <1>3, <1>4, <1>5, <1>6

\* A run ends with its record.
LEMMA CompleteRunKeepsIInv ==
    ASSUME IInv, NEW r \in Runs, CompleteRun(r)
    PROVE  IInv'
<1>0. /\ runs[r] \in Run /\ runs[r].at = "judge" /\ runs[r].made \subseteq Nat
      /\ Knows(runs[r], Len(goals), linked, done)
      /\ UNCHANGED <<goals, proposed, linked, done, asking>>
  BY DEF IInv, Typed, Run, CompleteRun
<1> DEFINE next == [NoRun EXCEPT !.at = "end", !.status = "completed",
                                 !.links = runs[r].links, !.record = Recorded(runs[r])]
<1>1. NoRun \in Run
  <2>1. [g \in {} |-> "approved"] \in [{} -> Status]
    BY DEF Status
  <2>2. [g \in {} |-> "approved"] \in UNION {[S -> Status] : S \in SUBSET Nat}
    BY <2>1
  <2>3. <<>> \in Seq(Sigs)
    BY EmptySeq
  <2> QED BY <2>2, <2>3 DEF NoRun, Run
<1>2. next \in Run
  BY <1>0, <1>1 DEF Run, Recorded
<1>3. /\ next.at = "end" /\ next.status = "completed" /\ next.links = runs[r].links
      /\ DOMAIN next.seen = {} /\ next.judged = {} /\ next.made = {} /\ next.finished = {}
  BY DEF NoRun
<1>4. runs' = [runs EXCEPT ![r] = next]
  BY DEF CompleteRun
<1> HIDE DEF next
<1>5. Knows(next, Len(goals), linked, done) /\ next.at \notin Reads
  BY <1>0, <1>3 DEF Knows, Reads
<1> QED BY <1>0, <1>2, <1>3, <1>4, <1>5, RunKeepsIInv

\* An operator asks, proposes, links, is interrupted: what is linked was
\* proposed before.
LEMMA OperatorKeepsIInv ==
    ASSUME ManagerConstants, IInv, NEW o \in Operators,
           AskForTasks(o) \/ Propose(o) \/ Link(o) \/ Interrupt(o)
    PROVE  IInv'
<1>0. /\ asking[o] \in Ask /\ Asks(asking[o], Len(goals), proposed)
      /\ asking \in [Operators -> Ask] /\ UNCHANGED <<goals, runs, done>>
      /\ Ids \subseteq Nat /\ Ids = 1..Len(goals)
      /\ proposed \subseteq Ids \X Drafts /\ linked \subseteq proposed /\ done \subseteq proposed
  BY DEF IInv, Typed, Ids, AskForTasks, Propose, Link, Interrupt
<1>1. ASSUME NEW ask \in Ask, asking' = [asking EXCEPT ![o] = ask],
             Asks(ask, Len(goals), proposed'),
             proposed \subseteq proposed', linked \subseteq linked',
             proposed' \subseteq Ids \X Drafts, linked' \subseteq proposed'
      PROVE  IInv'
  <2>1. /\ asking' \in [Operators -> Ask]
        /\ \A p \in Operators : asking'[p] = asking[p] \/ Asks(asking'[p], Len(goals), proposed')
    BY <1>0, <1>1
  <2>2. done \subseteq done' /\ done' \subseteq proposed'
    BY <1>0, <1>1
  <2> QED BY <1>0, <1>1, <2>1, <2>2, AsideKeepsIInv
<1>2. asking[o].todo # {} => Draft(o) \in asking[o].todo /\ Draft(o) \in Drafts
  <2>1. asking[o].todo \subseteq Nat /\ asking[o].todo \subseteq Drafts
    BY <1>0 DEF Ask, ManagerConstants
  <2>2. asking[o].todo # {} => \E d \in asking[o].todo : \A e \in asking[o].todo : d <= e
    BY <2>1, LeastNumber
  <2> QED BY <2>1, <2>2 DEF Draft
<1>3. CASE AskForTasks(o)
  <2>1. PICK g \in Ids : asking' = [asking EXCEPT ![o] = [goal |-> g, todo |-> Drafts, made |-> FALSE]]
    BY <1>3 DEF AskForTasks
  <2> DEFINE ask == [goal |-> g, todo |-> Drafts, made |-> FALSE]
  <2>2. ask \in Ask /\ ask.goal = g /\ ask.made = FALSE
    BY <1>0 DEF Ask
  <2> HIDE DEF ask
  <2>3. Asks(ask, Len(goals), proposed)
    BY <1>0, <2>2 DEF Asks
  <2>4. asking' = [asking EXCEPT ![o] = ask] /\ UNCHANGED <<proposed, linked>>
    BY <1>3, <2>1 DEF ask, AskForTasks
  <2> QED BY <1>0, <1>1, <2>2, <2>3, <2>4
<1>4. CASE Propose(o)
  <2> DEFINE ask == [asking[o] EXCEPT !.made = TRUE]
             task == <<asking[o].goal, Draft(o)>>
  <2>1. /\ ask \in Ask /\ ask.goal = asking[o].goal /\ ask.todo = asking[o].todo
        /\ asking' = [asking EXCEPT ![o] = ask]
    BY <1>0, <1>4 DEF Ask, Propose
  <2>2. proposed' = proposed \cup {task} /\ linked' = linked /\ asking[o].todo # {}
    BY <1>4 DEF Propose
  <2>3. task \in Ids \X Drafts
    BY <1>0, <1>2, <2>2 DEF Asks
  <2> HIDE DEF ask
  <2>4. Asks(ask, Len(goals), proposed')
    BY <1>0, <2>1, <2>2 DEF Asks, Draft
  <2> QED BY <1>0, <1>1, <2>1, <2>2, <2>3, <2>4
<1>5. CASE Link(o)
  <2> DEFINE ask == [asking[o] EXCEPT !.todo = asking[o].todo \ {Draft(o)}, !.made = FALSE]
             task == <<asking[o].goal, Draft(o)>>
  <2>1. /\ ask \in Ask /\ ask.goal = asking[o].goal /\ ask.todo \subseteq asking[o].todo
        /\ ask.made = FALSE /\ asking' = [asking EXCEPT ![o] = ask]
    BY <1>0, <1>5 DEF Ask, Link
  <2>2. linked' = linked \cup {task} /\ proposed' = proposed /\ asking[o].made
    BY <1>5 DEF Link
  <2>3. task \in proposed
    BY <1>0, <2>2 DEF Asks, Draft
  <2> HIDE DEF ask
  <2>4. Asks(ask, Len(goals), proposed')
    BY <1>0, <2>1 DEF Asks
  <2> QED BY <1>0, <1>1, <2>1, <2>2, <2>3, <2>4
<1>6. CASE Interrupt(o)
  <2> DEFINE ask == [asking[o] EXCEPT !.todo = {}, !.made = FALSE]
  <2>1. /\ ask \in Ask /\ ask.todo = {} /\ ask.made = FALSE
        /\ asking' = [asking EXCEPT ![o] = ask]
        /\ UNCHANGED <<proposed, linked>>
    BY <1>0, <1>6 DEF Ask, Interrupt
  <2> HIDE DEF ask
  <2>2. Asks(ask, Len(goals), proposed')
    BY <2>1 DEF Asks
  <2> QED BY <1>0, <1>1, <2>1, <2>2
<1> QED BY <1>3, <1>4, <1>5, <1>6

LEMMA NextKeepsIInv == ManagerConstants /\ IInv /\ [Next]_vars => IInv'
<1> SUFFICES ASSUME ManagerConstants, IInv, [Next]_vars PROVE IInv'
  OBVIOUS
<1>0. asking \in [Operators -> Ask] /\ proposed \subseteq Ids \X Drafts
      /\ linked \subseteq proposed /\ done \subseteq proposed
  BY DEF IInv, Typed
<1>1. ASSUME NEW r \in Runs, FailRun(r) \/ Fault(r) PROVE IInv'
  BY <1>1, OverKeepsIInv DEF FailRun, Fault
<1>2. CASE Finish
  BY <1>0, <1>2, AsideKeepsIInv DEF Finish
<1>3. CASE UNCHANGED vars
  BY <1>0, <1>3, AsideKeepsIInv DEF vars
<1>4. ASSUME NEW r \in Runs,
             StartRun(r) \/ ListGoals(r) \/ ReadLinks(r) \/ ReadTasks(r) \/ Think(r)
      PROVE  IInv'
  BY <1>4, ReadKeepsIInv
<1>5. ASSUME NEW r \in Runs, CreateGoals(r) \/ Judge(r) \/ CompleteRun(r) PROVE IInv'
  BY <1>5, CreateKeepsIInv, JudgeKeepsIInv, CompleteRunKeepsIInv
<1>6. ASSUME NEW o \in Operators, AskForTasks(o) \/ Propose(o) \/ Link(o) \/ Interrupt(o)
      PROVE  IInv'
  BY <1>6, OperatorKeepsIInv
<1> QED BY <1>1, <1>2, <1>3, <1>4, <1>5, <1>6, DecideKeepsIInv DEF Next

-----------------------------------------------------------------------------
\* The inductive invariant holds in every reachable state.
THEOREM ManagerInvariant == ASSUME ManagerConstants PROVE Spec => []IInv
BY InitIInv, NextKeepsIInv, PTL DEF Spec

\* Type correctness of the tables of the project manager: no link, run or
\* finished task names a goal that is not there.
THEOREM TypeCorrect == ASSUME ManagerConstants PROVE Spec => []TypeOK
<1>1. IInv => TypeOK
  <2> SUFFICES ASSUME IInv PROVE TypeOK
    OBVIOUS
  <2>1. \A g \in Ids : goals[g] \in Goal
    BY DEF IInv, Typed, Ids
  <2>2. \A r \in Runs : runs[r].made \subseteq Ids /\ DOMAIN runs[r].seen \subseteq Ids
    BY DEF IInv, Knows, Ids
  <2>3. linked \subseteq proposed /\ done \subseteq proposed /\ proposed \subseteq Ids \X Drafts
    BY DEF IInv, Typed
  <2> QED BY <2>1, <2>2, <2>3 DEF TypeOK, Goal, Status
<1> QED BY <1>1, ManagerInvariant, PTL

\* Of the goals of one signature at most one is open, however many runs insert
\* answers of whatever length while people decide about goals.
THEOREM OneGoalOpen == ASSUME ManagerConstants PROVE Spec => []OneOpenGoal
<1>1. IInv => OneOpenGoal
  BY DEF IInv, OneOpen, OneOpenGoal, Ids
<1> QED BY <1>1, ManagerInvariant, PTL

\* A goal that a run completed has work, and all the work the run knew of is
\* done, although the run decided on what it had read before.
THEOREM CompletedGoalsAreDone == ASSUME ManagerConstants PROVE Spec => []CompletedOnWork
<1>1. IInv => CompletedOnWork
  <2> SUFFICES ASSUME IInv, NEW g \in Ids, goals[g].by \in Runs
               PROVE  LET known == {k \in runs[goals[g].by].links : k[1] = g} IN
                      known # {} /\ known \subseteq Work(g) \cap done
    BY DEF CompletedOnWork
  <2>1. OnWork(g)
    BY DEF IInv
  <2> QED BY <2>1 DEF OnWork, Work
<1> QED BY <1>1, ManagerInvariant, PTL
=============================================================================
