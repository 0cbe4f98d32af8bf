----------------------------- MODULE GoalStores -----------------------------
(***************************************************************************)
(* The two stores of the project manager's goals: the one in memory        *)
(* (domain/projectManager/store.ts), whose calls run without a pause, and  *)
(* the one in PostgreSQL (postgresProjectManagerStore.ts), whose calls are *)
(* transactions of several statements that lock rows and wait for one      *)
(* another.  Callers use the second; each call that goes through is then   *)
(* made of the first, at the moment it commits, so that what the two hold  *)
(* can be compared.  ProjectManager models who calls them and why.         *)
(*                                                                         *)
(* A goal stands for its duplicate signature, its status and who has       *)
(* decided what about it.                                                  *)
(*                                                                         *)
(* A definition whose name has a suffix after an underscore is a seeded    *)
(* fault of the definition below it; no specification uses it.             *)
(***************************************************************************)
EXTENDS Naturals, Sequences, FiniteSets, SequencesExt, FiniteSetsExt

CONSTANTS
    Callers,
    Signatures, \* of goals
    Tasks,      \* that exist
    MaxGoals,   \* bound: goals that are spoken of
    MaxCalls,   \* bound: calls
    MaxFaults   \* bound: statements that fail

VARIABLES
    sql, mem,   \* [goals, events, links], what is committed
    call,       \* of each caller: [at, op, left, writes, lock]
    answer,     \* of the last call that ended: what each store says
    calls, faults

vars == <<sql, mem, call, answer, calls, faults>>

None  == [kind |-> "none", on |-> 0, todo |-> <<>>, task |-> 0]
Free  == [at |-> "free", op |-> None, left |-> <<>>, writes |-> <<>>, lock |-> 0]
Empty == [goals |-> <<>>, events |-> <<>>, links |-> <<>>]

Open   == {"proposed", "approved", "active"}
Closed == {"completed", "rejected", "stale"}
Goal(signature) == [signature |-> signature, status |-> "proposed", by |-> <<>>]
Event(goal, kind) == [goal |-> goal, kind |-> kind]

\* What each command asks of a goal, and makes of it.
From(kind) == CASE kind = "approved"  -> {"proposed"}
                [] kind = "active"    -> {"approved"}
                [] kind = "completed" -> {"active"}
                [] kind = "rejected"  -> {"proposed"}
                [] kind = "stale"     -> Open
                [] OTHER -> Open \cup Closed

Decisions == {"approved", "active", "completed", "rejected", "stale"}
Ops ==
    [kind : {"create"}, on : {0}, todo : {<<s>> : s \in Signatures} \cup (Signatures \X Signatures), task : {0}]
    \cup [kind : Decisions \cup {"classified"}, on : 1..MaxGoals, todo : {<<>>}, task : {0}]
    \cup [kind : {"link"}, on : 1..MaxGoals, todo : {<<>>}, task : Tasks]

-----------------------------------------------------------------------------
(* Calls of the store in memory *)

Says(db, ok) == [db |-> db, says |-> ok]

MemDuplicate_Any(db, s) == \E i \in DOMAIN db.goals : db.goals[i].signature = s
MemDuplicate(db, s) == \E i \in DOMAIN db.goals : db.goals[i].signature = s /\ db.goals[i].status \in Open

AddGoal(db, s) == [db EXCEPT !.goals = Append(@, Goal(s)), !.events = Append(@, Event(Len(db.goals) + 1, "created"))]
MemCreate(db, todo) ==
    Says(FoldLeft(LAMBDA d, s : IF MemDuplicate(d, s) THEN d ELSE AddGoal(d, s), db, todo), "ok")

Moved(goal, c, kind) == [goal EXCEPT !.status = kind, !.by = Append(@, <<c, kind>>)]
MemDecide(db, c, op) ==
    IF op.on \notin DOMAIN db.goals \/ db.goals[op.on].status \notin From(op.kind) THEN Says(db, "no")
    ELSE Says([db EXCEPT !.goals[op.on] = Moved(@, c, op.kind), !.events = Append(@, Event(op.on, op.kind))], "ok")

MemClassify(db, op) ==
    IF op.on \notin DOMAIN db.goals THEN Says(db, "no")
    ELSE Says([db EXCEPT !.events = Append(@, Event(op.on, "classified"))], "ok")

MemLink(db, op) ==
    IF op.on \notin DOMAIN db.goals THEN Says(db, "no")
    ELSE Says([db EXCEPT !.links = IF Contains(@, <<op.on, op.task>>) THEN @ ELSE Append(@, <<op.on, op.task>>)], "ok")

MemCall(db, c, op) ==
    CASE op.kind = "create"     -> MemCreate(db, op.todo)
      [] op.kind = "classified" -> MemClassify(db, op)
      [] op.kind = "link"       -> MemLink(db, op)
      [] OTHER                  -> MemDecide(db, c, op)

-----------------------------------------------------------------------------
(* Transactions *)

Begin(c, op) ==
    /\ call[c].at = "free" /\ calls < MaxCalls /\ calls' = calls + 1
    /\ call' = [call EXCEPT ![c] = [Free EXCEPT !.op = op, !.left = op.todo,
          !.at = IF op.kind = "create" THEN "insert" ELSE "require"]]
    /\ UNCHANGED <<sql, mem, answer, faults>>

Ends(c, says, db) ==
    LET m == IF says = "error" THEN Says(mem, says) ELSE MemCall(mem, c, call[c].op)
    IN  /\ sql' = db /\ mem' = m.db
        /\ answer' = [sql |-> says, mem |-> m.says]
        /\ call' = [call EXCEPT ![c] = Free]

\* FOR UPDATE waits for the transaction that has the row.
Owner(goal) == {d \in Callers : call[d].lock = goal /\ call[d].at # "free"}
Waits_Never(c) == {}
Waits(c) == IF call[c].op.kind = "classified" THEN {} ELSE Owner(call[c].op.on) \ {c}

\* requireGoal, and the status it must have.
Require(c) ==
    /\ call[c].at = "require" /\ Waits(c) = {}
    /\ LET op == call[c].op
           in == op.on \in DOMAIN sql.goals
       IN  IF in /\ sql.goals[op.on].status \in From(op.kind)
             THEN /\ call' = [call EXCEPT ![c].at = "write", ![c].lock = IF op.kind = "classified" THEN 0 ELSE op.on]
                  /\ UNCHANGED <<sql, mem, answer>>
             ELSE Ends(c, "no", sql)
    /\ UNCHANGED <<calls, faults>>

\* updateGoalLifecycle, rejectGoal, markGoalStale: the row, then the event.
Writes(c, w) == call' = [call EXCEPT ![c].writes = @ \o w, ![c].at = "commit"]
Decision(c) == LET op == call[c].op IN <<[do |-> "move", on |-> op.on, kind |-> op.kind], [do |-> "event", on |-> op.on, kind |-> op.kind]>>
Write(c) ==
    /\ call[c].at = "write"
    /\ LET op == call[c].op
       IN  Writes(c, CASE op.kind = "link"       -> <<[do |-> "link", on |-> op.on, kind |-> op.task]>>
                       [] op.kind = "classified" -> <<[do |-> "event", on |-> op.on, kind |-> op.kind]>>
                       [] OTHER                  -> Decision(c))
    /\ UNCHANGED <<sql, mem, answer, calls, faults>>

\* INSERT ... ON CONFLICT DO NOTHING: an open goal of the signature makes it do
\* nothing; it waits for a transaction that inserts one, or is about to close one.
Inserts(d, s) == \E i \in DOMAIN call[d].writes : call[d].writes[i].do = "goal" /\ call[d].writes[i].kind = s
Closes(d, s) ==
    \E i \in DOMAIN call[d].writes :
        LET w == call[d].writes[i]
        IN  w.do = "move" /\ sql.goals[w.on].signature = s
InWay(c, s) == {d \in Callers \ {c} : Inserts(d, s) \/ Closes(d, s)}
Taken(s) == \E i \in DOMAIN sql.goals : sql.goals[i].signature = s /\ sql.goals[i].status \in Open
Skips_Taken(c, s) == Taken(s)
Skips(c, s) == Taken(s) \/ Inserts(c, s)
Blocked_Never(c) == {}
Blocked(c) == InWay(c, Head(call[c].left))
Insert(c) ==
    /\ call[c].at = "insert" /\ call[c].left # <<>> /\ Blocked(c) = {}
    /\ LET s == Head(call[c].left)
       IN  call' = [call EXCEPT ![c] = [@ EXCEPT !.left = Tail(@),
               !.writes = IF Skips(c, s) THEN @ ELSE Append(@, [do |-> "goal", on |-> 0, kind |-> s])]]
    /\ UNCHANGED <<sql, mem, answer, calls, faults>>

Inserted(c) ==
    /\ call[c].at = "insert" /\ call[c].left = <<>>
    /\ call' = [call EXCEPT ![c].at = "commit"]
    /\ UNCHANGED <<sql, mem, answer, calls, faults>>

\* ON CONFLICT (goal_id, task_id, link_type) DO NOTHING.
AddLink_Again(db, link) == [db EXCEPT !.links = Append(@, link)]
AddLink(db, link) == IF Contains(db.links, link) THEN db ELSE [db EXCEPT !.links = Append(@, link)]

AddEvent_Not(db, w) == db
AddEvent(db, w) == [db EXCEPT !.events = Append(@, Event(w.on, w.kind))]

Apply(db, c, w) ==
    CASE w.do = "goal"  -> AddGoal(db, w.kind)
      [] w.do = "move"  -> [db EXCEPT !.goals[w.on] = Moved(@, c, w.kind)]
      [] w.do = "event" -> AddEvent(db, w)
      [] w.do = "link"  -> AddLink(db, <<w.on, w.kind>>)

Commit(c) ==
    /\ call[c].at = "commit"
    /\ Ends(c, "ok", FoldLeft(LAMBDA d, w : Apply(d, c, w), sql, call[c].writes))
    /\ UNCHANGED <<calls, faults>>

\* Two transactions that wait for each other: the server ends one of them.
Deadlock(c) ==
    /\ call[c].at = "insert" /\ call[c].left # <<>>
    /\ \E d \in Blocked(c) : call[d].at = "insert" /\ call[d].left # <<>> /\ c \in Blocked(d)
    /\ Ends(c, "error", sql)
    /\ UNCHANGED <<calls, faults>>

\* ROLLBACK.
Undone_Kept(c) == FoldLeft(LAMBDA d, w : Apply(d, c, w), sql, call[c].writes)
Undone(c) == sql
Fail(c) ==
    /\ call[c].at # "free" /\ faults < MaxFaults /\ faults' = faults + 1
    /\ Ends(c, "error", Undone(c))
    /\ UNCHANGED calls

Init ==
    /\ sql = Empty /\ mem = Empty /\ call = [c \in Callers |-> Free]
    /\ answer = [sql |-> "ok", mem |-> "ok"] /\ calls = 0 /\ faults = 0

Next ==
    \E c \in Callers :
        \/ \E op \in Ops : Begin(c, op)
        \/ Require(c) \/ Write(c) \/ Insert(c) \/ Inserted(c) \/ Commit(c) \/ Deadlock(c) \/ Fail(c)

Spec == Init /\ [][Next]_vars

-----------------------------------------------------------------------------
(* Properties *)

\* The state is of the right shape.
TypeOK ==
    /\ \A i \in DOMAIN sql.goals : sql.goals[i].signature \in Signatures /\ sql.goals[i].status \in Open \cup Closed
    /\ \A c \in Callers : call[c].op \in Ops \cup {None} /\ call[c].lock \in 0..MaxGoals
    /\ calls \in 0..MaxCalls /\ faults \in 0..MaxFaults

\* A caller that is alone cannot tell the stores apart.
StoresAgree == Cardinality(Callers) = 1 => sql = mem /\ answer.sql = answer.mem

\* 0007_project_manager_goals.sql:88: of one signature at most one goal is open, whoever
\* proposes it at the same time, closes one, or fails half-way.
OneOpen ==
    \A s \in Signatures : Cardinality({i \in DOMAIN sql.goals : sql.goals[i].signature = s /\ sql.goals[i].status \in Open}) <= 1

\* The events of a goal tell how it came to its status, step by step: of two that decide
\* at the same time one is refused.
Kinds(events) == [k \in DOMAIN events |-> events[k].kind]
Told(i) == Kinds(SelectSeq(sql.events, LAMBDA e : e.goal = i /\ e.kind # "classified"))
Made(i) == LET by == sql.goals[i].by IN <<"created">> \o [k \in DOMAIN by |-> by[k][2]]
Status(k, path) == IF k = 1 THEN "proposed" ELSE path[k]
HistoryHolds ==
    \A i \in DOMAIN sql.goals :
        LET path == Made(i)
        IN  /\ Told(i) = path
            /\ Status(Len(path), path) = sql.goals[i].status
            /\ \A k \in 2..Len(path) : Status(k - 1, path) \in From(path[k])

\* A goal and a task are linked once.
LinkedOnce == IsInjective(sql.links) /\ \A i \in DOMAIN sql.links : sql.links[i][1] \in DOMAIN sql.goals

\* What the two stores of the project manager owe those who call them.
GoalsAreSound == StoresAgree /\ OneOpen /\ HistoryHolds /\ LinkedOnce

=============================================================================
