---------------------------- MODULE TaskRecords -----------------------------
(***************************************************************************)
(* The records of a task in PostgreSQL                                     *)
(* (src/integrations/internalTracker/postgresTaskTracker.ts): its row, its *)
(* revisions, external references, comments, steps and events, as the      *)
(* human API, the bridge, the assistant and the workers write them at the  *)
(* same time.  Leases and proposals are in TaskQueue and Proposals.        *)
(*                                                                         *)
(* A transaction reads in one statement or several, each of which sees     *)
(* what is committed by then (READ COMMITTED), and takes effect when it    *)
(* commits: a call is a sequence of reads, and one commit or more.         *)
(*                                                                         *)
(* A definition whose name has a suffix after an underscore is a seeded    *)
(* fault of the definition below it; no specification uses it.             *)
(***************************************************************************)
EXTENDS TaskStatus, Naturals, Sequences, FiniteSets

CONSTANTS
    MaxTasks,    \* tasks there is room for; their ids are 1, 2, ...
    Callers,     \* connections of the pool that are in use
    Requests,    \* what may be asked of the store
    MaxCalls     \* bound: calls made

VARIABLES
    row,         \* tasks
    revisions,   \* task_revisions
    refs,        \* task_external_refs
    comments,    \* questions and answers of task_comments
    steps,       \* task_steps of the implicit plan
    log,         \* task_events
    call,        \* what each connection is doing
    calls        \* how many calls were made

store == <<row, revisions, refs, comments, steps, log>>
vars  == <<store, call, calls>>

Tasks  == 1..MaxTasks
Absent == [status |-> "absent", title |-> "", body |-> "", owner |-> "", complete |-> FALSE]
Known(t) == row[t] # Absent
NewTask  == CHOOSE t \in Tasks : ~Known(t) /\ \A u \in 1..(t - 1) : Known(u)

\* An external key is <<name, spelling>>: looked up without regard to case, ...
Folded(key) == key[1]
Taken(keys) == \E r \in refs, key \in keys : Folded(r.key) = Folded(key)
\* ... and compared as it is by the unique index of task_external_refs.
Indexed_Never(key) == FALSE
Indexed(key) == \E r \in refs : r.key = key

Idle == [at |-> "idle", ask |-> [op |-> "none"], result |-> "none", task |-> 0, seen |-> Absent, number |-> 0]
Ask(c) == call[c].ask
Doing(c, op, at) == call[c].at = at /\ Ask(c).op = op
Go(c, at) == call' = [call EXCEPT ![c].at = at] /\ UNCHANGED calls
End(c, result, t) ==
    /\ call' = [call EXCEPT ![c] = [Idle EXCEPT !.at = "done", !.ask = Ask(c), !.result = result, !.task = t]]
    /\ UNCHANGED calls
Announce(t, event) == log' = [log EXCEPT ![t] = Append(@, event)]

Begin(c) ==
    /\ call[c].at \in {"idle", "done"}
    /\ calls < MaxCalls
    /\ \E ask \in Requests : call' = [call EXCEPT ![c] = [Idle EXCEPT !.at = "start", !.ask = ask]]
    /\ calls' = calls + 1
    /\ UNCHANGED store

\* ensureTaskExists, with which every transaction about a task begins.
Missing(c) ==
    /\ call[c].at = "start" /\ Ask(c).op # "create" /\ ~Known(Ask(c).task)
    /\ End(c, "missing", 0)
    /\ UNCHANGED store

\* The one transaction of a call on a task of the store.
Commit(c, op) == Doing(c, op, "start") /\ Known(Ask(c).task) /\ End(c, "ok", Ask(c).task)

-----------------------------------------------------------------------------
(* Creation *)

\* createTaskRecord: in which status a task begins, and who may own its first
\* revision.
FirstStatus(ask) ==
    IF ask.as # "default" THEN ask.as ELSE IF ask.complete THEN "new" ELSE "triage"
MayOwn(owner) == owner \in {"human", "external_source"}
Refused(ask)  == ~MayOwn(ask.by) \/ FirstStatus(ask) \notin {"new", "triage", "ready"}
Unready(ask)  == FirstStatus(ask) = "ready" /\ ~ask.complete

\* createTaskFromBody of the human API looks first for a task of the key of a
\* system's request, and answers with that.
LookUp(c) ==
    /\ Doing(c, "create", "start")
    /\ IF Ask(c).system /\ Taken(Ask(c).keys)
       THEN \E r \in refs : /\ \E key \in Ask(c).keys : Folded(key) = Folded(r.key)
                            /\ End(c, "existing", r.task)
       ELSE Go(c, "checking")
    /\ UNCHANGED store

\* assertExternalRefsAvailable.
CheckRefs(c) ==
    /\ Doing(c, "create", "checking")
    /\ IF Refused(Ask(c)) THEN End(c, "error", 0)
       ELSE IF Unready(Ask(c)) THEN End(c, "unready", 0)
       ELSE IF Taken(Ask(c).keys) THEN End(c, "duplicate", 0)
       ELSE Go(c, "inserting")
    /\ UNCHANGED store

InitialRevision(ask) == [number |-> 1, title |-> ask.title, body |-> ask.body, owner |-> ask.by]

\* insertTaskRecord, or the error of the unique index.
InsertTask(c) ==
    /\ Doing(c, "create", "inserting")
    /\ IF \E key \in Ask(c).keys : Indexed(key) THEN End(c, "error", 0) /\ UNCHANGED store
       ELSE /\ \E t \in Tasks : ~Known(t)
            /\ LET t == NewTask  ask == Ask(c) IN
               /\ row' = [row EXCEPT ![t] = [status |-> FirstStatus(ask), title |-> ask.title,
                            body |-> ask.body, owner |-> ask.by, complete |-> ask.complete]]
               /\ revisions' = [revisions EXCEPT ![t] = {InitialRevision(ask)}]
               /\ refs' = refs \cup {[task |-> t, key |-> key] : key \in ask.keys}
               /\ Announce(t, <<"task_created", "">>)
               /\ UNCHANGED <<comments, steps>>
               /\ End(c, "ok", t)

\* createChildTasks makes its tasks in the name of the worker, who may not own a
\* revision: it fails at the first.
CreateChildren(c) ==
    /\ Doing(c, "children", "start") /\ Known(Ask(c).task)
    /\ End(c, IF MayOwn("worker_agent") THEN "ok" ELSE "error", 0)
    /\ UNCHANGED store

AttachRef(c) ==
    /\ Doing(c, "attach", "start") /\ Known(Ask(c).task)
    /\ IF Taken(Ask(c).keys) THEN End(c, "duplicate", 0) ELSE Go(c, "inserting")
    /\ UNCHANGED store

InsertRef(c) ==
    /\ Doing(c, "attach", "inserting")
    /\ IF \E key \in Ask(c).keys : Indexed(key) THEN End(c, "error", 0) /\ UNCHANGED store
       ELSE /\ refs' = refs \cup {[task |-> Ask(c).task, key |-> key] : key \in Ask(c).keys}
            /\ Announce(Ask(c).task, <<"external_ref_attached", "">>)
            /\ End(c, "ok", Ask(c).task)
            /\ UNCHANGED <<row, revisions, comments, steps>>

-----------------------------------------------------------------------------
(* Revisions *)

\* getTaskUsing reads the row and, in later statements, what belongs to it.
ReadRow(c) ==
    /\ Doing(c, "revise", "start") /\ Known(Ask(c).task)
    /\ call' = [call EXCEPT ![c].at = "reading", ![c].seen = row[Ask(c).task]]
    /\ UNCHANGED <<store, calls>>

ReadRevisions(c) ==
    /\ Doing(c, "revise", "reading")
    /\ call' = [call EXCEPT ![c].at = "writing", ![c].number = Cardinality(revisions[Ask(c).task])]
    /\ UNCHANGED <<store, calls>>

\* The revision: what is asked, and the rest as it was read.
Revised(c) ==
    LET ask == Ask(c)  seen == call[c].seen IN
    [number |-> call[c].number + 1,
     title  |-> IF ask.title = "" THEN seen.title ELSE ask.title,
     body   |-> IF ask.body = "" THEN seen.body ELSE ask.body,
     owner  |-> ask.by]

\* UNIQUE (task_id, revision_number) of task_revisions.
Numbered_Never(t, n) == FALSE
Numbered(t, n) == \E r \in revisions[t] : r.number = n

\* updateTaskRevision: the row and the revision, or the error of the constraint.
WriteRevision(c) ==
    /\ Doing(c, "revise", "writing")
    /\ LET t == Ask(c).task  r == Revised(c) IN
       IF Numbered(t, r.number) \/ ~MayOwn(r.owner) THEN End(c, "error", 0) /\ UNCHANGED store
       ELSE /\ row' = [row EXCEPT ![t].title = r.title, ![t].body = r.body, ![t].owner = r.owner]
            /\ revisions' = [revisions EXCEPT ![t] = @ \cup {r}]
            /\ Announce(t, <<"task_revision_created", "">>)
            /\ End(c, "ok", t)
            /\ UNCHANGED <<refs, comments, steps>>

\* updateExternalTaskFields writes fields that revisions do not carry.
UpdateFields(c) ==
    /\ Commit(c, "fields")
    /\ Announce(Ask(c).task, <<"external_fields_updated", "">>)
    /\ UNCHANGED <<row, revisions, refs, comments, steps>>

-----------------------------------------------------------------------------
(* Status *)

SetStatus(t, status) ==
    /\ row' = [row EXCEPT ![t].status = status]
    /\ IF row[t].status = status THEN UNCHANGED log ELSE Announce(t, <<"task_status_changed", status>>)

\* setStatus locks the row, so that the status it checks is the one it changes.
ChangeStatus(c) ==
    LET t == Ask(c).task IN
    /\ \/ Doing(c, "status", "start") /\ Known(t)
       \/ call[c].at = "changing"
    /\ IF CanTransition(row[t].status, Ask(c).as)
       THEN SetStatus(t, Ask(c).as) /\ End(c, "ok", t) /\ UNCHANGED <<revisions, refs, comments, steps>>
       ELSE End(c, "conflict", 0) /\ UNCHANGED store

\* markReady: the fields are checked on a task read before.
MarkReady(c) ==
    /\ Doing(c, "ready", "start") /\ Known(Ask(c).task)
    /\ IF row[Ask(c).task].complete THEN Go(c, "changing") ELSE End(c, "unready", 0)
    /\ UNCHANGED store

-----------------------------------------------------------------------------
(* Comments and what follows them, each its own transaction *)

\* appendComment.
AppendComment(t, kind) ==
    /\ comments' = [comments EXCEPT ![t] = Append(@, kind)]
    /\ Announce(t, <<"task_comment_created", "">>)
    /\ UNCHANGED <<row, revisions, refs, steps>>

\* appendEvent.
AppendEvent(t, event) == Announce(t, event) /\ UNCHANGED <<row, revisions, refs, comments, steps>>

AskClarification(c) ==
    /\ Doing(c, "question", "start") /\ Known(Ask(c).task)
    /\ AppendComment(Ask(c).task, "question")
    /\ Go(c, "telling")

RecordAnswer(c) ==
    /\ Doing(c, "answer", "start") /\ Known(Ask(c).task)
    /\ AppendComment(Ask(c).task, "answer")
    /\ Go(c, "telling")

TellQuestion(c) ==
    /\ Doing(c, "question", "telling")
    /\ AppendEvent(Ask(c).task, <<"clarification_requested", "">>)
    /\ End(c, "ok", Ask(c).task)

TellAnswer(c) ==
    /\ Doing(c, "answer", "telling")
    /\ AppendEvent(Ask(c).task, <<"human_answer_recorded", "">>)
    /\ Go(c, "resuming")

\* recordHumanAnswer: a task that waits is made ready.
Waits(t) == row[t].status \in {"awaiting_human", "blocked", "failed"}
ResumeTask(c) ==
    /\ Doing(c, "answer", "resuming")
    /\ IF Waits(Ask(c).task) THEN Go(c, "changing") ELSE End(c, "ok", Ask(c).task)
    /\ UNCHANGED store

-----------------------------------------------------------------------------
(* Steps and other records *)

Step(c) == [kind |-> Ask(c).kind, status |-> Ask(c).as]

\* recordTaskStep reads whether the step is there: there is no constraint.
FindStep(c) ==
    /\ Doing(c, "step", "start") /\ Known(Ask(c).task)
    /\ LET same == {i \in DOMAIN steps[Ask(c).task] : steps[Ask(c).task][i].kind = Ask(c).kind} IN
       call' = [call EXCEPT ![c].at = "writing", ![c].number = IF same = {} THEN 0 ELSE CHOOSE i \in same : \A j \in same : i <= j]
    /\ UNCHANGED <<store, calls>>

WriteStep(c) ==
    /\ Doing(c, "step", "writing")
    /\ LET t == Ask(c).task IN
       /\ steps' = [steps EXCEPT ![t] = IF call[c].number = 0 THEN Append(@, Step(c)) ELSE [@ EXCEPT ![call[c].number] = Step(c)]]
       /\ Announce(t, <<"task_step_recorded", "">>)
       /\ End(c, "ok", t)
    /\ UNCHANGED <<row, revisions, refs, comments>>

\* appendEventOnce takes an advisory lock of the transaction on the key, ...
Locked_Never(c) == FALSE
Locked(c) == \E d \in Callers \ {c} : /\ Ask(d).op = "once" /\ call[d].at = "writing"
                                      /\ Ask(d).task = Ask(c).task /\ Ask(d).kind = Ask(c).kind
Registered(t, kind) == \E i \in DOMAIN log[t] : log[t][i] = <<"attachments_registered", kind>>
Register(c) ==
    /\ Doing(c, "once", "start") /\ Known(Ask(c).task)
    /\ ~Locked(c)
    /\ IF Registered(Ask(c).task, Ask(c).kind) THEN End(c, "existing", Ask(c).task) ELSE Go(c, "writing")
    /\ UNCHANGED store

\* ... which the commit releases.
WriteEvent(c) ==
    /\ Doing(c, "once", "writing")
    /\ AppendEvent(Ask(c).task, <<"attachments_registered", Ask(c).kind>>)
    /\ End(c, "ok", Ask(c).task)

\* Records that one transaction inserts, with their event.
Insert(c, op, event) ==
    /\ Commit(c, op)
    /\ Announce(Ask(c).task, <<event, "">>)
    /\ UNCHANGED <<row, revisions, refs, comments, steps>>
RecordAgentRun(c)       == Insert(c, "run", "agent_run_recorded")
RecordValidation(c)     == Insert(c, "validation", "validation_recorded")
RecordMergeRequest(c)   == Insert(c, "merge_request", "merge_request_recorded")
RecordReviewMetadata(c) == Insert(c, "review", "review_metadata_recorded")
RecordMemoryContext(c)  == Insert(c, "memory", "memory_context_recorded")
AddEvent(c)             == Insert(c, "event", "event_appended")
RecordDecision(c)       == Commit(c, "decision") /\ UNCHANGED store

\* recordAnalysis: the decision and its event are two transactions.
RecordAnalysis(c) ==
    /\ Doing(c, "analysis", "start") /\ Known(Ask(c).task)
    /\ Go(c, "telling")
    /\ UNCHANGED store
TellAnalysis(c) ==
    /\ Doing(c, "analysis", "telling")
    /\ AppendEvent(Ask(c).task, <<"analysis_recorded", "">>)
    /\ End(c, "ok", Ask(c).task)

\* The process dies between two statements: the transaction is rolled back.
Die(c) ==
    /\ call[c].at \notin {"idle", "done"}
    /\ call' = [call EXCEPT ![c] = Idle]
    /\ UNCHANGED <<store, calls>>

-----------------------------------------------------------------------------

Init ==
    /\ row = [t \in Tasks |-> Absent]
    /\ revisions = [t \in Tasks |-> {}]
    /\ refs = {}
    /\ comments = [t \in Tasks |-> <<>>]
    /\ steps = [t \in Tasks |-> <<>>]
    /\ log = [t \in Tasks |-> <<>>]
    /\ call = [c \in Callers |-> Idle]
    /\ calls = 0

Perform(c) ==
    \/ Missing(c)
    \/ LookUp(c) \/ CheckRefs(c) \/ InsertTask(c) \/ CreateChildren(c) \/ AttachRef(c) \/ InsertRef(c)
    \/ ReadRow(c) \/ ReadRevisions(c) \/ WriteRevision(c) \/ UpdateFields(c)
    \/ ChangeStatus(c) \/ MarkReady(c)
    \/ AskClarification(c) \/ RecordAnswer(c) \/ TellQuestion(c) \/ TellAnswer(c) \/ ResumeTask(c)
    \/ FindStep(c) \/ WriteStep(c) \/ Register(c) \/ WriteEvent(c)
    \/ RecordAgentRun(c) \/ RecordValidation(c) \/ RecordMergeRequest(c) \/ RecordReviewMetadata(c)
    \/ RecordMemoryContext(c) \/ AddEvent(c) \/ RecordDecision(c) \/ RecordAnalysis(c) \/ TellAnalysis(c)

Next == \E c \in Callers : Begin(c) \/ Perform(c) \/ Die(c)
Spec == Init /\ [][Next]_vars

-----------------------------------------------------------------------------
(* Properties *)

Count(s, P(_)) == Cardinality({i \in DOMAIN s : P(s[i])})

TypeOK ==
    /\ \A t \in Tasks : /\ row[t] = Absent \/ row[t].status \in Status
                        /\ row[t] = Absent <=> revisions[t] = {}
                        /\ \A i \in DOMAIN comments[t] : comments[t][i] \in {"question", "answer"}
    /\ \A r \in refs : Known(r.task)
    /\ \A c \in Callers : call[c].task \in 0..MaxTasks
    /\ calls \in 0..MaxCalls

\* A key, as it is spelled, refers to one task, although a creation looks for it
\* in a statement before the one that inserts it.
KeyNamesOneTask == \A r, s \in refs : r.key = s.key => r.task = s.task

\* Requests of a system with one idempotency key that were answered with a task
\* were answered with one task; only where a key is spelled in two ways may two
\* tasks have it.
Spelled(key) == \A r \in refs : Folded(r.key) = Folded(key) => r.key = key
RetryFindsItsTask ==
    \A c, d \in Callers :
      /\ \A e \in {c, d} : call[e].at = "done" /\ Ask(e).op = "create" /\ call[e].task # 0
      /\ \E key \in Ask(c).keys \cap Ask(d).keys : Spelled(key)
      => call[c].task = call[d].task

\* The row of a task is what its last revision says, and the revisions are
\* numbered without a gap and without a double, although the number is that of
\* an earlier statement, and the row that of one before.
RevisionsAreOnRecord ==
    \A t \in Tasks : Known(t) =>
      /\ {r.number : r \in revisions[t]} = 1..Cardinality(revisions[t])
      /\ \A r \in revisions[t] : r.number = Cardinality(revisions[t]) =>
           <<row[t].title, row[t].body, row[t].owner>> = <<r.title, r.body, r.owner>>

\* Attachments of one key are registered once, by however many updates at once.
RegisteredOnce ==
    \A t \in Tasks : \A i, j \in DOMAIN log[t] :
      log[t][i][1] = "attachments_registered" /\ log[t][i] = log[t][j] => i = j

\* A question or an answer is announced only after it is stored, whenever the
\* process dies.
AnnouncedIsStored ==
    \A t \in Tasks :
      /\ Count(log[t], LAMBDA e : e[1] = "clarification_requested") <= Count(comments[t], LAMBDA k : k = "question")
      /\ Count(log[t], LAMBDA e : e[1] = "human_answer_recorded") <= Count(comments[t], LAMBDA k : k = "answer")

\* Creations, references, changes of status, registrations and plain records take
\* place at once or not at all, as the tracker in memory does them, however their
\* statements interleave: where a key is spelled in one way, and but for edits,
\* steps, questions, answers and analyses, whose statements others come between.
InMemory == INSTANCE MemoryRecords WITH Asked <- Requests
AtomicStep == InMemory!Step
=============================================================================
