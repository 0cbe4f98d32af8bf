---------------------------- MODULE MemoryRecords ----------------------------
(***************************************************************************)
(* The records of a task in the tracker that keeps its tasks in memory     *)
(* (src/domain/taskTracker/inMemoryTaskTracker.ts).  Its methods await     *)
(* nothing between their first look and their last write, so that each is  *)
(* one step: this is what a caller of TaskTrackerClient may hope for, and  *)
(* what TaskRecords, the same methods over PostgreSQL, is compared with.   *)
(***************************************************************************)
EXTENDS TaskStatus, Naturals, Sequences, FiniteSets

CONSTANTS
    Tasks,       \* ids, 1, 2, ...
    Absent,      \* the row of an id that is not in use
    Asked        \* what may be asked: [op, task, ...]

VARIABLES row, revisions, refs, comments, steps, log

store == <<row, revisions, refs, comments, steps, log>>

Known(t)  == row[t] # Absent
Fresh     == CHOOSE t \in Tasks : ~Known(t) /\ \A u \in 1..(t - 1) : Known(u)
Emit(t, event) == log' = [log EXCEPT ![t] = Append(@, event)]
KeyOf(key)     == key[1]
Available(keys) == \A r \in refs, key \in keys : KeyOf(r.key) # KeyOf(key)
Owners         == {"human", "external_source"}

-----------------------------------------------------------------------------

CreateTask(ask) ==
    LET s == IF ask.as # "default" THEN ask.as ELSE IF ask.complete THEN "new" ELSE "triage"
        t == Fresh
    IN
    /\ ask.by \in Owners
    /\ s \in {"new", "triage", "ready"}
    /\ s = "ready" => ask.complete
    /\ Available(ask.keys)
    /\ row' = [row EXCEPT ![t] = [status |-> s, title |-> ask.title, body |-> ask.body,
                                  owner |-> ask.by, complete |-> ask.complete]]
    /\ revisions' = [revisions EXCEPT ![t] = {[number |-> 1, title |-> ask.title, body |-> ask.body, owner |-> ask.by]}]
    /\ refs' = refs \cup {[task |-> t, key |-> key] : key \in ask.keys}
    /\ Emit(t, <<"task_created", "">>)
    /\ UNCHANGED <<comments, steps>>

UpdateTaskRevision(ask) ==
    LET t == ask.task
        r == [number |-> Cardinality(revisions[t]) + 1,
              title  |-> IF ask.title = "" THEN row[t].title ELSE ask.title,
              body   |-> IF ask.body = "" THEN row[t].body ELSE ask.body,
              owner  |-> ask.by]
    IN
    /\ ask.by \in Owners
    /\ row' = [row EXCEPT ![t].title = r.title, ![t].body = r.body, ![t].owner = r.owner]
    /\ revisions' = [revisions EXCEPT ![t] = @ \cup {r}]
    /\ Emit(t, <<"task_revision_created", "">>)
    /\ UNCHANGED <<refs, comments, steps>>

AttachExternalRef(ask) ==
    /\ Available(ask.keys)
    /\ refs' = refs \cup {[task |-> ask.task, key |-> key] : key \in ask.keys}
    /\ Emit(ask.task, <<"external_ref_attached", "">>)
    /\ UNCHANGED <<row, revisions, comments, steps>>

\* setStatus, and markReady, which is refused while a field is missing.
SetStatus(ask, t, s) ==
    /\ ask.op = "ready" => row[t].complete
    /\ row[t].status # s /\ CanTransition(row[t].status, s)
    /\ row' = [row EXCEPT ![t].status = s]
    /\ Emit(t, <<"task_status_changed", s>>)
    /\ UNCHANGED <<revisions, refs, comments, steps>>

\* recordTaskStep: a step of a kind is made once, and written over later.
RecordTaskStep(ask) ==
    LET t == ask.task
        new == [kind |-> ask.kind, status |-> ask.as]
        same == {i \in DOMAIN steps[t] : steps[t][i].kind = ask.kind}
    IN
    /\ steps' = [steps EXCEPT ![t] = IF same = {} THEN Append(@, new)
                                     ELSE [i \in DOMAIN @ |-> IF i \in same THEN new ELSE @[i]]]
    /\ Emit(t, <<"task_step_recorded", "">>)
    /\ UNCHANGED <<row, revisions, refs, comments>>

\* Methods that leave an event, and a record nothing else reads.
Note(t, event) == Emit(t, event) /\ UNCHANGED <<row, revisions, refs, comments, steps>>
AppendEventOnce(t, kind) ==
    /\ \A i \in DOMAIN log[t] : log[t][i] # <<"attachments_registered", kind>>
    /\ Note(t, <<"attachments_registered", kind>>)
UpdateExternalTaskFields(t) == Note(t, <<"external_fields_updated", "">>)
AppendEvent(t)          == Note(t, <<"event_appended", "">>)
RecordAgentRun(t)       == Note(t, <<"agent_run_recorded", "">>)
RecordValidation(t)     == Note(t, <<"validation_recorded", "">>)
RecordMergeRequest(t)   == Note(t, <<"merge_request_recorded", "">>)
RecordReviewMetadata(t) == Note(t, <<"review_metadata_recorded", "">>)
RecordMemoryContext(t)  == Note(t, <<"memory_context_recorded", "">>)
RecordAnalysis(t)       == Note(t, <<"analysis_recorded", "">>)

\* askClarification.
AskClarification(t) ==
    /\ comments' = [comments EXCEPT ![t] = Append(@, "question")]
    /\ Emit(t, <<"clarification_requested", "">>)
    /\ UNCHANGED <<row, revisions, refs, steps>>

\* recordHumanAnswer makes a task that waits ready in the same step.
RecordHumanAnswer(t) ==
    LET waits == row[t].status \in {"awaiting_human", "blocked", "failed"}
        told  == Append(log[t], <<"human_answer_recorded", "">>)
    IN
    /\ comments' = [comments EXCEPT ![t] = Append(@, "answer")]
    /\ log' = [log EXCEPT ![t] = IF waits THEN Append(told, <<"task_status_changed", "ready">>) ELSE told]
    /\ row' = IF waits THEN [row EXCEPT ![t].status = "ready"] ELSE row
    /\ UNCHANGED <<revisions, refs, steps>>

-----------------------------------------------------------------------------

Next ==
    \E ask \in Asked :
      \/ ask.op = "create" /\ CreateTask(ask)
      \/ /\ ask.op # "create" /\ Known(ask.task)
         /\ \/ ask.op = "revise"        /\ UpdateTaskRevision(ask)
            \/ ask.op = "attach"        /\ AttachExternalRef(ask)
            \/ ask.op \in {"status", "ready"} /\ SetStatus(ask, ask.task, ask.as)
            \/ ask.op = "step"          /\ RecordTaskStep(ask)
            \/ ask.op = "once"          /\ AppendEventOnce(ask.task, ask.kind)
            \/ ask.op = "fields"        /\ UpdateExternalTaskFields(ask.task)
            \/ ask.op = "event"         /\ AppendEvent(ask.task)
            \/ ask.op = "run"           /\ RecordAgentRun(ask.task)
            \/ ask.op = "validation"    /\ RecordValidation(ask.task)
            \/ ask.op = "merge_request" /\ RecordMergeRequest(ask.task)
            \/ ask.op = "review"        /\ RecordReviewMetadata(ask.task)
            \/ ask.op = "memory"        /\ RecordMemoryContext(ask.task)
            \/ ask.op = "analysis"      /\ RecordAnalysis(ask.task)
            \/ ask.op = "question"      /\ AskClarification(ask.task)
            \/ ask.op = "answer"        /\ RecordHumanAnswer(ask.task)

Step == Next \/ UNCHANGED store
=============================================================================
