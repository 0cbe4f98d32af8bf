---------------------------- MODULE YandexBridge ----------------------------
(***************************************************************************)
(* The bridge between Yandex Tracker and the internal tracker              *)
(* (src/integrations/yandexBridge/bridge.ts, store.ts, source.ts), as the  *)
(* cycle of an internal worker runs it: every cycle begins with an import  *)
(* of all issues, one by one, and what a worker does with a task is        *)
(* mirrored at the end.                                                    *)
(*                                                                         *)
(* An issue and its task have one number.  A comment knows how many        *)
(* questions had been asked when it was written, which stands for its      *)
(* time.  The worker's own work is cut down to asking or delivering, and   *)
(* recordHumanAnswer to one step: both are the subject of InternalWorker.  *)
(* Fields of an issue other than its status are left out.                  *)
(*                                                                         *)
(* A definition whose name has a suffix after an underscore is a seeded    *)
(* fault of the definition below it; no specification uses it.             *)
(***************************************************************************)
EXTENDS Naturals, Sequences, FiniteSets, TaskStatus

CONSTANTS
    Workers,
    Issues,       \* numbers, in the order of the search
    Kinds,        \* of people's comments: "plain", or "command" for one with /resume
    Resolving,    \* whether people resolve issues
    MaxComments,  \* bound: comments by people of an issue
    MaxQuestions, \* bound: questions about a task
    MaxFaults     \* bound: failures and crashes in all

VARIABLES
    issue,        \* logical status of each issue in Yandex
    comments,     \* comments by people, and how many questions preceded them
    task,         \* status of each issue's task
    questions,    \* how often the task asked
    answers,      \* answers stored with the task: comment and question
    notes,        \* comments stored with the task as ordinary ones
    imported,     \* imported_human_commands
    posted,       \* questions whose digest is a comment of the issue
    exported,     \* external_digest_exports
    synced,       \* target of the latest of external_status_syncs
    cycle,        \* what each worker is doing
    faults

vars == <<issue, comments, task, questions, answers, notes, imported, posted, exported, synced,
          cycle, faults>>

Stages == {"idle", "next", "create", "accept", "list", "comments", "mark",
           "work", "look", "export", "record_export", "sync", "record_sync"}
Idle == [at |-> "idle",
         list |-> {},                         \* snapshots still to import
         status |-> "none", question |-> 0,   \* the task when its issue was looked up
         todo |-> {},                         \* comments to import, questions to export
         worked |-> 0,                        \* the task of this cycle
         target |-> "none"]                   \* what it is synced to

\* One by one, in the order of the search.
First(list) == CHOOSE s \in list : \A t \in list : s.of <= t.of
Now(w)   == First(cycle[w].list)
Least(S) == CHOOSE x \in S : \A y \in S : x <= y
Go(w, at) == cycle' = [cycle EXCEPT ![w].at = at]
End(w)    == cycle' = [cycle EXCEPT ![w] = Idle]

-----------------------------------------------------------------------------
(* importCandidates *)

\* All issues of the queue: the cursor limits nothing.
Fetch(w) ==
    /\ cycle[w].at = "idle"
    /\ LET filed == {i \in Issues : issue[i] # "absent"} IN
       cycle' = [cycle EXCEPT ![w] =
          [Idle EXCEPT !.at = "next", !.list = {[of |-> i, status |-> issue[i]] : i \in filed}]]
    /\ UNCHANGED <<issue, comments, task, questions, answers, notes, imported, posted, exported, synced, faults>>

NextIssue(w) == cycle' = [cycle EXCEPT ![w].at = "next", ![w].list = @ \ {First(@)}]

\* importSnapshot: findTaskByExternalRef.
Find(w) ==
    /\ cycle[w].at = "next" /\ cycle[w].list # {}
    /\ LET i == Now(w).of IN
       IF task[i] = "none" /\ Now(w).status # "open" THEN NextIssue(w)
       ELSE cycle' = [cycle EXCEPT ![w].at = IF task[i] = "none" THEN "create" ELSE "accept",
                                   ![w].status = task[i], ![w].question = questions[i]]
    /\ UNCHANGED <<issue, comments, task, questions, answers, notes, imported, posted, exported, synced, faults>>

\* createTaskFromSnapshot: the task's id is that of the issue, so that of two
\* workers one fails.
Create(w) ==
    /\ cycle[w].at = "create"
    /\ LET i == Now(w).of IN
       IF task[i] = "none" THEN task' = [task EXCEPT ![i] = "ready"] /\ Go(w, "list")
       ELSE UNCHANGED task /\ End(w)
    /\ UNCHANGED <<issue, comments, questions, answers, notes, imported, posted, exported, synced, faults>>

\* applyExternalAcceptance: setStatus refuses what the lifecycle does not allow,
\* and the error ends the cycle.
Accept(w) ==
    /\ cycle[w].at = "accept"
    /\ LET i == Now(w).of IN
       IF Now(w).status # "done" \/ cycle[w].status \in {"done", "failed", "cancelled"}
       THEN UNCHANGED task /\ Go(w, "list")
       ELSE IF CanTransition(task[i], "done")
       THEN task' = [task EXCEPT ![i] = "done"] /\ Go(w, "list")
       ELSE UNCHANGED task /\ End(w)
    /\ UNCHANGED <<issue, comments, questions, answers, notes, imported, posted, exported, synced, faults>>

Unimported_Again(i) == 1..Len(comments[i])
Unimported_Latest(i) == {Len(comments[i])} \ ({0} \cup imported[i])
Unimported(i) == 1..Len(comments[i]) \ imported[i]

\* importComments: getComments, and hasImportedComment of each.
List(w) ==
    /\ cycle[w].at = "list"
    /\ cycle' = [cycle EXCEPT ![w].at = "comments",
                              ![w].todo = Unimported(Now(w).of)]
    /\ UNCHANGED <<issue, comments, task, questions, answers, notes, imported, posted, exported, synced, faults>>

\* A comment with a command is an answer, and so is one that was written after
\* the latest question.
IsAnswer(c, q) == c.kind = "command" \/ (q > 0 /\ c.asked >= q)

\* An answer puts a task that waits back into the queue, an ordinary comment does not.
Resumes_Always(c, q) == TRUE
Resumes(c, q) == IsAnswer(c, q)
Resumed(status, c, q) ==
    IF Resumes(c, q) /\ status \in {"awaiting_human", "blocked", "failed"} THEN "ready" ELSE status

\* recordHumanAnswer or appendComment, with the question of the task as it was
\* when the issue was looked up.
Store(w) ==
    /\ cycle[w].at = "comments" /\ cycle[w].todo # {}
    /\ LET i == Now(w).of
           c == Least(cycle[w].todo)
           q == cycle[w].question
       IN  /\ IF IsAnswer(comments[i][c], q)
              THEN answers' = [answers EXCEPT ![i] = @ \cup {<<c, q>>}] /\ UNCHANGED notes
              ELSE notes' = [notes EXCEPT ![i] = @ \cup {c}] /\ UNCHANGED answers
           /\ task' = [task EXCEPT ![i] = Resumed(@, comments[i][c], q)]
    /\ Go(w, "mark")
    /\ UNCHANGED <<issue, comments, questions, imported, posted, exported, synced, faults>>

\* recordImportedComment.
MarkImported(w) ==
    /\ cycle[w].at = "mark"
    /\ LET i == Now(w).of
           c == Least(cycle[w].todo)
       IN  /\ imported' = [imported EXCEPT ![i] = @ \cup {c}]
           /\ cycle' = [cycle EXCEPT ![w].at = "comments", ![w].todo = @ \ {c}]
    /\ UNCHANGED <<issue, comments, task, questions, answers, notes, posted, exported, synced, faults>>

CommentsDone(w) ==
    /\ cycle[w].at = "comments" /\ cycle[w].todo = {}
    /\ NextIssue(w)
    /\ UNCHANGED <<issue, comments, task, questions, answers, notes, imported, posted, exported, synced, faults>>

-----------------------------------------------------------------------------
(* The rest of the cycle *)

\* A claim, or the reconciliation of a merged merge request, or nothing to do.
Take(w) ==
    /\ cycle[w].at = "next" /\ cycle[w].list = {}
    /\ \/ \E i \in Issues, taken \in {<<"ready", "analyzing", "work">>, <<"review", "human_testing", "look">>} :
            /\ task[i] = taken[1]
            /\ task' = [task EXCEPT ![i] = taken[2]]
            /\ cycle' = [cycle EXCEPT ![w].at = taken[3], ![w].worked = i]
       \/ /\ \A i \in Issues : task[i] \notin {"ready", "review"}
          /\ End(w) /\ UNCHANGED task
    /\ UNCHANGED <<issue, comments, questions, answers, notes, imported, posted, exported, synced, faults>>

\* The task asks, or is delivered.
Process(w) ==
    /\ cycle[w].at = "work"
    /\ LET i == cycle[w].worked IN
       \/ /\ questions[i] < MaxQuestions
          /\ questions' = [questions EXCEPT ![i] = @ + 1]
          /\ task' = [task EXCEPT ![i] = "awaiting_human"]
       \/ /\ task' = [task EXCEPT ![i] = "review"]
          /\ UNCHANGED questions
    /\ Go(w, "look")
    /\ UNCHANGED <<issue, comments, answers, notes, imported, posted, exported, synced, faults>>

\* exportTaskDigests, for the questions.
Look(w) ==
    /\ cycle[w].at = "look"
    /\ cycle' = [cycle EXCEPT ![w].at = "export", ![w].todo = 1..questions[cycle[w].worked]]
    /\ UNCHANGED <<issue, comments, task, questions, answers, notes, imported, posted, exported, synced, faults>>

\* exportDigestOnce: hasExportedDigest, the comment and recordExportedDigest.
Export(w) ==
    /\ cycle[w].at = "export"
    /\ LET i    == cycle[w].worked
           left == cycle[w].todo \ exported[i]
       IN  IF left = {} THEN Go(w, "sync") /\ UNCHANGED posted
           ELSE /\ posted' = [posted EXCEPT ![i] = @ \cup {Least(left)}]
                /\ cycle' = [cycle EXCEPT ![w].at = "record_export", ![w].todo = left]
    /\ UNCHANGED <<issue, comments, task, questions, answers, notes, imported, exported, synced, faults>>

RecordExport(w) ==
    /\ cycle[w].at = "record_export"
    /\ exported' = [exported EXCEPT ![cycle[w].worked] = @ \cup {Least(cycle[w].todo)}]
    /\ Go(w, "export")
    /\ UNCHANGED <<issue, comments, task, questions, answers, notes, imported, posted, synced, faults>>

\* syncTaskStatus and transitionExternal: whatever the issue's status is by now.
Sync(w) ==
    /\ cycle[w].at = "sync"
    /\ LET i == cycle[w].worked
           target == LogicalStatus(task[i])
       IN  IF task[i] = "ready" \/ synced[i] = target THEN End(w) /\ UNCHANGED issue
           ELSE /\ issue' = [issue EXCEPT ![i] = target]
                /\ cycle' = [cycle EXCEPT ![w].at = "record_sync", ![w].target = target]
    /\ UNCHANGED <<comments, task, questions, answers, notes, imported, posted, exported, synced, faults>>

RecordSync(w) ==
    /\ cycle[w].at = "record_sync"
    /\ synced' = [synced EXCEPT ![cycle[w].worked] = cycle[w].target]
    /\ End(w)
    /\ UNCHANGED <<issue, comments, task, questions, answers, notes, imported, posted, exported, faults>>

-----------------------------------------------------------------------------
(* People, and calls that fail *)

File(i) ==
    /\ issue[i] = "absent"
    /\ issue' = [issue EXCEPT ![i] = "open"]
    /\ UNCHANGED <<comments, task, questions, answers, notes, imported, posted, exported, synced, cycle, faults>>

Comment(i) ==
    /\ issue[i] # "absent"
    /\ Len(comments[i]) < MaxComments
    /\ \E kind \in Kinds :
         comments' = [comments EXCEPT ![i] = Append(@, [kind |-> kind, asked |-> questions[i]])]
    /\ UNCHANGED <<issue, task, questions, answers, notes, imported, posted, exported, synced, cycle, faults>>

Resolve(i) ==
    /\ Resolving
    /\ issue[i] \notin {"absent", "done"}
    /\ issue' = [issue EXCEPT ![i] = "done"]
    /\ UNCHANGED <<comments, task, questions, answers, notes, imported, posted, exported, synced, cycle, faults>>

\* A call fails or the worker dies between two steps of the bridge.
Break(w) ==
    /\ cycle[w].at \notin {"idle", "work"}
    /\ faults < MaxFaults
    /\ faults' = faults + 1
    /\ End(w)
    /\ UNCHANGED <<issue, comments, task, questions, answers, notes, imported, posted, exported, synced>>

Init ==
    /\ issue = [i \in Issues |-> "absent"]
    /\ comments = [i \in Issues |-> <<>>]
    /\ task = [i \in Issues |-> "none"]
    /\ questions = [i \in Issues |-> 0]
    /\ answers = [i \in Issues |-> {}] /\ notes = [i \in Issues |-> {}]
    /\ imported = [i \in Issues |-> {}]
    /\ posted = [i \in Issues |-> {}] /\ exported = [i \in Issues |-> {}]
    /\ synced = [i \in Issues |-> "none"]
    /\ cycle = [w \in Workers |-> Idle]
    /\ faults = 0

Step(w) ==
    \/ Fetch(w) \/ Find(w) \/ Create(w) \/ Accept(w) \/ List(w) \/ Store(w) \/ MarkImported(w)
    \/ CommentsDone(w) \/ Take(w) \/ Process(w) \/ Look(w) \/ Export(w) \/ RecordExport(w) \/ Sync(w)
    \/ RecordSync(w)

Next ==
    \/ \E w \in Workers : Step(w) \/ Break(w)
    \/ \E i \in Issues : File(i) \/ Comment(i) \/ Resolve(i)

Fairness == \A w \in Workers : WF_vars(Step(w))

Spec     == Init /\ [][Next]_vars
FairSpec == Spec /\ Fairness

-----------------------------------------------------------------------------
(* Properties *)

TypeOK ==
    /\ issue \in [Issues -> {"absent", "open", "in_progress", "waiting_for_answer", "review", "done"}]
    /\ task \in [Issues -> Status \cup {"none"}]
    /\ \A i \in Issues :
         /\ Len(comments[i]) <= MaxComments
         /\ questions[i] \in 0..MaxQuestions
         /\ answers[i] \subseteq (1..Len(comments[i])) \X (0..questions[i])
         /\ notes[i] \cup imported[i] \subseteq 1..Len(comments[i])
         /\ posted[i] \cup exported[i] \subseteq 1..questions[i]
    /\ \A w \in Workers : cycle[w].at \in Stages

\* A comment is with the task, as an answer or as an ordinary one.
Stored(i, c) == c \in notes[i] \/ \E a \in answers[i] : a[1] = c

\* What is marked as imported is with the task, and what is marked as exported was
\* posted, however many workers import and fail at the same time.
NothingLeftOut ==
    \A i \in Issues : (\A c \in imported[i] : Stored(i, c)) /\ exported[i] \subseteq posted[i]

\* An import that failed between recordHumanAnswer or appendComment and
\* recordImportedComment is repeated, and may store a comment again.  If one worker
\* imports, it is stored as what it was before: as an ordinary comment, or as the
\* answer to the same question.
OneMeaning ==
    \A i \in Issues :
       /\ \A a \in answers[i] : a[1] \notin notes[i]
       /\ \A a, b \in answers[i] : a[1] = b[1] => a[2] = b[2]

\* And a task that asked does not go on until its latest question is answered.
AnsweredFirst ==
    \A i \in Issues : questions[i] > 0 /\ task[i] \in {"ready", "analyzing", "review", "human_testing"}
                        => \E a \in answers[i] : a[2] = questions[i]

\* Every comment of a filed issue reaches the task, as long as nobody resolves
\* an issue: failures only delay it.
Unread(i)      == \E c \in 1..Len(comments[i]) : c \notin imported[i]
CommentsArrive == \A i \in Issues : Unread(i) ~> ~Unread(i)

\* README.md: a task is done after its issue was accepted by hand; so the task of
\* an issue that stays resolved gets there.
ResolvedIsDone ==
    \A i \in Issues : []<>(issue[i] = "done" /\ task[i] # "none" => task[i] = "done")
=============================================================================
