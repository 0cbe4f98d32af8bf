-------------------------- MODULE TelegramNotices ---------------------------
(***************************************************************************)
(* What subscribers of a task are told, and how they answer the worker's   *)
(* questions in the chat (src/domain/telegramAssistant/                    *)
(* notificationRouter.ts, service.ts, postgresStore.ts).  One conversation *)
(* is subscribed to one task.  A timer in each process scans the task's    *)
(* events past the subscription's watermark and sends them one by one.     *)
(*                                                                         *)
(* A question, its event and its prompt have one number.  Two answers with *)
(* one body are one answer, as in hasRecordedTelegramAnswer.  A reserved   *)
(* delivery becomes stale only when nobody works on it any more: a send    *)
(* takes less than the five minutes of retryStaleMs.                       *)
(***************************************************************************)
EXTENDS TelegramUpdates, FiniteSets, SequencesExt

CONSTANTS
    Scanners,    \* processes whose timer scans
    Confirm,     \* confirmWriteActions
    Bodies,      \* what people write
    MaxEvents    \* bound: events of the task

VARIABLES
    events,      \* events of the task, each "plain" or a question
    waiting,     \* whether the task is awaiting_human
    answers,     \* answer comments of each question, by body
    delivery,    \* telegram_assistant_sent_notifications, by event
    watermark,   \* last_notified_event_id of the subscription
    told,        \* messages about each event that reached the chat
    prompts,     \* open rows of telegram_active_task_question_prompts by updated_at
    closed,      \* prompts that were answered
    pending,     \* answers that wait for a yes, by update
    scan         \* what each timer is doing

nvars == <<events, waiting, answers, delivery, watermark, told, prompts, closed, pending, scan>>
vars  == <<uvars, nvars>>

Updates == 1..MaxUpdates
Events  == 1..MaxEvents
NoScan  == [at |-> "none", mark |-> 0, todo |-> <<>>, open |-> 0]

IsAnswered(q) == \E b \in Bodies : answers[q][b] > 0
OpenQuestions == {q \in 1..Len(events) : events[q] = "asks" /\ ~IsAnswered(q)}
Latest(S)     == IF S = {} THEN 0 ELSE CHOOSE x \in S : \A y \in S : y <= x

Same == UNCHANGED <<inbox, offset, acked, processed, faults>>

-----------------------------------------------------------------------------
(* The scan *)

\* runNotificationScan does not start a second scan; listAllTaskSubscriptions.
StartScan(s) ==
    /\ scan[s].at = "none"
    /\ scan' = [scan EXCEPT ![s] = [NoScan EXCEPT !.at = "listed", !.mark = watermark]]
    /\ UNCHANGED <<uvars, events, waiting, answers, delivery, watermark, told, prompts, closed, pending>>

\* getTask, and eventsAfterSubscriptionWatermark.
ReadTask(s) ==
    /\ scan[s].at = "listed"
    /\ scan' = [scan EXCEPT ![s].at = "next",
                            ![s].todo = [i \in 1..(Len(events) - scan[s].mark) |-> scan[s].mark + i],
                            ![s].open = Latest(OpenQuestions)]
    /\ UNCHANGED <<uvars, events, waiting, answers, delivery, watermark, told, prompts, closed, pending>>

Event(s) == Head(scan[s].todo)
Skip(s)  == scan' = [scan EXCEPT ![s].at = "next", ![s].todo = Tail(@)]

\* reserveNotificationDelivery: nothing to do for a row that is sent or in hand.
MayReserve_Always(e) == TRUE
MayReserve(e) == delivery[e] \in {"none", "stale"}
Reserve(s) ==
    /\ scan[s].at = "next"
    /\ IF scan[s].todo = <<>> THEN scan' = [scan EXCEPT ![s] = NoScan] /\ UNCHANGED delivery
       ELSE IF MayReserve(Event(s))
       THEN /\ delivery' = [delivery EXCEPT ![Event(s)] = "sending"]
            /\ scan' = [scan EXCEPT ![s].at = "sending"]
       ELSE Skip(s) /\ UNCHANGED delivery
    /\ UNCHANGED <<uvars, events, waiting, answers, watermark, told, prompts, closed, pending>>

\* The open question of the task goes with a notice that it waits for a person.
Send(s) ==
    /\ scan[s].at = "sending"
    /\ told' = [told EXCEPT ![Event(s)] = IF @ < 2 THEN @ + 1 ELSE @]
    /\ scan' = [scan EXCEPT ![s].at =
                  IF events[Event(s)] = "asks" /\ scan[s].open # 0 THEN "prompting" ELSE "recording"]
    /\ UNCHANGED <<uvars, events, waiting, answers, delivery, watermark, prompts, closed, pending>>

\* The message or its confirmation is lost: the error ends the scan.
FailToSend(s) ==
    /\ scan[s].at = "sending"
    /\ faults < MaxFaults
    /\ faults' = faults + 1
    /\ told' \in {told, [told EXCEPT ![Event(s)] = IF @ < 2 THEN @ + 1 ELSE @]}
    /\ scan' = [scan EXCEPT ![s] = NoScan]
    /\ UNCHANGED <<inbox, offset, acked, processed, hand, events, waiting, answers, delivery, watermark,
                   prompts, closed, pending>>

\* upsertActiveTaskQuestionPrompt writes over an open row only.
Prompt(q) == prompts' = IF q \in closed THEN prompts ELSE Append(RemoveFirst(prompts, q), q)
OpenPrompt(s) ==
    /\ scan[s].at = "prompting"
    /\ Prompt(scan[s].open)
    /\ scan' = [scan EXCEPT ![s].at = "recording"]
    /\ UNCHANGED <<uvars, events, waiting, answers, delivery, watermark, told, closed, pending>>

\* completeNotificationDelivery.
Record(s) ==
    /\ scan[s].at = "recording"
    /\ delivery' = [delivery EXCEPT ![Event(s)] = "sent"]
    /\ watermark' = Event(s)
    /\ Skip(s)
    /\ UNCHANGED <<uvars, events, waiting, answers, told, prompts, closed, pending>>

InHand(e) == \E s \in Scanners : scan[s].at \in {"sending", "prompting", "recording"} /\ Event(s) = e

BecomeStale(e) ==
    /\ delivery[e] = "sending" /\ ~InHand(e)
    /\ delivery' = [delivery EXCEPT ![e] = "stale"]
    /\ UNCHANGED <<uvars, events, waiting, answers, watermark, told, prompts, closed, pending, scan>>

-----------------------------------------------------------------------------
(* The handler of a text *)

Tell == Steps("tell")
\* hasRecordedTelegramAnswer, by the message an answer came with.
Recorded_Never(q, b) == FALSE
Recorded(q, b) == answers[q][b] > 0

\* recordHumanAnswer is a comment and a status, each of its own.
Answering(q, b) ==
    IF Recorded(q, b) THEN <<>> ELSE <<Step("comment", b, q), Step("resume", 0, q)>>

LatestPending == Latest({u \in Updates : pending[u].status \in {"pending", "executing"}})

\* handleActiveTaskQuestionPromptReply takes every text while a prompt is open,
\* a yes as well; handleResolvedAnswerAiQuestion; handleApproveAction.
Plan(u, b) ==
    IF prompts # <<>>
    THEN LET q == Last(prompts) IN
         IF IsAnswered(q) /\ ~Recorded(q, b) THEN Tell
         ELSE (IF Confirm THEN <<Step("propose", u, q)>> ELSE Answering(q, b))
                \o <<Step("close", 0, q)>> \o Tell
    ELSE IF b # "yes" \/ LatestPending = 0 THEN Tell
    ELSE (IF pending[LatestPending].status = "pending" THEN <<Step("take", LatestPending, 0)>> ELSE <<>>)
           \o <<Step("execute", LatestPending, 0)>>

Handle(h) ==
    /\ At(h, "handle")
    /\ \A g \in Handlers : Busy(g) => Now(g).do \in {"handle", "mark", "advance"}
    /\ Then(h, Plan(hand[h].update, inbox[hand[h].update]))
    /\ Same /\ UNCHANGED nvars

Propose(h) ==
    /\ At(h, "propose")
    /\ pending' = [pending EXCEPT ![Now(h).id] =
                     [status |-> "pending", of |-> Now(h).key, body |-> inbox[hand[h].update]]]
    /\ Pop(h) /\ Same
    /\ UNCHANGED <<events, waiting, answers, delivery, watermark, told, prompts, closed, scan>>

\* consumeActiveTaskQuestionPrompt.
Close(h) ==
    /\ At(h, "close")
    /\ prompts' = RemoveFirst(prompts, Now(h).key)
    /\ closed' = closed \cup {Now(h).key}
    /\ Pop(h) /\ Same
    /\ UNCHANGED <<events, waiting, answers, delivery, watermark, told, pending, scan>>

\* consumePendingAction, completeAnswerAiQuestionAction, completePendingAction.
Settle(h, do, status) ==
    /\ At(h, do)
    /\ pending' = [pending EXCEPT ![Now(h).id].status = status]
    /\ Pop(h) /\ Same
    /\ UNCHANGED <<events, waiting, answers, delivery, watermark, told, prompts, closed, scan>>

Execute(h) ==
    /\ At(h, "execute")
    /\ LET p == pending[Now(h).id] IN
       Then(h, Answering(p.of, p.body) \o <<Step("finish", Now(h).id, 0)>> \o Tell)
    /\ Same /\ UNCHANGED nvars

Comment(h) ==
    /\ At(h, "comment")
    /\ answers' = [answers EXCEPT ![Now(h).key][Now(h).id] = IF @ < 2 THEN @ + 1 ELSE @]
    /\ Pop(h) /\ Same
    /\ UNCHANGED <<events, waiting, delivery, watermark, told, prompts, closed, pending, scan>>

Resume(h) ==
    /\ At(h, "resume")
    /\ waiting' = FALSE
    /\ Pop(h) /\ Same
    /\ UNCHANGED <<events, answers, delivery, watermark, told, prompts, closed, pending, scan>>

Inform(h) == At(h, "tell") /\ Pop(h) /\ Same /\ UNCHANGED nvars
FailToTell(h) == At(h, "tell") /\ Fail(h) /\ UNCHANGED nvars

-----------------------------------------------------------------------------
(* The worker, people and a process that dies *)

Happen(kind) ==
    /\ Len(events) < MaxEvents
    /\ kind = "asks" => ~waiting
    /\ events' = Append(events, kind)
    /\ waiting' = (waiting \/ kind = "asks")
    /\ UNCHANGED <<uvars, answers, delivery, watermark, told, prompts, closed, pending, scan>>

\* The question is answered through the task API.
AnswerElsewhere ==
    /\ waiting /\ OpenQuestions # {}
    /\ answers' = [answers EXCEPT ![Latest(OpenQuestions)]["elsewhere"] = 1]
    /\ waiting' = FALSE
    /\ UNCHANGED <<uvars, events, delivery, watermark, told, prompts, closed, pending, scan>>

\* subscribeConversationToTask, once more.
Resubscribe ==
    /\ watermark # 0
    /\ watermark' = 0
    /\ UNCHANGED <<uvars, events, waiting, answers, delivery, told, prompts, closed, pending, scan>>

SaySomething == (\E b \in Bodies \ {"elsewhere"} : Arrive(b)) /\ UNCHANGED nvars

\* One process dies, with its timer and perhaps with the handlers.
CrashOne ==
    /\ Crashes /\ faults < MaxFaults
    /\ faults' = faults + 1
    /\ hand' \in {hand, [h \in Handlers |-> Idle]}
    /\ \E s \in Scanners : scan' = [scan EXCEPT ![s] = NoScan]
    /\ UNCHANGED <<inbox, offset, acked, processed, events, waiting, answers, delivery, watermark, told,
                   prompts, closed, pending>>

Init ==
    /\ inbox = <<>>
    /\ UpdatesInit
    /\ events = <<>> /\ waiting = FALSE
    /\ answers = [q \in Events |-> [b \in Bodies |-> 0]]
    /\ delivery = [e \in Events |-> "none"]
    /\ watermark = 0
    /\ told = [e \in Events |-> 0]
    /\ prompts = <<>> /\ closed = {}
    /\ pending = [u \in Updates |-> [status |-> "none", of |-> 0, body |-> "none"]]
    /\ scan = [s \in Scanners |-> NoScan]

Scan(s) == StartScan(s) \/ ReadTask(s) \/ Reserve(s) \/ Send(s) \/ OpenPrompt(s) \/ Record(s)

Work(h) ==
    \/ (Receive(h) \/ Mark(h) \/ Advance(h)) /\ UNCHANGED nvars
    \/ Handle(h) \/ Propose(h) \/ Close(h) \/ Settle(h, "take", "executing") \/ Execute(h)
    \/ Comment(h) \/ Resume(h) \/ Settle(h, "finish", "completed") \/ Inform(h)

Next ==
    \/ \E s \in Scanners : Scan(s) \/ FailToSend(s)
    \/ \E e \in Events : BecomeStale(e)
    \/ \E h \in Handlers : Work(h) \/ FailToTell(h)
    \/ \E kind \in {"plain", "asks"} : Happen(kind)
    \/ AnswerElsewhere \/ Resubscribe \/ SaySomething \/ CrashOne

Spec == Init /\ [][Next]_vars

-----------------------------------------------------------------------------
(* Properties *)

TypeOK ==
    /\ events \in Seq({"plain", "asks"}) /\ Len(events) <= MaxEvents
    /\ waiting \in BOOLEAN
    /\ answers \in [Events -> [Bodies -> 0..2]]
    /\ delivery \in [Events -> {"none", "sending", "stale", "sent"}]
    /\ watermark \in 0..Len(events)
    /\ told \in [Events -> 0..2]
    /\ ToSet(prompts) \cup closed \subseteq 1..Len(events)
    /\ \A u \in Updates : pending[u].status \in {"none", "pending", "executing", "completed"}

\* What is recorded as sent is not sent again: not by a second process, a later
\* scan or one that began before, nor after a new subscription that starts from
\* the first event (reserveNotificationDelivery).
RepeatsNothing == \A e \in Events : delivery[e] = "sent" => told'[e] = told[e]
RecordedIsNotRepeated == [][RepeatsNothing]_vars

\* A prompt that was answered does not take texts again, although the notice of
\* its question is sent again after a crash (upsertActiveTaskQuestionPrompt).
AnsweredPromptStays == closed \cap ToSet(prompts) = {}

\* An answer is recorded once, however often the reply or the yes is delivered.
AnswerRecordedOnce == \A q \in Events, b \in Bodies : answers[q][b] <= 1
=============================================================================
