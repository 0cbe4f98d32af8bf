--------------------------- MODULE TelegramTurns ----------------------------
(***************************************************************************)
(* Questions to Codex in one conversation of the Telegram assistant        *)
(* (src/domain/telegramAssistant/service.ts): a question starts a turn,    *)
(* which is answered in the background once its update is marked; what     *)
(* people write meanwhile is queued, and taken up after the answer.        *)
(*                                                                         *)
(* Project questions and competitor research are one kind here: they       *)
(* differ in what they ask of Codex, not in what becomes of the turn.      *)
(* Turns, queued messages and the job in the background are numbered by    *)
(* the update they come from.                                              *)
(***************************************************************************)
EXTENDS TelegramUpdates, FiniteSets

CONSTANTS
    Outcomes,    \* of a call of Codex: "answer", "nothing", "error"
    MaxQueued    \* maxQueuedMessagesPerChat

VARIABLES
    turn,        \* telegram_assistant_turns
    queued,      \* telegram_assistant_queued_messages
    job,         \* work that was left to the background
    answered     \* answers sent, per question

tvars == <<turn, queued, job, answered>>
vars  == <<uvars, tvars>>

Updates == 1..MaxUpdates

\* A job answers message `on`, then takes up queued messages, `taken` so far.
NoJob == [at |-> "none", on |-> 0, more |-> FALSE, taken |-> 0]
Job == [at    : {"none", "waiting", "thinking", "sending", "looking", "locking", "starting", "deleting"},
        on    : 0..MaxUpdates,
        more  : BOOLEAN,      \* whether it goes on to queued messages
        taken : 0..MaxQueued]

Running == {u \in Updates : turn[u] = "running"}
Least(S) == CHOOSE x \in S : \A y \in S : x <= y

\* The conversation lock: held by a handler past its first step, and by a job
\* between its look at the active turn and the removal of the message.
Talking(h) == Busy(h) /\ Now(h).do \notin {"handle", "mark", "advance"}
Locked == \/ \E h \in Handlers : Talking(h)
          \/ \E u \in Updates : job[u].at \in {"starting", "deleting"}

Same == UNCHANGED <<inbox, offset, acked, processed, faults>>

-----------------------------------------------------------------------------
(* The handler of an update *)

Tell == Steps("tell")

\* handleMessageUnderConversationLock.
Plan(u, said) ==
    IF Running # {}
    THEN IF said = "no" THEN <<Step("cancel", Least(Running), 0)>>
         ELSE <<Step("enqueue", u, 0)>>
    ELSE IF said = "question" THEN <<Step("start", u, 0)>> ELSE Tell

Handle(h) ==
    /\ At(h, "handle")
    /\ ~Locked
    /\ Then(h, Plan(hand[h].update, inbox[hand[h].update]))
    /\ Same /\ UNCHANGED tvars

Enqueue(h) ==
    /\ At(h, "enqueue")
    /\ queued' = queued \cup {Now(h).id}
    /\ Pop(h) /\ Same /\ UNCHANGED <<turn, job, answered>>

\* prepareProjectQuestionTurn: the row is written over.
StartTurn(h) ==
    /\ At(h, "start")
    /\ turn' = [turn EXCEPT ![Now(h).id] = "running"]
    /\ job' = [job EXCEPT ![Now(h).id] = [NoJob EXCEPT !.at = "waiting", !.on = Now(h).id, !.more = TRUE]]
    /\ Pop(h) /\ Same /\ UNCHANGED <<queued, answered>>

\* cancelActiveAssistantTurn.
CancelTurn(h) ==
    /\ At(h, "cancel")
    /\ IF turn[Now(h).id] = "running"
       THEN turn' = [turn EXCEPT ![Now(h).id] = "cancelled"] /\ Then(h, Steps("clear") \o Tell)
       ELSE UNCHANGED turn /\ Pop(h)
    /\ Same /\ UNCHANGED <<queued, job, answered>>

ClearQueue(h) ==
    /\ At(h, "clear")
    /\ queued' = {}
    /\ Pop(h) /\ Same /\ UNCHANGED <<turn, job, answered>>

Inform(h) ==
    /\ At(h, "tell")
    /\ Pop(h) /\ Same /\ UNCHANGED tvars

FailToTell(h) == At(h, "tell") /\ Fail(h) /\ UNCHANGED tvars

-----------------------------------------------------------------------------
(* The job in the background *)

\* runAfterConversationLockInBackground, after markProcessedAndAdvance.
Launch(u) ==
    /\ job[u].at = "waiting"
    /\ \A h \in Handlers : hand[h].update # u
    /\ job' = [job EXCEPT ![u].at = "thinking"]
    /\ UNCHANGED <<uvars, turn, queued, answered>>

End(u) == job' = [job EXCEPT ![u] = NoJob]

\* completeAssistantTurnIfRunning with what Codex made of the question; nobody is
\* told when the turn is not running any more.
CompleteIfRunning_Always(u, status) ==
    /\ turn' = [turn EXCEPT ![u] = status]
    /\ TRUE
CompleteIfRunning(u, status) ==
    /\ turn[u] = "running"
    /\ turn' = [turn EXCEPT ![u] = status]

\* The catch of runProjectQuestionTurn.
Failed_Forgotten(u) == turn' = turn
Failed(u) == turn' = IF turn[u] = "running" THEN [turn EXCEPT ![u] = "failed"] ELSE turn

Think(u) ==
    /\ job[u].at = "thinking"
    /\ \E outcome \in Outcomes :
         IF outcome = "error" THEN Failed(job[u].on) /\ End(u)
         ELSE \/ /\ CompleteIfRunning(job[u].on, IF outcome = "answer" THEN "completed" ELSE "failed")
                 /\ job' = [job EXCEPT ![u].at = "sending",
                                       ![u].more = outcome = "answer" \/ job[u].on # u]
              \/ /\ turn[job[u].on] # "running"
                 /\ UNCHANGED turn
                 /\ IF job[u].on = u THEN End(u) ELSE job' = [job EXCEPT ![u].at = "looking"]
    /\ UNCHANGED <<uvars, queued, answered>>

Answer(u) ==
    /\ job[u].at = "sending"
    /\ answered' = [answered EXCEPT ![job[u].on] = IF @ < 2 THEN @ + 1 ELSE @]
    /\ IF job[u].more THEN job' = [job EXCEPT ![u].at = "looking"] ELSE End(u)
    /\ UNCHANGED <<uvars, turn, queued>>

\* The answer cannot be sent: the error ends the job.
FailToAnswer(u) ==
    /\ job[u].at = "sending"
    /\ faults < MaxFaults
    /\ faults' = faults + 1
    /\ End(u)
    /\ UNCHANGED <<inbox, offset, acked, processed, hand, turn, queued, answered>>

\* drainQueuedMessages: nextQueuedMessage.
Look_Unlimited(u) ==
    /\ job[u].at = "looking"
    /\ IF queued = {} THEN End(u)
       ELSE job' = [job EXCEPT ![u].at = "locking", ![u].on = Least(queued), ![u].taken = @ + 1]
    /\ UNCHANGED <<uvars, turn, queued, answered>>
Look(u) ==
    /\ job[u].at = "looking"
    /\ IF queued = {} \/ job[u].taken = MaxQueued THEN End(u)
       ELSE job' = [job EXCEPT ![u].at = "locking", ![u].on = Least(queued), ![u].taken = @ + 1]
    /\ UNCHANGED <<uvars, turn, queued, answered>>

\* Under the lock: the active turn, and the message again.
Active_Ignored == FALSE
Active == Running # {}
Accept(u) ==
    /\ job[u].at = "locking"
    /\ ~Locked
    /\ IF Active \/ job[u].on \notin queued THEN End(u)
       ELSE job' = [job EXCEPT ![u].at = IF inbox[job[u].on] = "question" THEN "starting" ELSE "deleting"]
    /\ UNCHANGED <<uvars, turn, queued, answered>>

StartQueued(u) ==
    /\ job[u].at = "starting"
    /\ turn' = [turn EXCEPT ![job[u].on] = "running"]
    /\ job' = [job EXCEPT ![u].at = "deleting"]
    /\ UNCHANGED <<uvars, queued, answered>>

DeleteQueued(u) ==
    /\ job[u].at = "deleting"
    /\ queued' = queued \ {job[u].on}
    /\ job' = [job EXCEPT ![u].at = IF turn[job[u].on] = "running" THEN "thinking" ELSE "looking"]
    /\ UNCHANGED <<uvars, turn, answered>>

-----------------------------------------------------------------------------

SaySomething == (\E said \in {"question", "other", "no"} : Arrive(said)) /\ UNCHANGED tvars

\* A crash takes the jobs with it.
CrashAll == Crash /\ job' = [u \in Updates |-> NoJob] /\ UNCHANGED <<turn, queued, answered>>

Init ==
    /\ inbox = <<>>
    /\ UpdatesInit
    /\ turn = [u \in Updates |-> "none"]
    /\ queued = {}
    /\ job = [u \in Updates |-> NoJob]
    /\ answered = [u \in Updates |-> 0]

Work(h) ==
    \/ (Receive(h) \/ Mark(h) \/ Advance(h)) /\ UNCHANGED tvars
    \/ Handle(h) \/ Enqueue(h) \/ StartTurn(h) \/ CancelTurn(h) \/ ClearQueue(h) \/ Inform(h)

InBackground(u) ==
    \/ Launch(u) \/ Think(u) \/ Answer(u) \/ Look(u) \/ Accept(u)
    \/ StartQueued(u) \/ DeleteQueued(u)

Next ==
    \/ SaySomething \/ CrashAll
    \/ \E h \in Handlers : Work(h) \/ FailToTell(h)
    \/ \E u \in Updates : InBackground(u) \/ FailToAnswer(u)

Fairness == /\ \A h \in Handlers : WF_vars(Work(h))
            /\ \A u \in Updates : WF_vars(InBackground(u))

Spec     == Init /\ [][Next]_vars
FairSpec == Spec /\ Fairness

-----------------------------------------------------------------------------
(* Properties *)

TypeOK ==
    /\ inbox \in Seq({"question", "other", "no"}) /\ Len(inbox) <= MaxUpdates
    /\ turn \in [Updates -> {"none", "running", "completed", "failed", "cancelled"}]
    /\ queued \subseteq 1..Len(inbox)
    /\ job \in [Updates -> Job]
    /\ answered \in [Updates -> 0..2]

\* docs/superpowers/specs/2026-05-29-telegram-assistant-design.md: only one turn
\* of a conversation runs at a time, whether a handler starts it or a job does.
OneTurnAtATime == Cardinality(Running) <= 1

\* Without crashes a turn that a person cancelled is not answered any more, and not
\* completed or failed in name, although Codex goes on with it: what it made of the
\* question counts only for a turn that still runs.
StaysSilent ==
    \A u \in Updates : turn[u] = "cancelled" =>
       turn'[u] \notin {"completed", "failed"} /\ answered'[u] = answered[u]
CancelledIsSilent == [][StaysSilent]_vars

\* Without crashes a question is answered once, although its message may have
\* been queued and its turn taken up by another question's job.
AnsweredOnce == \A u \in Updates : answered[u] <= 1

\* Without crashes a turn ends, and the conversation with it is free again.
TurnsEnd == \A u \in Updates : turn[u] = "running" ~> turn[u] # "running"
=============================================================================
