-------------------------- MODULE TelegramActions ---------------------------
(***************************************************************************)
(* Task requests in the Telegram assistant: the draft that a person        *)
(* completes, the pending action that waits for a yes, the owner's         *)
(* approval of risky or external requests, and the task they become        *)
(* (src/domain/telegramAssistant/service.ts, postgresStore.ts).            *)
(*                                                                         *)
(* An update names its draft and its pending action, so both are numbered  *)
(* by updates; the owner's copy of action a is number MaxUpdates + a.      *)
(* Times serve only to find the latest of several, so drafts and actions   *)
(* are kept in the order of their last change.  Expiry is left out, and so *)
(* are a request that needs an owner where none is configured, which is    *)
(* cancelled with its draft, and the queued messages that a no cancels.    *)
(***************************************************************************)
EXTENDS TelegramUpdates, FiniteSets, SequencesExt

CONSTANTS
    Says,         \* <<who, what>>: what people may do
    DailyLimit    \* userTaskCreationDailyLimit

VARIABLES
    session,      \* telegram_executable_task_draft_sessions
    action,       \* telegram_assistant_pending_actions
    latest,       \* active drafts by updated_at, then open actions by updated_at
    task,         \* the task of each external key
    shown         \* cards that were sent, and tasks whose creation was told

avars == <<session, action, latest, task, shown>>
vars  == <<uvars, avars>>

Updates == 1..MaxUpdates
ActionIds == 1..(2 * MaxUpdates)
OwnersCopy(a) == MaxUpdates + a

ActiveDraft == {"collecting", "awaiting_user_confirmation", "awaiting_owner_approval"}
Session == [status : {"none", "completed", "cancelled"} \cup ActiveDraft,
            mode   : {"auto_ready", "owner_approval"}]
Open   == {"pending", "executing"}
Action == [status : {"none", "completed", "cancelled"} \cup Open,
           conv   : {"user", "owner"},
           key    : 0..MaxUpdates]

Speaker(h) == inbox[hand[h].update].from
Said(h)    == inbox[hand[h].update]

\* A sequence by time, each element in it once.
Forget(seq, x) ==
    IF x \in ToSet(seq) THEN RemoveAt(seq, CHOOSE i \in DOMAIN seq : seq[i] = x) ELSE seq
Touch(seq, x) == Append(Forget(seq, x), x)
LatestOf(seq, S) ==
    LET at == {i \in DOMAIN seq : seq[i] \in S} IN IF at = {} THEN 0 ELSE seq[Max(at)]

\* getActiveExecutableTaskDraftSession, when it waits for a clarification.
Collecting(c) ==
    LET s == LatestOf(latest.drafts, {u \in DOMAIN inbox : inbox[u].from = c}) IN
    IF s # 0 /\ session[s].status = "collecting" THEN s ELSE 0

\* findLatestConfirmableAction.
LatestAction(c, statuses) ==
    LatestOf(latest.actions, {a \in ActionIds : action[a].conv = c /\ action[a].status \in statuses})

\* isTaskCreationRateLimited: actions of the person, whatever became of them.
RateLimited(c) ==
    Cardinality({a \in ActionIds : action[a].status # "none" /\ action[a].conv = c}) >= DailyLimit

-----------------------------------------------------------------------------
(* What an update calls for: the steps of its handler *)

Tell     == Steps("tell")
Show(a)  == <<Step("show", a, 0)>>
Propose(a, s) == <<Step("propose", a, s)>> \o Show(a)

\* handleCreateTaskDraft.
Drafting(c, u, what) ==
    IF RateLimited(c) THEN Tell
    ELSE IF what = "vague" THEN <<Step("collect", 0, u)>> \o Tell
    ELSE <<Step("complete_draft", 0, u)>> \o Propose(u, u)

\* handleExecutableDraftClarification: the answer settles the question or not.
Clarifying(u, s, what) ==
    IF what = "vague" THEN <<Step("collect", 0, s)>> \o Tell
    ELSE <<Step("complete_draft", 0, s)>> \o Propose(u, s)

\* completeConfirmedAction of an action, consumed first if it is pending.
Confirming_PendingOnly(a) ==
    IF action[a].status = "pending" THEN <<Step("consume", a, 0), Step("execute", a, 0)>>
    ELSE Tell
Confirming(a) ==
    IF action[a].status = "pending" THEN <<Step("consume", a, 0), Step("execute", a, 0)>>
    ELSE <<Step("execute", a, 0)>>

\* handleApproveAction, handleRejectAction.
Approving(c) ==
    LET a == LatestAction(c, Open) IN IF a = 0 THEN Tell ELSE Confirming(a)

Cancelling(a) == <<Step("cancel", a, 0), Step("drop", 0, action[a].key)>> \o Tell

Rejecting(c) ==
    LET a == LatestAction(c, {"pending"})
        s == Collecting(c) IN
    IF a # 0 THEN Cancelling(a)
    ELSE IF s # 0 THEN <<Step("drop", 0, s)>> \o Tell
    ELSE Tell

\* handleBusinessCreateTaskDraftForOwnerApproval: the request of an outsider.
Asking_Again(u) ==
    IF RateLimited("owner") THEN Tell ELSE Propose(u, u)
Asking(u) ==
    IF RateLimited("owner") THEN Tell
    ELSE IF action[u].status = "none" THEN Propose(u, u)
    ELSE IF action[u].status = "pending" THEN Show(u)
    ELSE <<>>

\* handleConfirmCallback, handleCancelCallback.
PressingYes(a) ==
    CASE action[a].status = "pending"   -> <<Step("consume", a, 0)>> \o Tell \o <<Step("execute", a, 0)>>
      [] action[a].status = "executing" -> Tell \o <<Step("execute", a, 0)>>
      [] OTHER -> Tell
PressingNo(a) == IF action[a].status = "pending" THEN Cancelling(a) ELSE Tell

Plan(c, u, said) ==
    CASE said.what = "ask"     -> Asking(u)
      [] said.what = "yes"     -> Approving(c)
      [] said.what = "no"      -> Rejecting(c)
      [] said.what = "press"   -> PressingYes(said.id)
      [] said.what = "unpress" -> PressingNo(said.id)
      [] OTHER -> IF Collecting(c) # 0 THEN Clarifying(u, Collecting(c), said.what)
                  ELSE Drafting(c, u, said.what)

\* completeCreateTaskAction.
Creating(a) ==
    LET k == action[a].key IN
    <<Step("create", a, k), Step("ready", a, k), Step("finish", 0, k),
      Step("complete", a, 0), Step("subscribe", a, k)>> \o Tell

\* routeCreateTaskActionToOwnerApproval.
Routing(a) ==
    LET copy == action[OwnersCopy(a)].status IN
    IF copy = "none"
    THEN <<Step("hand_over", a, 0), Step("await_owner", 0, action[a].key), Step("complete", a, 0)>>
           \o Show(OwnersCopy(a)) \o Tell
    ELSE (IF copy = "pending" THEN Show(OwnersCopy(a)) ELSE <<>>)
           \o <<Step("complete", a, 0)>> \o Tell

NeedsOwner_Never(a, c) == FALSE
NeedsOwner(a, c) ==
    /\ c # "owner"
    /\ session[action[a].key].mode = "owner_approval"

-----------------------------------------------------------------------------
(* Steps *)

Talking(h) == Busy(h) /\ Now(h).do \notin {"handle", "mark", "advance"}

\* Under the lock of the conversation.
Handle(h) ==
    /\ At(h, "handle")
    /\ \A g \in Handlers \ {h} : ~(Talking(g) /\ Speaker(g) = Speaker(h))
    /\ Then(h, Plan(Speaker(h), hand[h].update, Said(h)))
    /\ UNCHANGED <<inbox, offset, acked, processed, faults, avars>>

Same == UNCHANGED <<inbox, offset, acked, processed, faults>>

SetSession(s, status) ==
    /\ session' = [session EXCEPT ![s].status = status]
    /\ latest' = [latest EXCEPT !.drafts = IF status \in ActiveDraft THEN Touch(@, s) ELSE Forget(@, s)]

SetAction(a, status) ==
    /\ action' = [action EXCEPT ![a].status = status]
    /\ latest' = [latest EXCEPT !.actions = IF status \in Open THEN Touch(@, a) ELSE Forget(@, a)]

\* upsertExecutableTaskDraftSession with what the person wrote.  Risk is that of
\* the first text (buildTelegramExecutableTaskDraft, applyExecutableDraftAnswer).
Write(h) ==
    /\ At(h, "collect") \/ At(h, "complete_draft")
    /\ LET s == Now(h).key IN
       /\ session' = [session EXCEPT ![s] =
            [status |-> IF At(h, "collect") THEN "collecting" ELSE "awaiting_user_confirmation",
             mode   |-> IF s # hand[h].update THEN @.mode
                        ELSE IF Said(h).what = "risky" THEN "owner_approval" ELSE "auto_ready"]]
       /\ latest' = [latest EXCEPT !.drafts = Touch(@, s)]
    /\ Pop(h) /\ Same /\ UNCHANGED <<action, task, shown>>

\* completeExecutableTaskDraftSession; an outsider's request has no draft.
Settle(h) ==
    /\ At(h, "drop") \/ At(h, "finish") \/ At(h, "await_owner")
    /\ LET s == Now(h).key IN
       IF session[s].status = "none" THEN UNCHANGED <<session, latest>>
       ELSE SetSession(s, CASE At(h, "drop")   -> "cancelled"
                            [] At(h, "finish") -> "completed"
                            [] OTHER           -> "awaiting_owner_approval")
    /\ Pop(h) /\ Same /\ UNCHANGED <<action, task, shown>>

\* upsertPendingAction, over whatever is there.
ProposeAction(h) ==
    /\ At(h, "propose") \/ At(h, "hand_over")
    /\ LET a == IF At(h, "propose") THEN Now(h).id ELSE OwnersCopy(Now(h).id)
           k == IF At(h, "propose") THEN Now(h).key ELSE action[Now(h).id].key
       IN  /\ action' = [action EXCEPT ![a] =
                [status |-> "pending",
                 conv |-> IF At(h, "hand_over") \/ Speaker(h) = "client" THEN "owner" ELSE Speaker(h),
                 key |-> k]]
           /\ latest' = [latest EXCEPT !.actions = Touch(@, a)]
    /\ Pop(h) /\ Same /\ UNCHANGED <<session, task, shown>>

\* consumePendingAction.
Consume(h) ==
    /\ At(h, "consume") \/ At(h, "cancel")
    /\ LET a == Now(h).id IN
       IF action[a].status = "pending"
       THEN /\ SetAction(a, IF At(h, "consume") THEN "executing" ELSE "cancelled")
            /\ Pop(h)
       ELSE /\ hand' = [hand EXCEPT ![h].todo = Tell \o Closing(h)]
            /\ UNCHANGED <<action, latest>>
    /\ Same /\ UNCHANGED <<session, task, shown>>

Execute(h) ==
    /\ At(h, "execute")
    /\ LET a == Now(h).id IN
       Then(h, IF NeedsOwner(a, Speaker(h)) THEN Routing(a) ELSE Creating(a))
    /\ Same /\ UNCHANGED avars

\* findOrCreateTaskFromPendingAction, then ensureExecutableTaskReady.
CreateTask(h) ==
    /\ At(h, "create") \/ At(h, "ready")
    /\ task' = [task EXCEPT ![Now(h).key] =
         IF At(h, "create") THEN (IF @ = "none" THEN "new" ELSE @) ELSE "ready"]
    /\ Pop(h) /\ Same /\ UNCHANGED <<session, action, latest, shown>>

\* completePendingAction throws when the action was cancelled.
Complete(h) ==
    /\ At(h, "complete")
    /\ LET a == Now(h).id IN
       /\ action[a].status # "cancelled"
       /\ SetAction(a, "completed")
    /\ Pop(h) /\ Same /\ UNCHANGED <<session, task, shown>>

\* subscribeConversationToTask, and messages to people.
Inform(h) ==
    /\ \/ At(h, "tell") /\ shown' = shown
       \/ At(h, "show") /\ shown' = [shown EXCEPT !.cards = @ \cup {Now(h).id}]
       \/ At(h, "subscribe") /\ shown' = [shown EXCEPT !.subscribed = @ \cup {Now(h).key}]
    /\ Pop(h) /\ Same /\ UNCHANGED <<session, action, latest, task>>

FailToSend(h) ==
    /\ At(h, "tell") \/ At(h, "show")
    /\ Fail(h)
    /\ UNCHANGED avars

-----------------------------------------------------------------------------
(* People *)

Content == [from : {"user", "owner", "client"},
            what : {"easy", "risky", "vague", "ask", "yes", "no", "press", "unpress"},
            id   : 0..(2 * MaxUpdates)]

SaySomething ==
    /\ \E s \in Says :
         IF s[2] \in {"press", "unpress"}
         THEN \E a \in shown.cards : /\ action[a].conv = s[1]
                                     /\ Arrive([from |-> s[1], what |-> s[2], id |-> a])
         ELSE Arrive([from |-> s[1], what |-> s[2], id |-> 0])
    /\ UNCHANGED avars

Init ==
    /\ inbox = <<>>
    /\ UpdatesInit
    /\ session = [u \in Updates |-> [status |-> "none", mode |-> "auto_ready"]]
    /\ action = [a \in ActionIds |-> [status |-> "none", conv |-> "user", key |-> 0]]
    /\ latest = [drafts |-> <<>>, actions |-> <<>>]
    /\ task = [u \in Updates |-> "none"]
    /\ shown = [cards |-> {}, subscribed |-> {}]

Frame(h) == (Receive(h) \/ Mark(h) \/ Advance(h)) /\ UNCHANGED avars

Work(h) ==
    \/ Frame(h) \/ Handle(h) \/ Write(h) \/ Settle(h) \/ ProposeAction(h)
    \/ Consume(h) \/ Execute(h) \/ CreateTask(h) \/ Complete(h) \/ Inform(h)

Next ==
    \/ SaySomething
    \/ \E h \in Handlers : Work(h) \/ FailToSend(h)
    \/ Crash /\ UNCHANGED avars

Fairness == \A h \in Handlers : WF_vars(Work(h))

Spec     == Init /\ [][Next]_vars
FairSpec == Spec /\ Fairness

-----------------------------------------------------------------------------
(* Properties *)

TypeOK ==
    /\ inbox \in Seq(Content) /\ Len(inbox) <= MaxUpdates
    /\ offset \in 1..(MaxUpdates + 1)
    /\ acked \subseteq Updates /\ processed \subseteq Updates
    /\ \A h \in Handlers : hand[h].update \in 0..Len(inbox)
    /\ session \in [Updates -> Session]
    /\ action \in [ActionIds -> Action]
    /\ ToSet(latest.drafts) = {s \in Updates : session[s].status \in ActiveDraft}
    /\ ToSet(latest.actions) = {a \in ActionIds : action[a].status \in Open}
    /\ task \in [Updates -> {"none", "new", "ready"}]
    /\ shown.cards \subseteq ActionIds /\ shown.subscribed \subseteq Updates
    /\ faults \in 0..MaxFaults

\* A task exists only because somebody who may say yes to it did, and nobody who
\* said no is overruled: some action of it is executing or completed, and that
\* one is the owner's when the request was classified as risky or came from an
\* outsider (completeCreateTaskAction).  It is for polling, where an update is
\* handled again only before the next one.
TaskIsApproved ==
    \A k \in Updates : task[k] # "none" =>
       \E a \in ActionIds :
          /\ action[a].key = k
          /\ action[a].status \in {"executing", "completed"}
          /\ session[k].mode = "owner_approval" \/ inbox[k].from = "client"
                => action[a].conv = "owner"

\* An action that the owner was asked about is asked about once: a request that
\* is delivered or confirmed again does not reopen it
\* (handleBusinessCreateTaskDraftForOwnerApproval, routeCreateTaskActionToOwnerApproval).
KeepsDecided ==
    \A a \in ActionIds :
       /\ a > MaxUpdates \/ (a <= Len(inbox) /\ inbox[a].from = "client")
       /\ action[a].status \in {"completed", "cancelled"}
       => action'[a].status = action[a].status
DecidedStays == [][KeepsDecided]_vars

\* A yes that was taken up is carried out: the action is completed, by its task
\* or by its hand-over to the owner, although its handler failed or died and the
\* retry finds it executing (handleApproveAction, handleConfirmCallback).
ApprovedIsDone ==
    \A a \in ActionIds : action[a].status = "executing" ~> action[a].status = "completed"
=============================================================================
