-------------------------- MODULE TelegramUpdates ---------------------------
(***************************************************************************)
(* How an update of the Telegram bot is received and acknowledged          *)
(* (src/integrations/telegram/poller.ts, the webhook route of              *)
(* src/observability/server.ts, and the frame of handleUpdate in           *)
(* src/domain/telegramAssistant/service.ts).  What an update does is left  *)
(* to the modules that extend this one: here a handler is a list of steps, *)
(* one for each await whose effect outlives the process, and it may fail   *)
(* or die between any two of them.                                         *)
(*                                                                         *)
(* With Polling one process asks for the updates from its offset on and    *)
(* handles them one by one.  Otherwise Telegram calls the webhook, again   *)
(* and in any order until it is answered, and calls run side by side.      *)
(*                                                                         *)
(* A definition here or in those modules whose name has a suffix after an  *)
(* underscore is a seeded fault of the definition below it; no             *)
(* specification uses it.                                                  *)
(***************************************************************************)
EXTENDS Naturals, Sequences

CONSTANTS
    Handlers,     \* calls in progress at a time: one when polling
    Polling,      \* TELEGRAM_MODE
    Crashes,      \* whether the process may die
    MaxUpdates,   \* bound: updates in all
    MaxFaults     \* bound: failures and crashes in all

VARIABLES
    inbox,        \* the updates so far: what people did, in order
    offset,       \* telegram_assistant_offsets: the first update not yet acknowledged
    acked,        \* webhook calls that were answered
    processed,    \* telegram_assistant_processed_updates
    hand,         \* what each handler is at
    faults        \* failures and crashes so far

uvars == <<inbox, offset, acked, processed, hand, faults>>

\* A step, the pending action and the draft or task it is about.
Step(do, id, key) == [do |-> do, id |-> id, key |-> key]
Steps(do)         == <<Step(do, 0, 0)>>

Idle    == [update |-> 0, todo |-> <<>>]
Busy(h) == hand[h].update # 0
Now(h)  == Head(hand[h].todo)
At(h, do) == Busy(h) /\ Now(h).do = do

\* The handler goes on, the steps `first` before those it still has.
Then(h, first) == hand' = [hand EXCEPT ![h].todo = first \o Tail(@)]
Pop(h) == Then(h, <<>>)

\* The steps after the conversation is done with: markProcessedAndAdvance.
Closing(h) == LET n == Len(hand[h].todo) IN SubSeq(hand[h].todo, n - 1, n)

UpdatesInit ==
    /\ offset = 1 /\ acked = {} /\ processed = {}
    /\ hand = [h \in Handlers |-> Idle]
    /\ faults = 0

Arrive(content) ==
    /\ Len(inbox) < MaxUpdates
    /\ inbox' = Append(inbox, content)
    /\ UNCHANGED <<offset, acked, processed, hand, faults>>

\* getUpdates or a webhook call.  The advisory lock of an update keeps a second
\* delivery of it waiting.
Due(u) ==
    IF Polling THEN u = offset /\ \A h \in Handlers : ~Busy(h)
               ELSE u \notin acked /\ \A h \in Handlers : hand[h].update # u

Receive(h) ==
    /\ ~Busy(h)
    /\ \E u \in 1..Len(inbox) :
         /\ Due(u)
         /\ hand' = [hand EXCEPT ![h] =
              [update |-> u,
               todo |-> IF u \in processed THEN Steps("advance")
                        ELSE Steps("handle") \o Steps("mark") \o Steps("advance")]]
    /\ UNCHANGED <<inbox, offset, acked, processed, faults>>

Mark(h) ==
    /\ At(h, "mark")
    /\ processed' = processed \cup {hand[h].update}
    /\ Pop(h)
    /\ UNCHANGED <<inbox, offset, acked, faults>>

\* saveOffsetAfter, and the answer to a webhook call.
Advance(h) ==
    /\ At(h, "advance")
    /\ offset' = IF offset > hand[h].update THEN offset ELSE hand[h].update + 1
    /\ acked' = IF Polling THEN acked ELSE acked \cup {hand[h].update}
    /\ hand' = [hand EXCEPT ![h] = Idle]
    /\ UNCHANGED <<inbox, processed, faults>>

\* A call to Telegram fails: the error is thrown, the update is not marked.
Fail(h) ==
    /\ faults < MaxFaults
    /\ faults' = faults + 1
    /\ hand' = [hand EXCEPT ![h] = Idle]
    /\ UNCHANGED <<inbox, offset, acked, processed>>

\* The process dies.
Crash ==
    /\ Crashes
    /\ faults < MaxFaults
    /\ \E h \in Handlers : Busy(h)
    /\ faults' = faults + 1
    /\ hand' = [h \in Handlers |-> Idle]
    /\ UNCHANGED <<inbox, offset, acked, processed>>
=============================================================================
