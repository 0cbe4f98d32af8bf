---------------------------- MODULE TelegramTwin ----------------------------
(***************************************************************************)
(* The digital twin of the Telegram assistant: it answers a business chat  *)
(* in its owner's name (src/domain/telegramAssistant/service.ts,           *)
(* postgresStore.ts, profileAutomation.ts).  One chat, whose session an    *)
(* administrator may pause or reset, and one business connection, which    *)
(* the owner may switch off and on.                                        *)
(*                                                                         *)
(* A turn is numbered by the update it comes from; messages have keys of   *)
(* their own, so that one delivered twice is recognised.                   *)
(***************************************************************************)
EXTENDS TelegramUpdates, FiniteSets

CONSTANTS
    Messages,    \* keys of inbound messages
    Admin        \* what an administrator does: "pause", "reset"

VARIABLES
    connection,  \* telegram_profile_automation_connections
    session,     \* telegram_digital_twin_sessions: its status
    turn,        \* telegram_digital_twin_turns, by update
    heard,       \* inbound rows of telegram_digital_twin_messages
    reply,       \* delivery status of the outbound row, by message
    sent,        \* replies that reached the chat, by message
    queued,      \* updates among telegram_assistant_queued_messages
    job          \* what was left to the background, by update

wvars == <<connection, session, turn, heard, reply, sent, queued, job>>
vars  == <<uvars, wvars>>

Updates == 1..MaxUpdates

Delivery == {"none", "generating", "generated", "sending", "sent",
             "skipped", "send_failed", "unknown_after_send_attempt"}

NoJob == [at |-> "none", on |-> 0]
Job == [at : {"none", "waiting", "thinking", "checking", "attempting", "sending", "recording",
              "completing", "restoring", "looking", "accepting", "beginning", "noting",
              "reserving", "deleting"},
        on : 0..MaxUpdates]

Message(u) == inbox[u].of
Running == {u \in Updates : turn[u] = "running"}
Least(S) == CHOOSE x \in S : \A y \in S : x <= y

Talking(h) == Busy(h) /\ Now(h).do \notin {"handle", "mark", "advance"}
Locked == \/ \E h \in Handlers : Talking(h)
          \/ \E u \in Updates : job[u].at \in {"beginning", "noting", "reserving", "deleting"}

Same == UNCHANGED <<inbox, offset, acked, processed, faults>>

-----------------------------------------------------------------------------
(* What handler and job do alike *)

Steer(u, stage) == job' = [job EXCEPT ![u].at = stage]
End(u) == job' = [job EXCEPT ![u] = NoJob]

\* startDigitalTwinTurn: ON CONFLICT DO NOTHING, and one running turn a session.
CanStart(u) == turn[u] = "none" /\ Running = {}

\* reserveDigitalTwinMessage: ON CONFLICT (message_key) DO NOTHING.
Unheard(u) == Message(u) \notin heard
Unreplied(u) == reply[Message(u)] = "none"

Note(u) == heard' = heard \cup {Message(u)}

\* completeDigitalTwinTurnIfRunning.
CompleteTurn(u, status) ==
    turn' = IF turn[u] = "running" THEN [turn EXCEPT ![u] = status] ELSE turn

-----------------------------------------------------------------------------
(* The handler of an update *)

\* handleBusinessConnectionUpdate and upsertBusinessConnection.
Latest_Arrived(u) == TRUE
Latest(u) == u > connection.by

\* handleBusinessMessageUnderPolicy.
Handle(h) ==
    /\ At(h, "handle")
    /\ LET u == hand[h].update IN
       IF inbox[u].what = "message"
       THEN ~Locked /\ Then(h, IF connection.on THEN Steps("open") ELSE <<>>)
       ELSE Then(h, Steps("connect"))
    /\ Same /\ UNCHANGED wvars

Connect(h) ==
    /\ At(h, "connect")
    /\ LET u == hand[h].update IN
       connection' = IF Latest(u) THEN [on |-> inbox[u].what = "on", by |-> u] ELSE connection
    /\ Pop(h) /\ Same /\ UNCHANGED <<session, turn, heard, reply, sent, queued, job>>

\* prepareDigitalTwinSessionForInbound reads; a new session and one to be reset
\* are then written.
Open(h) ==
    /\ At(h, "open")
    /\ Then(h, IF session = "paused" THEN Steps("note")
               ELSE IF session = "active" THEN Steps("look")
               ELSE Steps("activate") \o Steps("look"))
    /\ Same /\ UNCHANGED wvars

Activate(h) ==
    /\ At(h, "activate")
    /\ session' = "active"
    /\ Pop(h) /\ Same /\ UNCHANGED <<connection, turn, heard, reply, sent, queued, job>>

\* The rest of prepareDigitalTwinTurn.
LookForTurn(h) ==
    /\ At(h, "look")
    /\ Then(h, IF Running # {} THEN Steps("enqueue")
               ELSE Steps("start") \o Steps("note") \o Steps("reserve"))
    /\ Same /\ UNCHANGED wvars

StartTurn(h) ==
    /\ At(h, "start")
    /\ LET u == hand[h].update IN
       IF CanStart(u) THEN turn' = [turn EXCEPT ![u] = "running"] /\ Pop(h)
       ELSE turn' = turn /\ hand' = [hand EXCEPT ![h].todo = Steps("enqueue") \o Closing(h)]
    /\ Same /\ UNCHANGED <<connection, session, heard, reply, sent, queued, job>>

Enqueue(h) ==
    /\ At(h, "enqueue")
    /\ queued' = queued \cup {hand[h].update}
    /\ Pop(h) /\ Same /\ UNCHANGED <<connection, session, turn, heard, reply, sent, job>>

\* A message heard before ends the turn; while paused there is none.
NoteInbound(h) ==
    /\ At(h, "note")
    /\ LET u == hand[h].update IN
       IF Unheard(u) \/ turn[u] # "running" THEN Note(u) /\ Pop(h)
       ELSE heard' = heard /\ hand' = [hand EXCEPT ![h].todo = Steps("drop") \o Closing(h)]
    /\ Same /\ UNCHANGED <<connection, session, turn, reply, sent, queued, job>>

ReserveOutbound(h) ==
    /\ At(h, "reserve")
    /\ LET u == hand[h].update IN
       IF Unreplied(u)
       THEN /\ reply' = [reply EXCEPT ![Message(u)] = "generating"]
            /\ job' = [job EXCEPT ![u] = [at |-> "waiting", on |-> u]]
            /\ Pop(h)
       ELSE Then(h, Steps("drop")) /\ UNCHANGED <<reply, job>>
    /\ Same /\ UNCHANGED <<connection, session, turn, heard, sent, queued>>

DropTurn(h) ==
    /\ At(h, "drop")
    /\ CompleteTurn(hand[h].update, "cancelled")
    /\ Pop(h) /\ Same /\ UNCHANGED <<connection, session, heard, reply, sent, queued, job>>

-----------------------------------------------------------------------------
(* runDigitalTwinTurn: job u answers the message of update job[u].on *)

SetReply(u, status) == reply' = [reply EXCEPT ![Message(job[u].on)] = status]

Launch(u) ==
    /\ job[u].at = "waiting"
    /\ \A h \in Handlers : hand[h].update # u
    /\ Steer(u, "thinking")
    /\ UNCHANGED <<uvars, connection, session, turn, heard, reply, sent, queued>>

Generate(u) ==
    /\ job[u].at = "thinking"
    /\ SetReply(u, "generated") /\ Steer(u, "checking")
    /\ UNCHANGED <<uvars, connection, session, turn, heard, sent, queued>>

\* Whether a reply is still allowed; the session is not looked at again.
CheckPolicy(u) ==
    /\ job[u].at = "checking"
    /\ IF connection.on THEN Steer(u, "attempting") /\ UNCHANGED <<reply, turn>>
       ELSE SetReply(u, "skipped") /\ CompleteTurn(job[u].on, "cancelled") /\ End(u)
    /\ UNCHANGED <<uvars, connection, session, heard, sent, queued>>

Attempt(u) ==
    /\ job[u].at = "attempting"
    /\ SetReply(u, "sending") /\ Steer(u, "sending")
    /\ UNCHANGED <<uvars, connection, session, turn, heard, sent, queued>>

Count(n) == IF n < 2 THEN n + 1 ELSE n

Send(u) ==
    /\ job[u].at = "sending"
    /\ sent' = [sent EXCEPT ![Message(job[u].on)] = Count(@)]
    /\ Steer(u, "recording")
    /\ UNCHANGED <<uvars, connection, session, turn, heard, reply, queued>>

\* The catch: the call to Codex or to Telegram failed, or its answer was lost.  A turn
\* that finds no session or no adapter ends like one whose call to Codex failed.
AfterError_Failed(stage) == "send_failed"
AfterError(stage) == IF stage = "sending" THEN "unknown_after_send_attempt" ELSE "send_failed"

Stumble(u) ==
    /\ job[u].at \in {"thinking", "sending"}
    /\ faults < MaxFaults
    /\ faults' = faults + 1
    /\ SetReply(u, AfterError(job[u].at))
    /\ sent' \in {sent} \cup IF job[u].at = "sending"
                              THEN {[sent EXCEPT ![Message(job[u].on)] = Count(@)]} ELSE {}
    /\ CompleteTurn(job[u].on, "failed") /\ End(u)
    /\ UNCHANGED <<inbox, offset, acked, processed, hand, connection, session, heard, queued>>

Record(u) ==
    /\ job[u].at = "recording"
    /\ SetReply(u, "sent") /\ Steer(u, "completing")
    /\ UNCHANGED <<uvars, connection, session, turn, heard, sent, queued>>

Finish(u) ==
    /\ job[u].at = "completing"
    /\ CompleteTurn(job[u].on, "completed") /\ Steer(u, "restoring")
    /\ UNCHANGED <<uvars, connection, session, heard, reply, sent, queued>>

\* The session of the beginning is written back as active.
Restore(u) ==
    /\ job[u].at = "restoring"
    /\ session' = "active"
    /\ Steer(u, "looking")
    /\ UNCHANGED <<uvars, connection, turn, heard, reply, sent, queued>>

\* drainQueuedMessages, and prepareDigitalTwinTurn for a message of the queue.
Look(u) ==
    /\ job[u].at = "looking"
    /\ IF queued = {} THEN End(u) ELSE job' = [job EXCEPT ![u] = [at |-> "accepting", on |-> Least(queued)]]
    /\ UNCHANGED <<uvars, connection, session, turn, heard, reply, sent, queued>>

Accept(u) ==
    /\ job[u].at = "accepting"
    /\ ~Locked
    /\ LET v == job[u].on IN
       IF v \notin queued \/ Running # {} THEN End(u) /\ UNCHANGED <<session, heard>>
       ELSE IF ~connection.on THEN Steer(u, "deleting") /\ UNCHANGED <<session, heard>>
       ELSE IF session = "paused" THEN Note(v) /\ Steer(u, "deleting") /\ UNCHANGED session
       ELSE session' = "active" /\ Steer(u, "beginning") /\ UNCHANGED heard
    /\ UNCHANGED <<uvars, connection, turn, reply, sent, queued>>

Begin(u) ==
    /\ job[u].at = "beginning"
    /\ LET v == job[u].on IN
       IF CanStart(v) THEN turn' = [turn EXCEPT ![v] = "running"] /\ Steer(u, "noting")
       ELSE turn' = turn /\ End(u)
    /\ UNCHANGED <<uvars, connection, session, heard, reply, sent, queued>>

NoteQueued(u) ==
    /\ job[u].at = "noting"
    /\ LET v == job[u].on IN
       IF Unheard(v) THEN Note(v) /\ Steer(u, "reserving") /\ UNCHANGED turn
       ELSE heard' = heard /\ CompleteTurn(v, "cancelled") /\ Steer(u, "deleting")
    /\ UNCHANGED <<uvars, connection, session, reply, sent, queued>>

ReserveQueued(u) ==
    /\ job[u].at = "reserving"
    /\ LET v == job[u].on IN
       IF Unreplied(v) THEN reply' = [reply EXCEPT ![Message(v)] = "generating"] /\ UNCHANGED turn
       ELSE CompleteTurn(v, "cancelled") /\ UNCHANGED reply
    /\ Steer(u, "deleting")
    /\ UNCHANGED <<uvars, connection, session, heard, sent, queued>>

DeleteQueued(u) ==
    /\ job[u].at = "deleting"
    /\ queued' = queued \ {job[u].on}
    /\ Steer(u, IF turn[job[u].on] = "running" THEN "thinking" ELSE "looking")
    /\ UNCHANGED <<uvars, connection, session, turn, heard, reply, sent>>

-----------------------------------------------------------------------------
(* People, and a process that dies *)

\* pauseDigitalTwinSession, resetDigitalTwinSession.
Administer ==
    /\ session # "none"
    /\ \/ "pause" \in Admin /\ session' = "paused"
       \/ "reset" \in Admin /\ session' = "reset_requested"
    /\ UNCHANGED <<uvars, connection, turn, heard, reply, sent, queued, job>>

CrashAll ==
    /\ Crash
    /\ job' = [u \in Updates |-> NoJob]
    /\ UNCHANGED <<connection, session, turn, heard, reply, sent, queued>>

\* All updates are there from the start: one that is not delivered yet is as good
\* as one that was not sent yet.
Content == [what : {"message"}, of : Messages] \cup [what : {"on", "off"}, of : {Least(Messages)}]

Init ==
    /\ inbox \in [Updates -> Content]
    /\ UpdatesInit
    /\ connection = [on |-> TRUE, by |-> 0]
    /\ session = "none"
    /\ turn = [u \in Updates |-> "none"]
    /\ heard = {}
    /\ reply = [m \in Messages |-> "none"]
    /\ sent = [m \in Messages |-> 0]
    /\ queued = {}
    /\ job = [u \in Updates |-> NoJob]

Work(h) ==
    \/ (Receive(h) \/ Mark(h) \/ Advance(h)) /\ UNCHANGED wvars
    \/ Handle(h) \/ Connect(h) \/ Open(h) \/ Activate(h) \/ LookForTurn(h) \/ StartTurn(h)
    \/ Enqueue(h) \/ NoteInbound(h) \/ ReserveOutbound(h) \/ DropTurn(h)

InBackground(u) ==
    \/ Launch(u) \/ Generate(u) \/ CheckPolicy(u) \/ Attempt(u) \/ Send(u) \/ Stumble(u)
    \/ Record(u) \/ Finish(u) \/ Restore(u) \/ Look(u) \/ Accept(u) \/ Begin(u)
    \/ NoteQueued(u) \/ ReserveQueued(u) \/ DeleteQueued(u)

Next ==
    \/ Administer \/ CrashAll
    \/ \E h \in Handlers : Work(h)
    \/ \E u \in Updates : InBackground(u)

Spec == Init /\ [][Next]_vars

-----------------------------------------------------------------------------
(* Properties *)

TypeOK ==
    /\ inbox \in [Updates -> Content]
    /\ connection \in [on : BOOLEAN, by : 0..MaxUpdates]
    /\ session \in {"none", "active", "paused", "reset_requested"}
    /\ turn \in [Updates -> {"none", "running", "completed", "failed", "cancelled"}]
    /\ heard \subseteq Messages
    /\ reply \in [Messages -> Delivery]
    /\ sent \in [Messages -> 0..2]
    /\ queued \subseteq 1..Len(inbox)
    /\ job \in [Updates -> Job]

\* docs/superpowers/specs/2026-06-15-telegram-digital-twin-sessions-design.md: a
\* duplicate update or message does not produce a second reply.  It holds through
\* crashes, failed sends, redelivery and the queue: the rows of a message are
\* reserved before anything is generated.
RepliedOnce == \A m \in Messages : sent[m] <= 1

\* What the audit says of a reply that reached the chat leaves that open: a reply
\* is never recorded as failed or skipped after it was sent, or before it was.
DeliveryIsHonest ==
    \A m \in Messages : sent[m] > 0 =>
       reply[m] \in {"sending", "sent", "unknown_after_send_attempt"}

\* Connection updates may be handled out of order; the connection is that of the
\* latest one handled, so that a revoked right is not restored by an older update.
ConnectionIsLatest ==
    \A u \in 1..Len(inbox) :
       u \in processed /\ inbox[u].what # "message" => connection.by >= u
=============================================================================
