---------------------------- MODULE AppRuntime ----------------------------
(***************************************************************************)
(* The life of one process (src/app.ts): what runApplicationRuntime starts *)
(* and stops around the worker, and what goes on beside it: the HTTP       *)
(* server, the poller of Telegram or the webhook, the scans for notices    *)
(* and the cleanups, all of which use connections that are closed at the   *)
(* end.                                                                    *)
(*                                                                         *)
(* A step is the code between two awaits.  A signal is told to whoever     *)
(* listens; where nobody does, it ends the process.                        *)
(*                                                                         *)
(* A definition whose name has a suffix after an underscore is a seeded    *)
(* fault of the definition below it; no specification uses it.             *)
(***************************************************************************)
EXTENDS Naturals, FiniteSets

CONSTANTS
    Polling,    \* the updates of Telegram are polled, or come by webhook
    Strict,     \* OBSERVABILITY_STRICT_STARTUP; a webhook is strict in any case
    RunOnce,    \* WORKER_RUN_ONCE
    MaxFaults,  \* bound: calls that fail
    MaxSignals  \* bound: SIGINT and SIGTERM

VARIABLES
    phase,      \* what runApplicationRuntime awaits
    ready,      \* what /readyz answers
    http,       \* the server: "off", "up", or "dead": made, but not listening
    worker,     \* of the worker: "off", "cycle", "sleep"
    shutting,   \* its shuttingDown
    poller,     \* "off", "poll", "handle", "wait"
    stopping,   \* the poller's
    webhook,    \* webhookRegistered
    scanTimer, cleanTimer,  \* the intervals are set
    scans, sweeps,          \* scans for notices and cleanups under way
    scanning, cleaning,     \* the flags that say so
    pool,       \* the connections of the assistant: "open", "ended"
    heard,      \* where signals were heard
    broken,     \* a call failed on the way out
    faults, signals

beside == <<scanTimer, cleanTimer, scans, sweeps, scanning, cleaning>>
telegram == <<poller, stopping, webhook, pool>>
count == <<faults, signals>>
vars == <<phase, ready, http, worker, shutting, telegram, beside, heard, broken, count>>

WayOut == {"stop_telegram", "stop_http", "stop_cleanup"}
Checks == {"repository", "codex"}
Fault  == faults < MaxFaults /\ faults' = faults + 1 /\ UNCHANGED signals

-----------------------------------------------------------------------------
(* On the way up *)

\* ObservabilityHttpServer.start: a bundle that is not there, or a port that is taken.
Listen ==
    /\ phase = "observe"
    /\ \/ http' = "up" /\ phase' = "telegram" /\ UNCHANGED count
       \/ /\ Fault
          /\ http' \in {"off", "dead"}
          /\ phase' = IF Strict \/ ~Polling THEN "over" ELSE "telegram"
    /\ UNCHANGED <<ready, worker, shutting, telegram, beside, heard, broken>>

\* What is thrown leads to the way out, and is thrown again behind it.
Throw == phase' = "stop_telegram" /\ ready' = FALSE

\* telegramAssistant.start, behind retryTelegramStartupRequest.
StartTelegram ==
    /\ phase = "telegram"
    /\ \/ /\ phase' = "repository"
          /\ poller' = (IF Polling THEN "poll" ELSE "off") /\ webhook' = ~Polling
          /\ scanTimer' = TRUE
          /\ UNCHANGED <<ready, count>>
       \/ Fault /\ Throw /\ UNCHANGED <<poller, webhook, scanTimer>>
    /\ UNCHANGED <<http, worker, shutting, stopping, pool, cleanTimer, scans, sweeps, scanning, cleaning, heard,
                   broken>>

\* assertRepositoryReady and assertCodexAuthenticated; behind them the cleanups
\* are set off, markReady, and the worker runs: runForever forgets the past.
Check ==
    /\ phase \in Checks
    /\ \/ /\ phase = "repository" /\ phase' = "codex"
          /\ UNCHANGED <<ready, worker, shutting, cleanTimer, count>>
       \/ /\ phase = "codex" /\ phase' = "run"
          /\ ready' = TRUE /\ cleanTimer' = TRUE /\ worker' = "cycle" /\ shutting' = FALSE
          /\ UNCHANGED count
       \/ Fault /\ Throw /\ UNCHANGED <<worker, shutting, cleanTimer>>
    /\ UNCHANGED <<http, telegram, scanTimer, scans, sweeps, scanning, cleaning, heard, broken>>

-----------------------------------------------------------------------------
(* The worker: runForever, or runOnce *)

Leave == phase' = "stop_telegram" /\ worker' = "off"

\* A cycle ends, well or not; a failing runOnce is thrown.
CycleEnds ==
    /\ worker = "cycle"
    /\ \/ RunOnce /\ Leave /\ UNCHANGED <<ready, count>>
       \/ RunOnce /\ Fault /\ Throw /\ worker' = "off"
       \/ ~RunOnce /\ shutting /\ Leave /\ UNCHANGED <<ready, count>>
       \/ ~RunOnce /\ ~shutting /\ worker' \in {"cycle", "sleep"} /\ UNCHANGED <<phase, ready, count>>
    /\ UNCHANGED <<http, shutting, telegram, beside, heard, broken>>

\* interruptibleSleep: its time is over.
Wake ==
    /\ worker = "sleep"
    /\ IF shutting THEN Leave ELSE worker' = "cycle" /\ UNCHANGED phase
    /\ UNCHANGED <<ready, http, shutting, telegram, beside, heard, broken, count>>

-----------------------------------------------------------------------------
(* Signals *)

\* markStopping listens from the start of the server to the way out, the
\* shutdown of runForever as long as it runs: it wakes the worker.
Interrupted_Sleeps == worker
Interrupted == IF worker = "sleep" THEN "off" ELSE worker
Signal ==
    /\ signals < MaxSignals /\ signals' = signals + 1
    /\ phase # "over"
    /\ IF phase \in WayOut \cup {"observe"}
       THEN /\ phase' = "over" /\ http' = "off" /\ poller' = "off" /\ pool' = "ended" /\ worker' = "off"
            /\ scanTimer' = FALSE /\ cleanTimer' = FALSE /\ scans' = 0 /\ sweeps' = 0
            /\ UNCHANGED <<ready, shutting, heard>>
       ELSE /\ ready' = FALSE
            /\ heard' = heard \cup {IF worker = "off" THEN "on the way up" ELSE "at work"}
            /\ shutting' = (shutting \/ (worker # "off" /\ ~RunOnce))
            /\ worker' = IF RunOnce THEN worker ELSE Interrupted
            /\ phase' = IF worker' = "off" /\ worker # "off" THEN "stop_telegram" ELSE phase
            /\ UNCHANGED <<http, poller, pool, scanTimer, cleanTimer, scans, sweeps>>
    /\ UNCHANGED <<stopping, webhook, scanning, cleaning, broken, faults>>

-----------------------------------------------------------------------------
(* The poller *)

\* runLoop: an iteration, each of whose updates is handled, then a pause.
Poll ==
    /\ \/ poller = "poll"   /\ poller' \in {IF stopping THEN "wait" ELSE "handle", "wait"}
       \/ poller = "handle" /\ poller' \in {IF stopping THEN "wait" ELSE "handle", "wait"}
       \/ poller = "wait"   /\ poller' = IF stopping THEN "off" ELSE "poll"
    /\ UNCHANGED <<phase, ready, http, worker, shutting, stopping, webhook, pool, beside, heard, broken, count>>

-----------------------------------------------------------------------------
(* Scans and cleanups, each by its interval *)

\* A process whose server listens is not over, whatever became of the rest.
Alive == phase # "over" \/ http = "up"

\* runNotificationScan
MayScan_Again == scanTimer
MayScan == scanTimer /\ ~scanning
Scan ==
    /\ Alive
    /\ \/ MayScan /\ scans' = scans + 1 /\ scanning' = TRUE
       \/ scans > 0 /\ scans' = scans - 1 /\ scanning' = FALSE
    /\ UNCHANGED <<phase, ready, http, worker, shutting, telegram, scanTimer, cleanTimer, sweeps, cleaning, heard,
                   broken, count>>

\* InternalTrackerCleanupScheduler.runOnce and the controller of the assistant's
Sweep ==
    /\ Alive
    /\ \/ cleanTimer /\ ~cleaning /\ sweeps' = sweeps + 1 /\ cleaning' = TRUE
       \/ sweeps > 0 /\ sweeps' = sweeps - 1 /\ cleaning' = FALSE
    /\ UNCHANGED <<phase, ready, http, worker, shutting, telegram, scanTimer, cleanTimer, scans, scanning, heard,
                   broken, count>>

-----------------------------------------------------------------------------
(* On the way out; what throws here skips the rest *)

\* TelegramUpdatePoller.stop: the loop is told, and awaited.
Loops_On == FALSE
Loops == poller # "off"
TellPoller ==
    /\ phase = "stop_telegram" /\ ~stopping /\ stopping' = TRUE
    /\ poller' = IF poller = "wait" THEN "off" ELSE poller
    /\ UNCHANGED <<phase, ready, http, worker, shutting, webhook, pool, beside, heard, broken, count>>

\* The webhook is deleted; whatever comes of it, the scans end and the connections.
StopTelegram ==
    /\ phase = "stop_telegram" /\ stopping /\ ~Loops
    /\ \/ phase' = "stop_http" /\ webhook' = FALSE /\ UNCHANGED <<broken, count>>
       \/ webhook /\ Fault /\ phase' = "over" /\ broken' = TRUE /\ UNCHANGED webhook
    /\ scanTimer' = FALSE /\ pool' = "ended"
    /\ UNCHANGED <<ready, http, worker, shutting, poller, stopping, cleanTimer, scans, sweeps, scanning, cleaning, heard>>

\* A server that was made but does not listen cannot be closed.
StopHttp ==
    /\ phase = "stop_http" /\ ready' = FALSE
    /\ http' = "off"
    /\ IF http = "dead" THEN phase' = "over" /\ broken' = TRUE ELSE phase' = "stop_cleanup" /\ UNCHANGED broken
    /\ UNCHANGED <<worker, shutting, telegram, beside, heard, count>>

StopTimers_Not == UNCHANGED cleanTimer
StopTimers == cleanTimer' = FALSE
StopCleanup ==
    /\ phase = "stop_cleanup" /\ phase' = "over" /\ StopTimers
    /\ UNCHANGED <<ready, http, worker, shutting, telegram, scanTimer, scans, sweeps, scanning, cleaning, heard, broken,
                   count>>

-----------------------------------------------------------------------------
Init ==
    /\ phase = "observe" /\ ready = FALSE /\ http = "off" /\ worker = "off" /\ shutting = FALSE
    /\ poller = "off" /\ stopping = FALSE /\ webhook = FALSE /\ pool = "open"
    /\ scanTimer = FALSE /\ cleanTimer = FALSE /\ scans = 0 /\ sweeps = 0 /\ scanning = FALSE /\ cleaning = FALSE
    /\ heard = {} /\ broken = FALSE /\ faults = 0 /\ signals = 0

\* The way of runApplicationRuntime, a sleep that is left to run out aside.
Main == Listen \/ StartTelegram \/ Check \/ CycleEnds \/ TellPoller \/ StopTelegram \/ StopHttp \/ StopCleanup

Next == Main \/ Wake \/ Signal \/ Poll \/ Scan \/ Sweep

Spec == Init /\ [][Next]_vars

\* Awaited calls end, and so does what a poller does; nothing is promised of a
\* sleep: its time may be long.
FairSpec == Spec /\ WF_vars(Main) /\ WF_vars(Poll)

-----------------------------------------------------------------------------
(* Properties *)

\* The state is of the right shape.
TypeOK ==
    /\ phase \in {"observe", "telegram", "run", "over"} \cup Checks \cup WayOut
    /\ http \in {"off", "up", "dead"} /\ worker \in {"off", "cycle", "sleep"}
    /\ poller \in {"off", "poll", "handle", "wait"} /\ pool \in {"open", "ended"}
    /\ scans \in Nat /\ sweeps \in Nat /\ faults \in 0..MaxFaults /\ signals \in 0..MaxSignals

\* No update is handled without connections: the poller is awaited first.
HandlesConnected == poller = "handle" => pool = "open"

\* Scans do not overlap, nor do cleanups.
OneAtATime == scans <= 1 /\ sweeps <= 1

\* A process that ends without a failing call leaves nothing behind it: no
\* server, no loop, no interval, no webhook.
LeavesNothing ==
    phase = "over" /\ ~broken =>
        /\ http # "up" /\ poller = "off" /\ worker = "off" /\ ~scanTimer /\ ~cleanTimer
        /\ signals = 0 => ~webhook

\* A worker that was told to stop is not ready again.
StaysNotReady == shutting => ~ready

\* What a process that runs or stops owes those that watch it.
RuntimeIsSound == HandlesConnected /\ OneAtATime /\ LeavesNothing /\ StaysNotReady

\* Told to stop, the worker ends with its cycle and does not sleep on.
StopsWhenTold == shutting ~> phase = "over"
=============================================================================
