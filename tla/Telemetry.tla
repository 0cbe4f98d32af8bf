---------------------------- MODULE Telemetry -----------------------------
(***************************************************************************)
(* Events and alerts of a worker (src/observability): the store of events  *)
(* with its retention and its file (events.ts), and the alerts that are    *)
(* raised by what happens repeatedly and sent to channels that may be slow *)
(* or fail (alerts.ts).                                                    *)
(*                                                                         *)
(* Everything is of one repository: failures and timeouts are counted      *)
(* over its issues and stages, while an alert is known by its rule, its    *)
(* issue and its stage, the type of the event that raised it.  An event is *)
(* the number of its recording; its kind, its issue and its time are in    *)
(* log, which is what happened and no state of the program.  A clock ticks *)
(* in steps; the windows are in steps.                                     *)
(*                                                                         *)
(* A definition whose name has a suffix after an underscore is a seeded    *)
(* fault of the definition below it; no specification uses it.             *)
(***************************************************************************)
EXTENDS Naturals, Sequences, FiniteSets, SequencesExt

CONSTANTS
    Kinds,      \* kinds of events that may happen
    Issues,     \* they are about
    Muted,      \* kinds whose alerts are below alerts.minSeverity
    Retention,  \* events that are kept
    Window,     \* of repeated failures: validationFailureWindowSeconds, ...
    Threshold,  \* of repeated failures, and of cycles the queue was blocked
    Dedup,      \* dedupWindowSeconds
    MaxEvents,  \* bound: events
    MaxTime,    \* bound: ticks of the clock
    MaxFaults   \* bound: writes and channels that fail, and crashes

VARIABLES
    now,
    log,        \* every event: [kind, issue, at]
    events,     \* of InMemoryEventStore
    file,       \* the lines of its file
    torn,       \* the last line was cut off
    times,      \* validationFailures, of each gate, and codexTimeouts
    blocked,    \* queueBlockedCycles
    lastSent,   \* lastSentAt: when an alert was last sent, by its key
    sending,    \* events whose alerts are being sent
    raised,     \* events that raised an alert
    sent,       \* events whose alerts were sent, or begun to be
    boot,       \* events of processes before this one
    good,       \* the last event whose write went well
    lost,       \* events lost with a file that could not be read or written
    faults

store  == <<events, file, torn, good, lost>>
alerts == <<times, blocked, lastSent, sending, raised, sent>>
vars   == <<now, log, store, alerts, boot, faults>>

Gates    == {"gate1", "gate2"}
Timeouts == {"implementation_timeout", "self_review_timeout"}

\* What the failures of a kind are counted by: a gate has a count of its own, the
\* timeouts of all stages have one.
Counters      == Gates \cup {"codex"}
Counter(kind) == IF kind \in Timeouts THEN "codex" ELSE kind

\* What an alert of each kind of event says, and the type of the event.
Rule(kind) ==
    CASE kind \in Gates    -> "validation_failures_repeated"
      [] kind \in Timeouts -> "codex_timeouts_repeated"
      [] OTHER -> kind
Stage(kind) == IF kind \in Gates THEN "validation_completed" ELSE kind

-----------------------------------------------------------------------------
(* InMemoryEventStore *)

\* trim
Latest(s) == IF Len(s) > Retention THEN SubSeq(s, Len(s) - Retention + 1, Len(s)) ELSE s

\* persist rewrites the whole file: it may fail, and the process may die in it.
Store(e) ==
    /\ events' = Latest(Append(events, e))
    /\ \/ file' = events' /\ torn' = FALSE /\ good' = e /\ UNCHANGED faults
       \/ faults < MaxFaults /\ faults' = faults + 1 /\ UNCHANGED <<file, torn, good>>
    /\ UNCHANGED lost

\* loadPersistedEvents: one line that cannot be parsed, and none is loaded.
Loaded_Lines == Latest(file)
Loaded == IF torn THEN <<>> ELSE Latest(file)

-----------------------------------------------------------------------------
(* BasicAlertService *)

\* pushWindowed
Recent_All(counter) == times[counter]
Recent(counter) == SelectSeq(times[counter], LAMBDA t : t + Window >= now)
Push(kind) ==
    LET c == Counter(kind) IN
    times' = IF c \in Counters THEN [times EXCEPT ![c] = Append(Recent(c), now)] ELSE times

\* queueBlockedCycles: cycles in which nothing was picked
CountBlocked_Forgets(kind) == blocked' = IF kind = "blocked" THEN blocked + 1 ELSE 0
CountBlocked(kind) ==
    blocked' = IF kind = "blocked" THEN blocked + 1 ELSE IF kind = "picked" THEN 0 ELSE blocked

\* evaluate
Raises(kind) ==
    \/ kind \in {"failed", "ready"}
    \/ kind = "blocked" /\ blocked' >= Threshold
    \/ Counter(kind) \in Counters /\ Len(times'[Counter(kind)]) >= Threshold

\* alertKey
KeyOf_Rule(kind, issue) == <<Rule(kind)>>
KeyOf(kind, issue) == <<Rule(kind), issue, Stage(kind)>>

\* sendWithDedup: the time is noted before the channels are called.
Deduped(key) == key \in DOMAIN lastSent /\ now < lastSent[key] + Dedup
Note(key) == [k \in DOMAIN lastSent \cup {key} |-> IF k = key THEN now ELSE lastSent[k]]
Noted_After(key) == lastSent
Noted(key) == Note(key)
Send(e, kind, issue) ==
    LET key == KeyOf(kind, issue) IN
    IF kind \in Muted \/ Deduped(key) THEN UNCHANGED <<lastSent, sending, sent>>
    ELSE /\ lastSent' = Noted(key)
         /\ sending' = sending \cup {e}
         /\ sent' = sent \cup {e}

\* recordEvent: the event is stored, then judged, then sent.
Record(kind, issue) ==
    /\ Len(log) < MaxEvents
    /\ LET e == Len(log) + 1
       IN  /\ log' = Append(log, [kind |-> kind, issue |-> issue, at |-> now])
           /\ Store(e) /\ Push(kind) /\ CountBlocked(kind)
           /\ IF Raises(kind) THEN raised' = raised \cup {e} /\ Send(e, kind, issue)
              ELSE UNCHANGED <<raised, lastSent, sending, sent>>
    /\ UNCHANGED <<now, boot>>

\* A channel answers, or fails: nothing is tried again.
Answer(e) ==
    /\ e \in sending /\ sending' = sending \ {e}
    /\ UNCHANGED <<now, log, store, times, blocked, lastSent, raised, sent, boot, faults>>

Tick == now < MaxTime /\ now' = now + 1 /\ UNCHANGED <<log, store, alerts, boot, faults>>

\* The process dies, in a write or outside of one, and another one loads the file.
None == [c \in Counters |-> <<>>]
Restart(cut) ==
    /\ faults < MaxFaults /\ faults' = faults + 1
    /\ cut => file # <<>> /\ ~torn
    /\ torn' = (torn \/ cut)
    /\ events' = IF cut THEN <<>> ELSE Loaded
    /\ lost' = (IF cut \/ torn THEN 1 ELSE good + 1)..Len(log) \cup lost
    /\ good' = Len(log)
    /\ times' = None /\ blocked' = 0 /\ lastSent' = [k \in {} |-> 0] /\ sending' = {} /\ boot' = Len(log)
    /\ UNCHANGED <<now, log, file, raised, sent>>

Init ==
    /\ now = 0 /\ log = <<>> /\ events = <<>> /\ file = <<>> /\ torn = FALSE /\ good = 0 /\ lost = {}
    /\ times = None /\ blocked = 0 /\ lastSent = [k \in {} |-> 0] /\ sending = {} /\ raised = {} /\ sent = {}
    /\ boot = 0 /\ faults = 0

Next ==
    \/ \E k \in Kinds, i \in Issues : Record(k, i)
    \/ \E e \in sending : Answer(e)
    \/ Tick
    \/ \E cut \in BOOLEAN : Restart(cut)

Spec == Init /\ [][Next]_vars

-----------------------------------------------------------------------------
(* Properties *)

\* The state is of the right shape.
TypeOK ==
    /\ now \in 0..MaxTime /\ Len(log) <= MaxEvents /\ Len(events) <= Retention
    /\ times \in [Counters -> Seq(0..MaxTime)] /\ blocked \in 0..MaxEvents
    /\ \A k \in DOMAIN lastSent : lastSent[k] \in 0..MaxTime
    /\ sending \subseteq sent /\ sent \subseteq raised /\ raised \subseteq DOMAIN log
    /\ torn \in BOOLEAN /\ good \in 0..MaxEvents /\ boot \in 0..MaxEvents /\ faults \in 0..MaxFaults

\* The store holds the latest events, of earlier processes too, but for those
\* lost with a file; and where the last write went well the file holds the same.
EventsAreKept ==
    /\ events = Latest(SelectSeq([i \in DOMAIN log |-> i], LAMBDA e : e \notin lost))
    /\ good = Len(log) /\ ~torn => file = events

\* An alert is raised exactly by an event that deserves it: by a failure that is
\* the last of enough failures of its gate, or timeouts of any stage, within the
\* window, or by a cycle that found the queue blocked as often since the last task
\* was picked, all since the process began.
Since(e) == {i \in boot + 1..e : Counter(log[i].kind) = Counter(log[e].kind)}
LastPick(e) == Max({boot} \cup {i \in boot + 1..e : log[i].kind = "picked"})
Deserves(e) ==
    \/ log[e].kind \in {"failed", "ready"}
    \/ log[e].kind = "blocked" /\ Cardinality({i \in Since(e) : i > LastPick(e)}) >= Threshold
    \/ /\ log[e].kind \in Gates \cup Timeouts
       /\ Cardinality({i \in Since(e) : log[i].at + Window >= log[e].at}) >= Threshold
AlertsAreEarned == \A e \in boot + 1..Len(log) : e \in raised <=> Deserves(e)

\* Alerts of the same rule, issue and stage that one process sends are a window
\* apart, even while an earlier one is still being sent.
Alike(d, e) ==
    /\ Rule(log[d].kind) = Rule(log[e].kind) /\ Stage(log[d].kind) = Stage(log[e].kind)
    /\ log[d].issue = log[e].issue
AlertsAreApart ==
    \A d, e \in sent : boot < d /\ d < e /\ Alike(d, e) => log[d].at + Dedup <= log[e].at

\* An alert that is raised is sent, or one of the same rule, issue and stage was
\* within the window: what another stage or another issue sent silences nothing.
RaisedIsSaid ==
    \A e \in raised : boot < e /\ log[e].kind \notin Muted =>
       \E d \in sent : /\ boot < d /\ d <= e /\ Alike(d, e)
                      /\ log[e].at < log[d].at + Dedup

\* What the telemetry owes those it alerts.
AlertsAreSound == EventsAreKept /\ AlertsAreEarned /\ AlertsAreApart /\ RaisedIsSaid

=============================================================================
