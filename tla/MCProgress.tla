------------ MODULE MCProgress ----------------------------------------------
(***************************************************************************)
(* Small instances of the components that promise that something happens,  *)
(* side by side; a behaviour is one of one part.  The properties are those *)
(* of the modules, which say what they are about.                          *)
(***************************************************************************)
EXTENDS Naturals, Sequences, FiniteSets, TLC

CONSTANTS
    Parts         \* the parts a run explores

VARIABLES
    part,         \* the part this behaviour is of
    status, leases, notes, branch, answering, run, blocked, txn, supervisor, recent,
    today, stale, stored, call, inbox, offset, acked, processed, hand, faults, session,
    action, latest, task, shown, turn, queued, job, answered, issue, comments,
    questions, answers, imported, posted, exported, synced, cycle, lease, worker,
    renewing, state, says, phase, ready, http, shutting, poller, stopping, webhook,
    scanTimer, cleanTimer, scans, sweeps, scanning, cleaning, pool, heard, broken,
    signals, work, was, edits, lost

vars == <<part, status, leases, notes, branch, answering, run, blocked, txn, supervisor,
          recent, today, stale, stored, call, inbox, offset, acked, processed, hand,
          faults, session, action, latest, task, shown, turn, queued, job, answered,
          issue, comments, questions, answers, imported, posted, exported, synced,
          cycle, lease, worker, renewing, state, says, phase, ready, http, shutting,
          poller, stopping, webhook, scanTimer, cleanTimer, scans, sweeps, scanning,
          cleaning, pool, heard, broken, signals, work, was, edits, lost>>

One(t)   == [i \in {"t1"} |-> t]
InTime   == [w \in {"w1", "w2"} |-> 0]
Alike(x) == [p \in {"p1", "p2"} |-> x]
Sayings  == ({"user"} \X {"easy", "risky", "yes", "press"}) \cup ({"owner"} \X {"yes", "press"})

\* One worker, one task, lapsing leases, people who ask for more.
Live == INSTANCE InternalWorker WITH
    Workers <- {"w1"}, Tasks <- {"t1"}, NoTask <- "none", RepoOf <- One("r1"),
    Rank <- One(0), Ttl <- 1, MaxFix <- 1,
    Verdicts <- {"implement", "ask", "decompose"}, Commands <- {"ready"},
    Answers <- {"resume"}, Reviews <- {"comment"}, Faults <- {"lapse"}

\* Two workers that crash or fail, one task: a claim changes hands.
Follow == INSTANCE InternalWorker WITH
    Workers <- {"w1", "w2"}, Tasks <- {"t1"}, NoTask <- "none", RepoOf <- One("r1"),
    Rank <- One(0), Ttl <- 1, MaxFix <- 0, Verdicts <- {"implement"}, Commands <- {},
    Answers <- {}, Reviews <- {}, Faults <- {"permanent", "crash"}

\* Two workers and one task: lapsed leases.
Collect == INSTANCE TaskQueue WITH
    Workers <- {"w1", "w2"}, Tasks <- {"t1"}, NoTask <- "none", RepoOf <- One("r1"),
    Serves <- [w \in {"w1", "w2"} |-> {"t1"}], Rank <- One(0), Ttl <- 1, Skew <- InTime,
    Requested <- {"cancelled"}

\* The cleanup job among decisions and lost connections.
Stale == INSTANCE Proposals WITH
    Callers <- {"c1"}, Cleaner <- "cleaner", Ids <- {"p1", "p2"}, NoId <- "none",
    Content <- Alike("same"), Key <- Alike("none"), NoKey <- "none", LowRisk <- {},
    WindowLimit <- 2, DailyLimit <- 2, Requested <- {"ready", "failed"}

\* Requests of tasks, and a process that fails or dies twice.
Approved == INSTANCE TelegramActions WITH
    Handlers <- {"h1"}, Polling <- TRUE, Crashes <- TRUE, MaxUpdates <- 3,
    MaxFaults <- 2, Says <- Sayings, DailyLimit <- 9

\* Questions to the assistant, without crashes.
Turns == INSTANCE TelegramTurns WITH
    Handlers <- {"h1"}, Polling <- TRUE, Crashes <- FALSE, MaxUpdates <- 3,
    MaxFaults <- 0, Outcomes <- {"answer", "nothing", "error"}, MaxQueued <- 2

\* One worker that mirrors an issue nobody resolves.
Comments == INSTANCE YandexBridge WITH
    Workers <- {"w1"}, Issues <- 1..1, Kinds <- {"plain"}, Resolving <- FALSE,
    MaxComments <- 2, MaxQuestions <- 1, MaxFaults <- 2

\* Two workers of a fleet, and the leases of one that died.
TheFleet == INSTANCE Fleet WITH
    Workers <- {"w1", "w2"}, NoWorker <- "nobody", Gone <- "w0", Issues <- {1},
    Rank <- <<1>>, Checkout <- <<"c">>, Heartbeats <- FALSE, MaxFaults <- 0

\* A worker of direct mode that asks and is interrupted.
Direct == INSTANCE DirectWorker WITH
    Issues <- {"i1"}, NoIssue <- "none", Order <- [i \in {"i1"} |-> 0], MaxFix <- 0,
    Subtasks <- 1, Verdicts <- {"implement", "ask"}, Commands <- {"resume"},
    Moves <- {"open"}, Reviews <- {}, Faults <- {"interrupt", "refused"}

\* The process, polling.
Runtime == INSTANCE AppRuntime WITH
    Polling <- TRUE, Strict <- FALSE, RunOnce <- FALSE, MaxFaults <- 2, MaxSignals <- 2

\* A worker that reviews the intake of two issues.
Intake == INSTANCE IntakeReview WITH
    Workers <- {1}, Issues <- {1, 2}, Leases <- FALSE, MaxEdits <- 1, MaxFaults <- 1

-----------------------------------------------------------------------------
(* The variables a part has no use for *)

NoInternalWorker == blocked = 0 /\ txn = 0 /\ supervisor = 0 /\ recent = 0 /\
                    today = 0 /\ stale = 0 /\ stored = 0 /\ call = 0 /\ inbox = 0 /\
                    offset = 0 /\ acked = 0 /\ processed = 0 /\ hand = 0 /\
                    faults = 0 /\ session = 0 /\ action = 0 /\ latest = 0 /\ task = 0 /\
                    shown = 0 /\ turn = 0 /\ queued = 0 /\ job = 0 /\ answered = 0 /\
                    issue = 0 /\ comments = 0 /\ questions = 0 /\ answers = 0 /\
                    imported = 0 /\ posted = 0 /\ exported = 0 /\ synced = 0 /\
                    cycle = 0 /\ lease = 0 /\ worker = 0 /\ renewing = 0 /\ state = 0 /\
                    says = 0 /\ phase = 0 /\ ready = 0 /\ http = 0 /\ shutting = 0 /\
                    poller = 0 /\ stopping = 0 /\ webhook = 0 /\ scanTimer = 0 /\
                    cleanTimer = 0 /\ scans = 0 /\ sweeps = 0 /\ scanning = 0 /\
                    cleaning = 0 /\ pool = 0 /\ heard = 0 /\ broken = 0 /\
                    signals = 0 /\ work = 0 /\ was = 0 /\ edits = 0 /\ lost = 0
NoTaskQueue == notes = 0 /\ branch = 0 /\ answering = 0 /\ run = 0 /\ supervisor = 0 /\
               recent = 0 /\ today = 0 /\ stale = 0 /\ stored = 0 /\ call = 0 /\
               inbox = 0 /\ offset = 0 /\ acked = 0 /\ processed = 0 /\ hand = 0 /\
               faults = 0 /\ session = 0 /\ action = 0 /\ latest = 0 /\ task = 0 /\
               shown = 0 /\ turn = 0 /\ queued = 0 /\ job = 0 /\ answered = 0 /\
               issue = 0 /\ comments = 0 /\ questions = 0 /\ answers = 0 /\
               imported = 0 /\ posted = 0 /\ exported = 0 /\ synced = 0 /\ cycle = 0 /\
               lease = 0 /\ worker = 0 /\ renewing = 0 /\ state = 0 /\ says = 0 /\
               phase = 0 /\ ready = 0 /\ http = 0 /\ shutting = 0 /\ poller = 0 /\
               stopping = 0 /\ webhook = 0 /\ scanTimer = 0 /\ cleanTimer = 0 /\
               scans = 0 /\ sweeps = 0 /\ scanning = 0 /\ cleaning = 0 /\ pool = 0 /\
               heard = 0 /\ broken = 0 /\ signals = 0 /\ work = 0 /\ was = 0 /\
               edits = 0 /\ lost = 0
NoProposals == leases = 0 /\ notes = 0 /\ branch = 0 /\ answering = 0 /\ run = 0 /\
               blocked = 0 /\ txn = 0 /\ inbox = 0 /\ offset = 0 /\ acked = 0 /\
               processed = 0 /\ hand = 0 /\ faults = 0 /\ session = 0 /\ action = 0 /\
               latest = 0 /\ task = 0 /\ shown = 0 /\ turn = 0 /\ queued = 0 /\
               job = 0 /\ answered = 0 /\ issue = 0 /\ comments = 0 /\ questions = 0 /\
               answers = 0 /\ imported = 0 /\ posted = 0 /\ exported = 0 /\
               synced = 0 /\ cycle = 0 /\ lease = 0 /\ worker = 0 /\ renewing = 0 /\
               state = 0 /\ says = 0 /\ phase = 0 /\ ready = 0 /\ http = 0 /\
               shutting = 0 /\ poller = 0 /\ stopping = 0 /\ webhook = 0 /\
               scanTimer = 0 /\ cleanTimer = 0 /\ scans = 0 /\ sweeps = 0 /\
               scanning = 0 /\ cleaning = 0 /\ pool = 0 /\ heard = 0 /\ broken = 0 /\
               signals = 0 /\ work = 0 /\ was = 0 /\ edits = 0 /\ lost = 0
NoTelegramActions == status = 0 /\ leases = 0 /\ notes = 0 /\ branch = 0 /\
                     answering = 0 /\ run = 0 /\ blocked = 0 /\ txn = 0 /\
                     supervisor = 0 /\ recent = 0 /\ today = 0 /\ stale = 0 /\
                     stored = 0 /\ call = 0 /\ turn = 0 /\ queued = 0 /\ job = 0 /\
                     answered = 0 /\ issue = 0 /\ comments = 0 /\ questions = 0 /\
                     answers = 0 /\ imported = 0 /\ posted = 0 /\ exported = 0 /\
                     synced = 0 /\ cycle = 0 /\ lease = 0 /\ worker = 0 /\
                     renewing = 0 /\ state = 0 /\ says = 0 /\ phase = 0 /\ ready = 0 /\
                     http = 0 /\ shutting = 0 /\ poller = 0 /\ stopping = 0 /\
                     webhook = 0 /\ scanTimer = 0 /\ cleanTimer = 0 /\ scans = 0 /\
                     sweeps = 0 /\ scanning = 0 /\ cleaning = 0 /\ pool = 0 /\
                     heard = 0 /\ broken = 0 /\ signals = 0 /\ work = 0 /\ was = 0 /\
                     edits = 0 /\ lost = 0
NoTelegramTurns == status = 0 /\ leases = 0 /\ notes = 0 /\ branch = 0 /\
                   answering = 0 /\ run = 0 /\ blocked = 0 /\ txn = 0 /\
                   supervisor = 0 /\ recent = 0 /\ today = 0 /\ stale = 0 /\
                   stored = 0 /\ call = 0 /\ session = 0 /\ action = 0 /\ latest = 0 /\
                   task = 0 /\ shown = 0 /\ issue = 0 /\ comments = 0 /\
                   questions = 0 /\ answers = 0 /\ imported = 0 /\ posted = 0 /\
                   exported = 0 /\ synced = 0 /\ cycle = 0 /\ lease = 0 /\ worker = 0 /\
                   renewing = 0 /\ state = 0 /\ says = 0 /\ phase = 0 /\ ready = 0 /\
                   http = 0 /\ shutting = 0 /\ poller = 0 /\ stopping = 0 /\
                   webhook = 0 /\ scanTimer = 0 /\ cleanTimer = 0 /\ scans = 0 /\
                   sweeps = 0 /\ scanning = 0 /\ cleaning = 0 /\ pool = 0 /\
                   heard = 0 /\ broken = 0 /\ signals = 0 /\ work = 0 /\ was = 0 /\
                   edits = 0 /\ lost = 0
NoYandexBridge == status = 0 /\ leases = 0 /\ branch = 0 /\ answering = 0 /\ run = 0 /\
                  blocked = 0 /\ txn = 0 /\ supervisor = 0 /\ recent = 0 /\ today = 0 /\
                  stale = 0 /\ stored = 0 /\ call = 0 /\ inbox = 0 /\ offset = 0 /\
                  acked = 0 /\ processed = 0 /\ hand = 0 /\ session = 0 /\ action = 0 /\
                  latest = 0 /\ shown = 0 /\ turn = 0 /\ queued = 0 /\ job = 0 /\
                  answered = 0 /\ lease = 0 /\ worker = 0 /\ renewing = 0 /\
                  state = 0 /\ says = 0 /\ phase = 0 /\ ready = 0 /\ http = 0 /\
                  shutting = 0 /\ poller = 0 /\ stopping = 0 /\ webhook = 0 /\
                  scanTimer = 0 /\ cleanTimer = 0 /\ scans = 0 /\ sweeps = 0 /\
                  scanning = 0 /\ cleaning = 0 /\ pool = 0 /\ heard = 0 /\ broken = 0 /\
                  signals = 0 /\ work = 0 /\ was = 0 /\ edits = 0 /\ lost = 0
NoFleet == leases = 0 /\ notes = 0 /\ branch = 0 /\ answering = 0 /\ run = 0 /\
           blocked = 0 /\ txn = 0 /\ supervisor = 0 /\ recent = 0 /\ today = 0 /\
           stale = 0 /\ stored = 0 /\ call = 0 /\ inbox = 0 /\ offset = 0 /\
           acked = 0 /\ processed = 0 /\ hand = 0 /\ session = 0 /\ action = 0 /\
           latest = 0 /\ task = 0 /\ shown = 0 /\ turn = 0 /\ queued = 0 /\ job = 0 /\
           answered = 0 /\ issue = 0 /\ comments = 0 /\ questions = 0 /\ answers = 0 /\
           imported = 0 /\ posted = 0 /\ exported = 0 /\ synced = 0 /\ cycle = 0 /\
           state = 0 /\ says = 0 /\ phase = 0 /\ ready = 0 /\ http = 0 /\
           shutting = 0 /\ poller = 0 /\ stopping = 0 /\ webhook = 0 /\ scanTimer = 0 /\
           cleanTimer = 0 /\ scans = 0 /\ sweeps = 0 /\ scanning = 0 /\ cleaning = 0 /\
           pool = 0 /\ heard = 0 /\ broken = 0 /\ signals = 0 /\ work = 0 /\ was = 0 /\
           edits = 0 /\ lost = 0
NoDirectWorker == status = 0 /\ leases = 0 /\ notes = 0 /\ answering = 0 /\
                  blocked = 0 /\ txn = 0 /\ supervisor = 0 /\ recent = 0 /\ today = 0 /\
                  stale = 0 /\ stored = 0 /\ call = 0 /\ inbox = 0 /\ offset = 0 /\
                  acked = 0 /\ processed = 0 /\ hand = 0 /\ faults = 0 /\ session = 0 /\
                  action = 0 /\ latest = 0 /\ task = 0 /\ shown = 0 /\ turn = 0 /\
                  queued = 0 /\ job = 0 /\ answered = 0 /\ issue = 0 /\ comments = 0 /\
                  questions = 0 /\ answers = 0 /\ imported = 0 /\ posted = 0 /\
                  exported = 0 /\ synced = 0 /\ cycle = 0 /\ lease = 0 /\ worker = 0 /\
                  renewing = 0 /\ phase = 0 /\ ready = 0 /\ http = 0 /\ shutting = 0 /\
                  poller = 0 /\ stopping = 0 /\ webhook = 0 /\ scanTimer = 0 /\
                  cleanTimer = 0 /\ scans = 0 /\ sweeps = 0 /\ scanning = 0 /\
                  cleaning = 0 /\ pool = 0 /\ heard = 0 /\ broken = 0 /\ signals = 0 /\
                  work = 0 /\ was = 0 /\ edits = 0 /\ lost = 0
NoAppRuntime == status = 0 /\ leases = 0 /\ notes = 0 /\ branch = 0 /\ answering = 0 /\
                run = 0 /\ blocked = 0 /\ txn = 0 /\ supervisor = 0 /\ recent = 0 /\
                today = 0 /\ stale = 0 /\ stored = 0 /\ call = 0 /\ inbox = 0 /\
                offset = 0 /\ acked = 0 /\ processed = 0 /\ hand = 0 /\ session = 0 /\
                action = 0 /\ latest = 0 /\ task = 0 /\ shown = 0 /\ turn = 0 /\
                queued = 0 /\ job = 0 /\ answered = 0 /\ issue = 0 /\ comments = 0 /\
                questions = 0 /\ answers = 0 /\ imported = 0 /\ posted = 0 /\
                exported = 0 /\ synced = 0 /\ cycle = 0 /\ lease = 0 /\ renewing = 0 /\
                state = 0 /\ says = 0 /\ work = 0 /\ was = 0 /\ edits = 0 /\ lost = 0
NoIntakeReview == status = 0 /\ leases = 0 /\ notes = 0 /\ branch = 0 /\
                  answering = 0 /\ run = 0 /\ blocked = 0 /\ txn = 0 /\
                  supervisor = 0 /\ recent = 0 /\ today = 0 /\ stale = 0 /\
                  stored = 0 /\ call = 0 /\ inbox = 0 /\ offset = 0 /\ acked = 0 /\
                  processed = 0 /\ hand = 0 /\ session = 0 /\ action = 0 /\
                  latest = 0 /\ task = 0 /\ shown = 0 /\ turn = 0 /\ queued = 0 /\
                  job = 0 /\ answered = 0 /\ comments = 0 /\ questions = 0 /\
                  answers = 0 /\ imported = 0 /\ posted = 0 /\ exported = 0 /\
                  synced = 0 /\ cycle = 0 /\ worker = 0 /\ renewing = 0 /\ state = 0 /\
                  says = 0 /\ phase = 0 /\ ready = 0 /\ http = 0 /\ shutting = 0 /\
                  poller = 0 /\ stopping = 0 /\ webhook = 0 /\ scanTimer = 0 /\
                  cleanTimer = 0 /\ scans = 0 /\ sweeps = 0 /\ scanning = 0 /\
                  cleaning = 0 /\ pool = 0 /\ heard = 0 /\ broken = 0 /\ signals = 0

Init ==
    /\ part \in Parts
    /\ \/ part = "live" /\ Live!Init /\ NoInternalWorker
       \/ part = "follow" /\ Follow!Init /\ NoInternalWorker
       \/ part = "collect" /\ Collect!Init /\ NoTaskQueue
       \/ part = "stale" /\ Stale!Init /\ NoProposals
       \/ part = "approved" /\ Approved!Init /\ NoTelegramActions
       \/ part = "turns" /\ Turns!Init /\ NoTelegramTurns
       \/ part = "comments" /\ Comments!Init /\ NoYandexBridge
       \/ part = "fleet" /\ TheFleet!Init /\ NoFleet
       \/ part = "direct" /\ Direct!Init /\ NoDirectWorker
       \/ part = "runtime" /\ Runtime!Init /\ NoAppRuntime
       \/ part = "intake" /\ Intake!Init /\ NoIntakeReview

BesideInternalWorker == <<part, blocked, txn, supervisor, recent, today, stale, stored,
                          call, inbox, offset, acked, processed, hand, faults, session,
                          action, latest, task, shown, turn, queued, job, answered,
                          issue, comments, questions, answers, imported, posted,
                          exported, synced, cycle, lease, worker, renewing, state, says,
                          phase, ready, http, shutting, poller, stopping, webhook,
                          scanTimer, cleanTimer, scans, sweeps, scanning, cleaning,
                          pool, heard, broken, signals, work, was, edits, lost>>
BesideTaskQueue == <<part, notes, branch, answering, run, supervisor, recent, today,
                     stale, stored, call, inbox, offset, acked, processed, hand, faults,
                     session, action, latest, task, shown, turn, queued, job, answered,
                     issue, comments, questions, answers, imported, posted, exported,
                     synced, cycle, lease, worker, renewing, state, says, phase, ready,
                     http, shutting, poller, stopping, webhook, scanTimer, cleanTimer,
                     scans, sweeps, scanning, cleaning, pool, heard, broken, signals,
                     work, was, edits, lost>>
BesideProposals == <<part, leases, notes, branch, answering, run, blocked, txn, inbox,
                     offset, acked, processed, hand, faults, session, action, latest,
                     task, shown, turn, queued, job, answered, issue, comments,
                     questions, answers, imported, posted, exported, synced, cycle,
                     lease, worker, renewing, state, says, phase, ready, http, shutting,
                     poller, stopping, webhook, scanTimer, cleanTimer, scans, sweeps,
                     scanning, cleaning, pool, heard, broken, signals, work, was, edits,
                     lost>>
BesideTelegramActions == <<part, status, leases, notes, branch, answering, run, blocked,
                           txn, supervisor, recent, today, stale, stored, call, turn,
                           queued, job, answered, issue, comments, questions, answers,
                           imported, posted, exported, synced, cycle, lease, worker,
                           renewing, state, says, phase, ready, http, shutting, poller,
                           stopping, webhook, scanTimer, cleanTimer, scans, sweeps,
                           scanning, cleaning, pool, heard, broken, signals, work, was,
                           edits, lost>>
BesideTelegramTurns == <<part, status, leases, notes, branch, answering, run, blocked,
                         txn, supervisor, recent, today, stale, stored, call, session,
                         action, latest, task, shown, issue, comments, questions,
                         answers, imported, posted, exported, synced, cycle, lease,
                         worker, renewing, state, says, phase, ready, http, shutting,
                         poller, stopping, webhook, scanTimer, cleanTimer, scans,
                         sweeps, scanning, cleaning, pool, heard, broken, signals, work,
                         was, edits, lost>>
BesideYandexBridge == <<part, status, leases, branch, answering, run, blocked, txn,
                        supervisor, recent, today, stale, stored, call, inbox, offset,
                        acked, processed, hand, session, action, latest, shown, turn,
                        queued, job, answered, lease, worker, renewing, state, says,
                        phase, ready, http, shutting, poller, stopping, webhook,
                        scanTimer, cleanTimer, scans, sweeps, scanning, cleaning, pool,
                        heard, broken, signals, work, was, edits, lost>>
BesideFleet == <<part, leases, notes, branch, answering, run, blocked, txn, supervisor,
                 recent, today, stale, stored, call, inbox, offset, acked, processed,
                 hand, session, action, latest, task, shown, turn, queued, job,
                 answered, issue, comments, questions, answers, imported, posted,
                 exported, synced, cycle, state, says, phase, ready, http, shutting,
                 poller, stopping, webhook, scanTimer, cleanTimer, scans, sweeps,
                 scanning, cleaning, pool, heard, broken, signals, work, was, edits,
                 lost>>
BesideDirectWorker == <<part, status, leases, notes, answering, blocked, txn,
                        supervisor, recent, today, stale, stored, call, inbox, offset,
                        acked, processed, hand, faults, session, action, latest, task,
                        shown, turn, queued, job, answered, issue, comments, questions,
                        answers, imported, posted, exported, synced, cycle, lease,
                        worker, renewing, phase, ready, http, shutting, poller,
                        stopping, webhook, scanTimer, cleanTimer, scans, sweeps,
                        scanning, cleaning, pool, heard, broken, signals, work, was,
                        edits, lost>>
BesideAppRuntime == <<part, status, leases, notes, branch, answering, run, blocked, txn,
                      supervisor, recent, today, stale, stored, call, inbox, offset,
                      acked, processed, hand, session, action, latest, task, shown,
                      turn, queued, job, answered, issue, comments, questions, answers,
                      imported, posted, exported, synced, cycle, lease, renewing, state,
                      says, work, was, edits, lost>>
BesideIntakeReview == <<part, status, leases, notes, branch, answering, run, blocked,
                        txn, supervisor, recent, today, stale, stored, call, inbox,
                        offset, acked, processed, hand, session, action, latest, task,
                        shown, turn, queued, job, answered, comments, questions,
                        answers, imported, posted, exported, synced, cycle, worker,
                        renewing, state, says, phase, ready, http, shutting, poller,
                        stopping, webhook, scanTimer, cleanTimer, scans, sweeps,
                        scanning, cleaning, pool, heard, broken, signals>>

Next ==
    \/ part = "live" /\ Live!Next /\ UNCHANGED BesideInternalWorker
    \/ part = "follow" /\ Follow!Next /\ UNCHANGED BesideInternalWorker
    \/ part = "collect" /\ Collect!Next /\ UNCHANGED BesideTaskQueue
    \/ part = "stale" /\ Stale!Next /\ UNCHANGED BesideProposals
    \/ part = "approved" /\ Approved!Next /\ UNCHANGED BesideTelegramActions
    \/ part = "turns" /\ Turns!Next /\ UNCHANGED BesideTelegramTurns
    \/ part = "comments" /\ Comments!Next /\ UNCHANGED BesideYandexBridge
    \/ part = "fleet" /\ TheFleet!Next /\ UNCHANGED BesideFleet
    \/ part = "direct" /\ Direct!Next /\ UNCHANGED BesideDirectWorker
    \/ part = "runtime" /\ Runtime!Next /\ UNCHANGED BesideAppRuntime
    \/ part = "intake" /\ Intake!Next /\ UNCHANGED BesideIntakeReview

Spec == Init /\ [][Next]_vars

-----------------------------------------------------------------------------
(* Fairness, that of the modules or less.  The part of a behaviour never     *)
(* changes, so one fair action may stand for an action of each part.         *)

Steady1 ==
    \/ part = "live" /\ (Live!Cycle("w1") \/ Live!Process("w1"))
       /\ UNCHANGED BesideInternalWorker
    \/ part = "follow" /\ (Follow!Cycle("w1") \/ Follow!Process("w1") \/ Follow!Restart("w1"))
       /\ UNCHANGED BesideInternalWorker
    \/ part = "collect" /\ Collect!ClaimNextTask("w1") /\ UNCHANGED BesideTaskQueue
    \/ part = "stale" /\ Stale!ListStale("cleaner") /\ UNCHANGED BesideProposals
    \/ part = "approved" /\ Approved!Work("h1") /\ UNCHANGED BesideTelegramActions
    \/ part = "turns" /\ Turns!Work("h1") /\ UNCHANGED BesideTelegramTurns
    \/ part = "comments" /\ Comments!Step("w1") /\ UNCHANGED BesideYandexBridge
    \/ part = "fleet" /\ TheFleet!Cycle("w1") /\ UNCHANGED BesideFleet
    \/ part = "direct" /\ (Direct!Choose \/ Direct!Process)
       /\ UNCHANGED BesideDirectWorker
    \/ part = "runtime" /\ Runtime!Main /\ UNCHANGED BesideAppRuntime
    \/ part = "intake" /\ (Intake!Search(1) \/ Intake!Pick(1) \/ Intake!Lease(1) \/ Intake!ReadIssue(1)
            \/ Intake!ReadComments(1) \/ Intake!Codex(1) \/ Intake!Compare(1) \/ Intake!Post(1) \/ Intake!Release(1))
       /\ UNCHANGED BesideIntakeReview

Steady2 ==
    \/ part = "live" /\ Live!Tick /\ UNCHANGED BesideInternalWorker
    \/ part = "follow" /\ (Follow!Cycle("w2") \/ Follow!Process("w2") \/ Follow!Restart("w2"))
       /\ UNCHANGED BesideInternalWorker
    \/ part = "collect" /\ Collect!ClaimNextTask("w2") /\ UNCHANGED BesideTaskQueue
    \/ part = "turns" /\ Turns!InBackground(1) /\ UNCHANGED BesideTelegramTurns
    \/ part = "fleet" /\ TheFleet!Cycle("w2") /\ UNCHANGED BesideFleet
    \/ part = "runtime" /\ Runtime!Poll /\ UNCHANGED BesideAppRuntime

Steady3 ==
    \/ part = "live" /\ (Live!AnswerReads("t1") \/ Live!AnswerWakes("t1"))
       /\ UNCHANGED BesideInternalWorker
    \/ part = "follow" /\ Follow!Tick /\ UNCHANGED BesideInternalWorker
    \/ part = "turns" /\ Turns!InBackground(2) /\ UNCHANGED BesideTelegramTurns
    \/ part = "fleet" /\ TheFleet!Expire(<<1, "task">>) /\ UNCHANGED BesideFleet

Steady4 ==
    \/ part = "turns" /\ Turns!InBackground(3) /\ UNCHANGED BesideTelegramTurns
    \/ part = "fleet" /\ TheFleet!Expire(<<1, "repository">>) /\ UNCHANGED BesideFleet

Repeated1 ==
    \/ part = "follow" /\ (Follow!Poll("w1") \/ Follow!Poll("w2"))
       /\ UNCHANGED BesideInternalWorker
    \/ part = "collect" /\ (Collect!LockCandidate("w1") \/ Collect!NoCandidate("w1")
            \/ Collect!LockCandidate("w2") \/ Collect!NoCandidate("w2"))
       /\ UNCHANGED BesideTaskQueue
    \/ part = "stale" /\ Stale!CleanNext("cleaner") /\ UNCHANGED BesideProposals
    \/ part = "direct" /\ Direct!ResumeOwnedTask /\ UNCHANGED BesideDirectWorker

Repeated2 ==
    \/ part = "follow" /\ (Follow!ListLeases("w1") \/ Follow!ListLeases("w2"))
       /\ UNCHANGED BesideInternalWorker
    \/ part = "collect" /\ (Collect!Refuse("w1") \/ Collect!Grant("w1")
            \/ Collect!Refuse("w2") \/ Collect!Grant("w2"))
       /\ UNCHANGED BesideTaskQueue
    \/ part = "stale" /\ Stale!Reject("cleaner") /\ UNCHANGED BesideProposals
    \/ part = "direct" /\ Direct!ResolveResumeContext /\ UNCHANGED BesideDirectWorker

Repeated3 ==
    \/ part = "follow" /\ (Follow!ClaimTask("w1") \/ Follow!ClaimTask("w2"))
       /\ UNCHANGED BesideInternalWorker
    \/ part = "direct" /\ (Direct!Turn /\ run.goal.to = "in_progress")
       /\ UNCHANGED BesideDirectWorker

Repeated4 ==
    \/ part = "follow" /\ (Follow!StartAnalysis("w1") \/ Follow!StartAnalysis("w2"))
       /\ UNCHANGED BesideInternalWorker

FairSpec ==
    /\ Spec
    /\ WF_vars(Steady1) /\ WF_vars(Steady2) /\ WF_vars(Steady3) /\ WF_vars(Steady4)
    /\ SF_vars(Repeated1) /\ SF_vars(Repeated2) /\ SF_vars(Repeated3) /\ SF_vars(Repeated4)

-----------------------------------------------------------------------------
Restless ==
    \/ part = "live" /\ Live!InProgress("t1")
    \/ part = "follow" /\ status["t1"] = "claimed"
    \/ part = "turns" /\ Turns!Running # {}
    \/ part = "runtime" /\ shutting
    \/ part = "intake" /\ ~Intake!Settled
AtRest ==
    \/ part = "live" /\ ~Live!InProgress("t1")
    \/ part = "follow" /\ status["t1"] # "claimed"
    \/ part = "turns" /\ Turns!Running = {}
    \/ part = "runtime" /\ phase = "over"
    \/ part = "intake" /\ Intake!Settled

\* TaskQueue: a lapsed lease does not stay in the way.
LapsedLeaseIsCollected ==
    (part = "collect" /\ Collect!Lapsed("t1"))
        ~> ~(part = "collect" /\ Collect!Lapsed("t1"))

\* Proposals: a stale proposal does not stay open.
StaleIsDecided ==
    (part = "stale" /\ \E p \in {"p1", "p2"} : Stale!Undecided(p))
        ~> ~(part = "stale" /\ \E p \in {"p1", "p2"} : Stale!Undecided(p))

\* TelegramActions: a yes that was taken up is carried out.
ApprovedIsDone ==
    (part = "approved" /\ \E a \in Approved!ActionIds : action[a].status = "executing")
        ~> ~(part = "approved" /\ \E a \in Approved!ActionIds : action[a].status = "executing")

\* YandexBridge: every comment reaches its task.
CommentsArrive ==
    (part = "comments" /\ Comments!Unread(1))
        ~> ~(part = "comments" /\ Comments!Unread(1))

\* Fleet: an open issue is taken up.
IssueIsTaken ==
    (part = "fleet" /\ status[1] = "open")
        ~> ~(part = "fleet" /\ status[1] = "open")

\* DirectWorker: the answer to a question is acted on.
AnswerIsActedOn ==
    (part = "direct" /\ Direct!Answered("i1"))
        ~> ~(part = "direct" /\ Direct!Answered("i1"))

\* InternalWorker: a task does not stay in the hands of the worker for ever, and where
\* workers crash a claimed task is taken up, by whichever worker.  TelegramTurns: without
\* crashes every turn ends.  AppRuntime: told to stop, the process comes to its end.
\* IntakeReview: in the end the last review of an open issue is of what it says.
RestIsReached ==
    Restless ~> AtRest
=============================================================================
