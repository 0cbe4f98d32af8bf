------------ MODULE MCServices ----------------------------------------------
(***************************************************************************)
(* Small instances of the workers and of the services around them.  A      *)
(* behaviour is one of one part; the variables of the others stay 0.  The  *)
(* properties are those of the modules, which say what they are about.     *)
(***************************************************************************)
EXTENDS Naturals, Sequences, FiniteSets, TLC

CONSTANTS
    Parts         \* the parts a run explores

VARIABLES
    part,         \* the part this behaviour is of
    issue, comments, task, questions, answers, notes, imported, posted, exported,
    synced, cycle, faults, goals, proposed, linked, done, runs, asking, status, lease,
    worker, renewing, leases, branch, answering, run, state, says, made, tree, local,
    remote, request, report, work, was, edits, lost, sql, mem, call, answer, calls,
    phase, temp, beat, args, asked, child, held, written, taken, rest, lines, errors,
    timer, kill, observer, message, result, ready, http, shutting, poller, stopping,
    webhook, scanTimer, cleanTimer, scans, sweeps, scanning, cleaning, pool, heard,
    broken, signals, now, log, events, file, torn, times, blocked, lastSent, sending,
    raised, sent, boot, good, stage, start, tracker, profiles, policies, auto, manager,
    yandex, assistant, locking, app, items, attempt, delay, again, got, page, waits,
    requests, unknown, before, removed

vars == <<part, issue, comments, task, questions, answers, notes, imported, posted,
          exported, synced, cycle, faults, goals, proposed, linked, done, runs, asking,
          status, lease, worker, renewing, leases, branch, answering, run, state, says,
          made, tree, local, remote, request, report, work, was, edits, lost, sql, mem,
          call, answer, calls, phase, temp, beat, args, asked, child, held, written,
          taken, rest, lines, errors, timer, kill, observer, message, result, ready,
          http, shutting, poller, stopping, webhook, scanTimer, cleanTimer, scans,
          sweeps, scanning, cleaning, pool, heard, broken, signals, now, log, events,
          file, torn, times, blocked, lastSent, sending, raised, sent, boot, good,
          stage, start, tracker, profiles, policies, auto, manager, yandex, assistant,
          locking, app, items, attempt, delay, again, got, page, waits, requests,
          unknown, before, removed>>

One(t)   == [i \in {"t1"} |-> t]
Two(t)   == [i \in {"t1", "t2"} |-> t]
\* What Codex writes, and arguments it may have been given.
Said     == <<"th", "read", "nl", "nl", "to", "ol", "nl", "er", "ror">>
Options  == {<<"sandbox", "value">>, <<"flag">>, <<"config", "override">>, <<"config", "setting">>, <<"other">>}
Up2      == {<<>>} \cup Options \cup {a \o b : a, b \in Options}
Given    == Up2 \cup {a \o b : a \in Up2, b \in Options}
\* Environments that processes are started in, and settings of the assistant.
Filed    == [file : {TRUE}, preflight : {FALSE}, test : {TRUE}, production : {FALSE}]
Unfiled  == {s \in [file : {FALSE}, preflight : BOOLEAN, test : BOOLEAN, production : BOOLEAN] :
                s.test # s.production}
Assisted == [enabled : BOOLEAN, mode : {"polling", "webhook", "bad"}, path : {"none", "ok", "root"},
             section : BOOLEAN, secret : BOOLEAN, token : BOOLEAN, allowed : BOOLEAN]
Silenced == [enabled : {FALSE}, mode : {"polling"}, path : {"none"},
             section : {FALSE}, secret : {FALSE}, token : {FALSE}, allowed : {FALSE}]

\* Two workers that mirror one issue.
Bridge == INSTANCE YandexBridge WITH
    Workers <- {"w1", "w2"}, Issues <- 1..1, Kinds <- {"plain"}, Resolving <- TRUE,
    MaxComments <- 1, MaxQuestions <- 1, MaxFaults <- 1

\* One worker that mirrors an issue that asks twice, or two issues.
BridgeAlone == INSTANCE YandexBridge WITH
    Workers <- {"w1"}, Issues <- 1..1, Kinds <- {"plain", "command"}, Resolving <- TRUE,
    MaxComments <- 2, MaxQuestions <- 2, MaxFaults <- 2

\* An error with one issue ends the import of the other.
BridgeIssues == INSTANCE YandexBridge WITH
    Workers <- {"w1"}, Issues <- 1..2, Kinds <- {"command"}, Resolving <- FALSE,
    MaxComments <- 1, MaxQuestions <- 1, MaxFaults <- 1

\* Two runs of the project manager, one of which fails or dies.
Goals == INSTANCE ProjectManager WITH
    Runs <- {"r1", "r2"}, Operators <- {"o1"}, Sigs <- {"s1"}, Drafts <- {1},
    Answers <- {<<>>, <<"s1", "s1">>}, MaxGoals <- 2, MaxFaults <- 1

\* Two runs, and goals of two tasks.
Plans == INSTANCE ProjectManager WITH
    Runs <- {"r1", "r2"}, Operators <- {"o1"}, Sigs <- {"s1"}, Drafts <- {1, 2},
    Answers <- {<<>>, <<"s1">>}, MaxGoals <- 2, MaxFaults <- 0

\* A worker of a fleet that hangs or dies at work.
TheFleet == INSTANCE Fleet WITH
    Workers <- {"w1"}, NoWorker <- "nobody", Gone <- "w0", Issues <- {1}, Rank <- <<1>>,
    Checkout <- <<"c">>, Heartbeats <- TRUE, MaxFaults <- 1

\* A worker of the internal tracker, one task, people, and failures of every kind.
Worker == INSTANCE InternalWorker WITH
    Workers <- {"w1"}, Tasks <- {"t1"}, NoTask <- "none", RepoOf <- One("r1"),
    Rank <- One(0), Ttl <- 1, MaxFix <- 1, Verdicts <- {"implement", "ask"},
    Commands <- {"ready"}, Answers <- {"resume"}, Reviews <- {"comment", "merge"},
    Faults <- {"temporary", "permanent", "crash"}

\* A worker of direct mode, one issue, every fault, everyone.
Direct == INSTANCE DirectWorker WITH
    Issues <- {"i1"}, NoIssue <- "none", Order <- [i \in {"i1"} |-> 0], MaxFix <- 1,
    Subtasks <- 1, Verdicts <- {"implement", "ask", "human", "decompose"},
    Commands <- {"resume", "cancel"}, Moves <- {"open"},
    Reviews <- {"comment", "merge"}, Faults <- {"interrupt", "permanent", "refused"}

\* Gates, repairs and reviews of a task, the coverage read from a report,
Gates == INSTANCE QualityGates WITH
    Configured <- {"tests", "coverage"}, ReportFile <- TRUE, Threshold <- 1,
    SelfReview <- TRUE, MaxFix <- 1, MaxReviewFix <- 1, MaxSelfFix <- 1, MaxEdits <- 2,
    MaxFaults <- 1

\* or from the output, and no self-review.
GatesOutput == INSTANCE QualityGates WITH
    Configured <- {"tests", "coverage"}, ReportFile <- FALSE, Threshold <- 1,
    SelfReview <- FALSE, MaxFix <- 1, MaxReviewFix <- 1, MaxSelfFix <- 1, MaxEdits <- 2,
    MaxFaults <- 1

\* Two workers that review the intake of one issue,
Intake == INSTANCE IntakeReview WITH
    Workers <- {1, 2}, Issues <- {1}, Leases <- TRUE, MaxEdits <- 2, MaxFaults <- 1

\* and one that reviews that of two.
IntakeAlone == INSTANCE IntakeReview WITH
    Workers <- {1}, Issues <- {1, 2}, Leases <- FALSE, MaxEdits <- 2, MaxFaults <- 1

\* The stores of the project manager, two callers,
GoalStore == INSTANCE GoalStores WITH
    Callers <- {1, 2}, Signatures <- {"s", "t"}, Tasks <- {1}, MaxGoals <- 2,
    MaxCalls <- 3, MaxFaults <- 1

\* and one.
GoalStoreAlone == INSTANCE GoalStores WITH
    Callers <- {1}, Signatures <- {"s", "t"}, Tasks <- {1}, MaxGoals <- 2,
    MaxCalls <- 5, MaxFaults <- 1

\* A run of Codex, what it writes cut anywhere,
Codex == INSTANCE CodexRunner WITH
    Output <- Said, Configured <- {<<>>}, Overrides <- {FALSE},
    Observers <- {"listen", "throw"}

\* and its arguments, with and without a sandbox asked for.
CodexArgs == INSTANCE CodexRunner WITH
    Output <- <<>>, Configured <- Given, Overrides <- BOOLEAN, Observers <- {"throw"}

\* The process, polling,
Runtime == INSTANCE AppRuntime WITH
    Polling <- TRUE, Strict <- FALSE, RunOnce <- FALSE, MaxFaults <- 2, MaxSignals <- 2

\* by webhook,
RuntimeHooked == INSTANCE AppRuntime WITH
    Polling <- FALSE, Strict <- FALSE, RunOnce <- FALSE, MaxFaults <- 2, MaxSignals <- 2

\* and for one cycle, strict.
RuntimeOnce == INSTANCE AppRuntime WITH
    Polling <- TRUE, Strict <- TRUE, RunOnce <- TRUE, MaxFaults <- 2, MaxSignals <- 2

\* Alerts on failures that are repeated,
Alerts == INSTANCE Telemetry WITH
    Kinds <- {"gate1", "gate2", "implementation_timeout", "self_review_timeout"},
    Issues <- {1}, Muted <- {}, Retention <- 2, Window <- 1, Threshold <- 2, Dedup <- 2,
    MaxEvents <- 4, MaxTime <- 3, MaxFaults <- 0

\* of two issues,
AlertsIssues == INSTANCE Telemetry WITH
    Kinds <- {"gate1", "blocked"}, Issues <- {1, 2}, Muted <- {}, Retention <- 2,
    Window <- 1, Threshold <- 2, Dedup <- 2, MaxEvents <- 4, MaxTime <- 2,
    MaxFaults <- 0

\* on a queue that is blocked,
AlertsBlocked == INSTANCE Telemetry WITH
    Kinds <- {"blocked", "picked", "other"}, Issues <- {1}, Muted <- {}, Retention <- 2,
    Window <- 1, Threshold <- 2, Dedup <- 2, MaxEvents <- 5, MaxTime <- 1,
    MaxFaults <- 1

\* on every failure,
AlertsFailed == INSTANCE Telemetry WITH
    Kinds <- {"failed", "ready"}, Issues <- {1}, Muted <- {"ready"}, Retention <- 2,
    Window <- 1, Threshold <- 2, Dedup <- 2, MaxEvents <- 3, MaxTime <- 3,
    MaxFaults <- 1

\* and events that outlive crashes.
EventsKept == INSTANCE Telemetry WITH
    Kinds <- {"other"}, Issues <- {1}, Muted <- {}, Retention <- 2, Window <- 1,
    Threshold <- 2, Dedup <- 2, MaxEvents <- 5, MaxTime <- 0, MaxFaults <- 3

\* Settings of the environment, an assistant among them,
Config == INSTANCE Configuration WITH
    Names <- {"default"}, Lower <- [n \in {"default"} |-> "default"],
    Single <- "default", Starts <- Unfiled, Assistants <- Assisted, MaxProfiles <- 1

\* and a file with repositories whose names differ in case.
ConfigFile == INSTANCE Configuration WITH
    Names <- {"Default", "default"},
    Lower <- [n \in {"Default", "default"} |-> "default"], Single <- "default",
    Starts <- Filed, Assistants <- Silenced, MaxProfiles <- 2

\* Requests, five of which go wrong,
Requests == INSTANCE ApiClients WITH
    Services <- {"tracker", "gitlab", "telegram", "startup"}, Lists <- {FALSE},
    Flaws <- {"html", "reply"}, PerPage <- 2, MaxItems <- 0, MaxFaults <- 5

\* and lists of several pages, while others change them.
Listing == INSTANCE ApiClients WITH
    Services <- {"tracker"}, Lists <- {TRUE}, Flaws <- {}, PerPage <- 2, MaxItems <- 3,
    MaxFaults <- 1

-----------------------------------------------------------------------------
(* The variables a part has no use for *)

NoYandexBridge == goals = 0 /\ proposed = 0 /\ linked = 0 /\ done = 0 /\ runs = 0 /\
                  asking = 0 /\ status = 0 /\ lease = 0 /\ worker = 0 /\ renewing = 0 /\
                  leases = 0 /\ branch = 0 /\ answering = 0 /\ run = 0 /\ state = 0 /\
                  says = 0 /\ made = 0 /\ tree = 0 /\ local = 0 /\ remote = 0 /\
                  request = 0 /\ report = 0 /\ work = 0 /\ was = 0 /\ edits = 0 /\
                  lost = 0 /\ sql = 0 /\ mem = 0 /\ call = 0 /\ answer = 0 /\
                  calls = 0 /\ phase = 0 /\ temp = 0 /\ beat = 0 /\ args = 0 /\
                  asked = 0 /\ child = 0 /\ held = 0 /\ written = 0 /\ taken = 0 /\
                  rest = 0 /\ lines = 0 /\ errors = 0 /\ timer = 0 /\ kill = 0 /\
                  observer = 0 /\ message = 0 /\ result = 0 /\ ready = 0 /\ http = 0 /\
                  shutting = 0 /\ poller = 0 /\ stopping = 0 /\ webhook = 0 /\
                  scanTimer = 0 /\ cleanTimer = 0 /\ scans = 0 /\ sweeps = 0 /\
                  scanning = 0 /\ cleaning = 0 /\ pool = 0 /\ heard = 0 /\ broken = 0 /\
                  signals = 0 /\ now = 0 /\ log = 0 /\ events = 0 /\ file = 0 /\
                  torn = 0 /\ times = 0 /\ blocked = 0 /\ lastSent = 0 /\ sending = 0 /\
                  raised = 0 /\ sent = 0 /\ boot = 0 /\ good = 0 /\ stage = 0 /\
                  start = 0 /\ tracker = 0 /\ profiles = 0 /\ policies = 0 /\
                  auto = 0 /\ manager = 0 /\ yandex = 0 /\ assistant = 0 /\
                  locking = 0 /\ app = 0 /\ items = 0 /\ attempt = 0 /\ delay = 0 /\
                  again = 0 /\ got = 0 /\ page = 0 /\ waits = 0 /\ requests = 0 /\
                  unknown = 0 /\ before = 0 /\ removed = 0
NoProjectManager == issue = 0 /\ comments = 0 /\ task = 0 /\ questions = 0 /\
                    answers = 0 /\ notes = 0 /\ imported = 0 /\ posted = 0 /\
                    exported = 0 /\ synced = 0 /\ cycle = 0 /\ status = 0 /\
                    lease = 0 /\ worker = 0 /\ renewing = 0 /\ leases = 0 /\
                    branch = 0 /\ answering = 0 /\ run = 0 /\ state = 0 /\ says = 0 /\
                    made = 0 /\ tree = 0 /\ local = 0 /\ remote = 0 /\ request = 0 /\
                    report = 0 /\ work = 0 /\ was = 0 /\ edits = 0 /\ lost = 0 /\
                    sql = 0 /\ mem = 0 /\ call = 0 /\ answer = 0 /\ calls = 0 /\
                    phase = 0 /\ temp = 0 /\ beat = 0 /\ args = 0 /\ asked = 0 /\
                    child = 0 /\ held = 0 /\ written = 0 /\ taken = 0 /\ rest = 0 /\
                    lines = 0 /\ errors = 0 /\ timer = 0 /\ kill = 0 /\ observer = 0 /\
                    message = 0 /\ result = 0 /\ ready = 0 /\ http = 0 /\
                    shutting = 0 /\ poller = 0 /\ stopping = 0 /\ webhook = 0 /\
                    scanTimer = 0 /\ cleanTimer = 0 /\ scans = 0 /\ sweeps = 0 /\
                    scanning = 0 /\ cleaning = 0 /\ pool = 0 /\ heard = 0 /\
                    broken = 0 /\ signals = 0 /\ now = 0 /\ log = 0 /\ events = 0 /\
                    file = 0 /\ torn = 0 /\ times = 0 /\ blocked = 0 /\ lastSent = 0 /\
                    sending = 0 /\ raised = 0 /\ sent = 0 /\ boot = 0 /\ good = 0 /\
                    stage = 0 /\ start = 0 /\ tracker = 0 /\ profiles = 0 /\
                    policies = 0 /\ auto = 0 /\ manager = 0 /\ yandex = 0 /\
                    assistant = 0 /\ locking = 0 /\ app = 0 /\ items = 0 /\
                    attempt = 0 /\ delay = 0 /\ again = 0 /\ got = 0 /\ page = 0 /\
                    waits = 0 /\ requests = 0 /\ unknown = 0 /\ before = 0 /\
                    removed = 0
NoFleet == issue = 0 /\ comments = 0 /\ task = 0 /\ questions = 0 /\ answers = 0 /\
           notes = 0 /\ imported = 0 /\ posted = 0 /\ exported = 0 /\ synced = 0 /\
           cycle = 0 /\ goals = 0 /\ proposed = 0 /\ linked = 0 /\ done = 0 /\
           runs = 0 /\ asking = 0 /\ leases = 0 /\ branch = 0 /\ answering = 0 /\
           run = 0 /\ state = 0 /\ says = 0 /\ made = 0 /\ tree = 0 /\ local = 0 /\
           remote = 0 /\ request = 0 /\ report = 0 /\ work = 0 /\ was = 0 /\
           edits = 0 /\ lost = 0 /\ sql = 0 /\ mem = 0 /\ call = 0 /\ answer = 0 /\
           calls = 0 /\ phase = 0 /\ temp = 0 /\ beat = 0 /\ args = 0 /\ asked = 0 /\
           child = 0 /\ held = 0 /\ written = 0 /\ taken = 0 /\ rest = 0 /\ lines = 0 /\
           errors = 0 /\ timer = 0 /\ kill = 0 /\ observer = 0 /\ message = 0 /\
           result = 0 /\ ready = 0 /\ http = 0 /\ shutting = 0 /\ poller = 0 /\
           stopping = 0 /\ webhook = 0 /\ scanTimer = 0 /\ cleanTimer = 0 /\
           scans = 0 /\ sweeps = 0 /\ scanning = 0 /\ cleaning = 0 /\ pool = 0 /\
           heard = 0 /\ broken = 0 /\ signals = 0 /\ now = 0 /\ log = 0 /\ events = 0 /\
           file = 0 /\ torn = 0 /\ times = 0 /\ blocked = 0 /\ lastSent = 0 /\
           sending = 0 /\ raised = 0 /\ sent = 0 /\ boot = 0 /\ good = 0 /\ stage = 0 /\
           start = 0 /\ tracker = 0 /\ profiles = 0 /\ policies = 0 /\ auto = 0 /\
           manager = 0 /\ yandex = 0 /\ assistant = 0 /\ locking = 0 /\ app = 0 /\
           items = 0 /\ attempt = 0 /\ delay = 0 /\ again = 0 /\ got = 0 /\ page = 0 /\
           waits = 0 /\ requests = 0 /\ unknown = 0 /\ before = 0 /\ removed = 0
NoInternalWorker == issue = 0 /\ comments = 0 /\ task = 0 /\ questions = 0 /\
                    answers = 0 /\ imported = 0 /\ posted = 0 /\ exported = 0 /\
                    synced = 0 /\ cycle = 0 /\ faults = 0 /\ goals = 0 /\
                    proposed = 0 /\ linked = 0 /\ done = 0 /\ runs = 0 /\ asking = 0 /\
                    lease = 0 /\ worker = 0 /\ renewing = 0 /\ state = 0 /\ says = 0 /\
                    made = 0 /\ tree = 0 /\ local = 0 /\ remote = 0 /\ request = 0 /\
                    report = 0 /\ work = 0 /\ was = 0 /\ edits = 0 /\ lost = 0 /\
                    sql = 0 /\ mem = 0 /\ call = 0 /\ answer = 0 /\ calls = 0 /\
                    phase = 0 /\ temp = 0 /\ beat = 0 /\ args = 0 /\ asked = 0 /\
                    child = 0 /\ held = 0 /\ written = 0 /\ taken = 0 /\ rest = 0 /\
                    lines = 0 /\ errors = 0 /\ timer = 0 /\ kill = 0 /\ observer = 0 /\
                    message = 0 /\ result = 0 /\ ready = 0 /\ http = 0 /\
                    shutting = 0 /\ poller = 0 /\ stopping = 0 /\ webhook = 0 /\
                    scanTimer = 0 /\ cleanTimer = 0 /\ scans = 0 /\ sweeps = 0 /\
                    scanning = 0 /\ cleaning = 0 /\ pool = 0 /\ heard = 0 /\
                    broken = 0 /\ signals = 0 /\ now = 0 /\ log = 0 /\ events = 0 /\
                    file = 0 /\ torn = 0 /\ times = 0 /\ blocked = 0 /\ lastSent = 0 /\
                    sending = 0 /\ raised = 0 /\ sent = 0 /\ boot = 0 /\ good = 0 /\
                    stage = 0 /\ start = 0 /\ tracker = 0 /\ profiles = 0 /\
                    policies = 0 /\ auto = 0 /\ manager = 0 /\ yandex = 0 /\
                    assistant = 0 /\ locking = 0 /\ app = 0 /\ items = 0 /\
                    attempt = 0 /\ delay = 0 /\ again = 0 /\ got = 0 /\ page = 0 /\
                    waits = 0 /\ requests = 0 /\ unknown = 0 /\ before = 0 /\
                    removed = 0
NoDirectWorker == issue = 0 /\ comments = 0 /\ task = 0 /\ questions = 0 /\
                  answers = 0 /\ notes = 0 /\ imported = 0 /\ posted = 0 /\
                  exported = 0 /\ synced = 0 /\ cycle = 0 /\ faults = 0 /\ goals = 0 /\
                  proposed = 0 /\ linked = 0 /\ done = 0 /\ runs = 0 /\ asking = 0 /\
                  status = 0 /\ lease = 0 /\ worker = 0 /\ renewing = 0 /\ leases = 0 /\
                  answering = 0 /\ made = 0 /\ tree = 0 /\ local = 0 /\ remote = 0 /\
                  request = 0 /\ report = 0 /\ work = 0 /\ was = 0 /\ edits = 0 /\
                  lost = 0 /\ sql = 0 /\ mem = 0 /\ call = 0 /\ answer = 0 /\
                  calls = 0 /\ phase = 0 /\ temp = 0 /\ beat = 0 /\ args = 0 /\
                  asked = 0 /\ child = 0 /\ held = 0 /\ written = 0 /\ taken = 0 /\
                  rest = 0 /\ lines = 0 /\ errors = 0 /\ timer = 0 /\ kill = 0 /\
                  observer = 0 /\ message = 0 /\ result = 0 /\ ready = 0 /\ http = 0 /\
                  shutting = 0 /\ poller = 0 /\ stopping = 0 /\ webhook = 0 /\
                  scanTimer = 0 /\ cleanTimer = 0 /\ scans = 0 /\ sweeps = 0 /\
                  scanning = 0 /\ cleaning = 0 /\ pool = 0 /\ heard = 0 /\ broken = 0 /\
                  signals = 0 /\ now = 0 /\ log = 0 /\ events = 0 /\ file = 0 /\
                  torn = 0 /\ times = 0 /\ blocked = 0 /\ lastSent = 0 /\ sending = 0 /\
                  raised = 0 /\ sent = 0 /\ boot = 0 /\ good = 0 /\ stage = 0 /\
                  start = 0 /\ tracker = 0 /\ profiles = 0 /\ policies = 0 /\
                  auto = 0 /\ manager = 0 /\ yandex = 0 /\ assistant = 0 /\
                  locking = 0 /\ app = 0 /\ items = 0 /\ attempt = 0 /\ delay = 0 /\
                  again = 0 /\ got = 0 /\ page = 0 /\ waits = 0 /\ requests = 0 /\
                  unknown = 0 /\ before = 0 /\ removed = 0
NoQualityGates == issue = 0 /\ comments = 0 /\ task = 0 /\ questions = 0 /\
                  answers = 0 /\ notes = 0 /\ imported = 0 /\ posted = 0 /\
                  exported = 0 /\ synced = 0 /\ cycle = 0 /\ goals = 0 /\
                  proposed = 0 /\ linked = 0 /\ done = 0 /\ runs = 0 /\ asking = 0 /\
                  status = 0 /\ lease = 0 /\ worker = 0 /\ renewing = 0 /\ leases = 0 /\
                  branch = 0 /\ answering = 0 /\ run = 0 /\ state = 0 /\ says = 0 /\
                  was = 0 /\ edits = 0 /\ lost = 0 /\ sql = 0 /\ mem = 0 /\ call = 0 /\
                  answer = 0 /\ calls = 0 /\ phase = 0 /\ temp = 0 /\ beat = 0 /\
                  args = 0 /\ asked = 0 /\ child = 0 /\ held = 0 /\ written = 0 /\
                  taken = 0 /\ rest = 0 /\ lines = 0 /\ errors = 0 /\ timer = 0 /\
                  kill = 0 /\ observer = 0 /\ message = 0 /\ result = 0 /\ ready = 0 /\
                  http = 0 /\ shutting = 0 /\ poller = 0 /\ stopping = 0 /\
                  webhook = 0 /\ scanTimer = 0 /\ cleanTimer = 0 /\ scans = 0 /\
                  sweeps = 0 /\ scanning = 0 /\ cleaning = 0 /\ pool = 0 /\ heard = 0 /\
                  broken = 0 /\ signals = 0 /\ now = 0 /\ log = 0 /\ events = 0 /\
                  file = 0 /\ torn = 0 /\ times = 0 /\ blocked = 0 /\ lastSent = 0 /\
                  sending = 0 /\ raised = 0 /\ sent = 0 /\ boot = 0 /\ good = 0 /\
                  stage = 0 /\ start = 0 /\ tracker = 0 /\ profiles = 0 /\
                  policies = 0 /\ auto = 0 /\ manager = 0 /\ yandex = 0 /\
                  assistant = 0 /\ locking = 0 /\ app = 0 /\ items = 0 /\ attempt = 0 /\
                  delay = 0 /\ again = 0 /\ got = 0 /\ page = 0 /\ waits = 0 /\
                  requests = 0 /\ unknown = 0 /\ before = 0 /\ removed = 0
NoIntakeReview == comments = 0 /\ task = 0 /\ questions = 0 /\ answers = 0 /\
                  notes = 0 /\ imported = 0 /\ posted = 0 /\ exported = 0 /\
                  synced = 0 /\ cycle = 0 /\ goals = 0 /\ proposed = 0 /\ linked = 0 /\
                  done = 0 /\ runs = 0 /\ asking = 0 /\ status = 0 /\ worker = 0 /\
                  renewing = 0 /\ leases = 0 /\ branch = 0 /\ answering = 0 /\
                  run = 0 /\ state = 0 /\ says = 0 /\ made = 0 /\ tree = 0 /\
                  local = 0 /\ remote = 0 /\ request = 0 /\ report = 0 /\ sql = 0 /\
                  mem = 0 /\ call = 0 /\ answer = 0 /\ calls = 0 /\ phase = 0 /\
                  temp = 0 /\ beat = 0 /\ args = 0 /\ asked = 0 /\ child = 0 /\
                  held = 0 /\ written = 0 /\ taken = 0 /\ rest = 0 /\ lines = 0 /\
                  errors = 0 /\ timer = 0 /\ kill = 0 /\ observer = 0 /\ message = 0 /\
                  result = 0 /\ ready = 0 /\ http = 0 /\ shutting = 0 /\ poller = 0 /\
                  stopping = 0 /\ webhook = 0 /\ scanTimer = 0 /\ cleanTimer = 0 /\
                  scans = 0 /\ sweeps = 0 /\ scanning = 0 /\ cleaning = 0 /\ pool = 0 /\
                  heard = 0 /\ broken = 0 /\ signals = 0 /\ now = 0 /\ log = 0 /\
                  events = 0 /\ file = 0 /\ torn = 0 /\ times = 0 /\ blocked = 0 /\
                  lastSent = 0 /\ sending = 0 /\ raised = 0 /\ sent = 0 /\ boot = 0 /\
                  good = 0 /\ stage = 0 /\ start = 0 /\ tracker = 0 /\ profiles = 0 /\
                  policies = 0 /\ auto = 0 /\ manager = 0 /\ yandex = 0 /\
                  assistant = 0 /\ locking = 0 /\ app = 0 /\ items = 0 /\ attempt = 0 /\
                  delay = 0 /\ again = 0 /\ got = 0 /\ page = 0 /\ waits = 0 /\
                  requests = 0 /\ unknown = 0 /\ before = 0 /\ removed = 0
NoGoalStores == issue = 0 /\ comments = 0 /\ task = 0 /\ questions = 0 /\ answers = 0 /\
                notes = 0 /\ imported = 0 /\ posted = 0 /\ exported = 0 /\ synced = 0 /\
                cycle = 0 /\ goals = 0 /\ proposed = 0 /\ linked = 0 /\ done = 0 /\
                runs = 0 /\ asking = 0 /\ status = 0 /\ lease = 0 /\ worker = 0 /\
                renewing = 0 /\ leases = 0 /\ branch = 0 /\ answering = 0 /\ run = 0 /\
                state = 0 /\ says = 0 /\ made = 0 /\ tree = 0 /\ local = 0 /\
                remote = 0 /\ request = 0 /\ report = 0 /\ work = 0 /\ was = 0 /\
                edits = 0 /\ lost = 0 /\ phase = 0 /\ temp = 0 /\ beat = 0 /\
                args = 0 /\ asked = 0 /\ child = 0 /\ held = 0 /\ written = 0 /\
                taken = 0 /\ rest = 0 /\ lines = 0 /\ errors = 0 /\ timer = 0 /\
                kill = 0 /\ observer = 0 /\ message = 0 /\ result = 0 /\ ready = 0 /\
                http = 0 /\ shutting = 0 /\ poller = 0 /\ stopping = 0 /\ webhook = 0 /\
                scanTimer = 0 /\ cleanTimer = 0 /\ scans = 0 /\ sweeps = 0 /\
                scanning = 0 /\ cleaning = 0 /\ pool = 0 /\ heard = 0 /\ broken = 0 /\
                signals = 0 /\ now = 0 /\ log = 0 /\ events = 0 /\ file = 0 /\
                torn = 0 /\ times = 0 /\ blocked = 0 /\ lastSent = 0 /\ sending = 0 /\
                raised = 0 /\ sent = 0 /\ boot = 0 /\ good = 0 /\ stage = 0 /\
                start = 0 /\ tracker = 0 /\ profiles = 0 /\ policies = 0 /\ auto = 0 /\
                manager = 0 /\ yandex = 0 /\ assistant = 0 /\ locking = 0 /\ app = 0 /\
                items = 0 /\ attempt = 0 /\ delay = 0 /\ again = 0 /\ got = 0 /\
                page = 0 /\ waits = 0 /\ requests = 0 /\ unknown = 0 /\ before = 0 /\
                removed = 0
NoCodexRunner == issue = 0 /\ comments = 0 /\ task = 0 /\ questions = 0 /\
                 answers = 0 /\ notes = 0 /\ imported = 0 /\ posted = 0 /\
                 exported = 0 /\ synced = 0 /\ cycle = 0 /\ faults = 0 /\ goals = 0 /\
                 proposed = 0 /\ linked = 0 /\ done = 0 /\ runs = 0 /\ asking = 0 /\
                 status = 0 /\ lease = 0 /\ worker = 0 /\ renewing = 0 /\ leases = 0 /\
                 branch = 0 /\ answering = 0 /\ run = 0 /\ state = 0 /\ says = 0 /\
                 made = 0 /\ tree = 0 /\ local = 0 /\ remote = 0 /\ request = 0 /\
                 report = 0 /\ work = 0 /\ was = 0 /\ edits = 0 /\ lost = 0 /\
                 sql = 0 /\ mem = 0 /\ call = 0 /\ answer = 0 /\ calls = 0 /\
                 ready = 0 /\ http = 0 /\ shutting = 0 /\ poller = 0 /\ stopping = 0 /\
                 webhook = 0 /\ scanTimer = 0 /\ cleanTimer = 0 /\ scans = 0 /\
                 sweeps = 0 /\ scanning = 0 /\ cleaning = 0 /\ pool = 0 /\ heard = 0 /\
                 broken = 0 /\ signals = 0 /\ now = 0 /\ log = 0 /\ events = 0 /\
                 file = 0 /\ torn = 0 /\ times = 0 /\ blocked = 0 /\ lastSent = 0 /\
                 sending = 0 /\ raised = 0 /\ sent = 0 /\ boot = 0 /\ good = 0 /\
                 stage = 0 /\ start = 0 /\ tracker = 0 /\ profiles = 0 /\
                 policies = 0 /\ auto = 0 /\ manager = 0 /\ yandex = 0 /\
                 assistant = 0 /\ locking = 0 /\ app = 0 /\ items = 0 /\ attempt = 0 /\
                 delay = 0 /\ again = 0 /\ got = 0 /\ page = 0 /\ waits = 0 /\
                 requests = 0 /\ unknown = 0 /\ before = 0 /\ removed = 0
NoAppRuntime == issue = 0 /\ comments = 0 /\ task = 0 /\ questions = 0 /\ answers = 0 /\
                notes = 0 /\ imported = 0 /\ posted = 0 /\ exported = 0 /\ synced = 0 /\
                cycle = 0 /\ goals = 0 /\ proposed = 0 /\ linked = 0 /\ done = 0 /\
                runs = 0 /\ asking = 0 /\ status = 0 /\ lease = 0 /\ renewing = 0 /\
                leases = 0 /\ branch = 0 /\ answering = 0 /\ run = 0 /\ state = 0 /\
                says = 0 /\ made = 0 /\ tree = 0 /\ local = 0 /\ remote = 0 /\
                request = 0 /\ report = 0 /\ work = 0 /\ was = 0 /\ edits = 0 /\
                lost = 0 /\ sql = 0 /\ mem = 0 /\ call = 0 /\ answer = 0 /\ calls = 0 /\
                temp = 0 /\ beat = 0 /\ args = 0 /\ asked = 0 /\ child = 0 /\
                held = 0 /\ written = 0 /\ taken = 0 /\ rest = 0 /\ lines = 0 /\
                errors = 0 /\ timer = 0 /\ kill = 0 /\ observer = 0 /\ message = 0 /\
                result = 0 /\ now = 0 /\ log = 0 /\ events = 0 /\ file = 0 /\
                torn = 0 /\ times = 0 /\ blocked = 0 /\ lastSent = 0 /\ sending = 0 /\
                raised = 0 /\ sent = 0 /\ boot = 0 /\ good = 0 /\ stage = 0 /\
                start = 0 /\ tracker = 0 /\ profiles = 0 /\ policies = 0 /\ auto = 0 /\
                manager = 0 /\ yandex = 0 /\ assistant = 0 /\ locking = 0 /\ app = 0 /\
                items = 0 /\ attempt = 0 /\ delay = 0 /\ again = 0 /\ got = 0 /\
                page = 0 /\ waits = 0 /\ requests = 0 /\ unknown = 0 /\ before = 0 /\
                removed = 0
NoTelemetry == issue = 0 /\ comments = 0 /\ task = 0 /\ questions = 0 /\ answers = 0 /\
               notes = 0 /\ imported = 0 /\ posted = 0 /\ exported = 0 /\ synced = 0 /\
               cycle = 0 /\ goals = 0 /\ proposed = 0 /\ linked = 0 /\ done = 0 /\
               runs = 0 /\ asking = 0 /\ status = 0 /\ lease = 0 /\ worker = 0 /\
               renewing = 0 /\ leases = 0 /\ branch = 0 /\ answering = 0 /\ run = 0 /\
               state = 0 /\ says = 0 /\ made = 0 /\ tree = 0 /\ local = 0 /\
               remote = 0 /\ request = 0 /\ report = 0 /\ work = 0 /\ was = 0 /\
               edits = 0 /\ sql = 0 /\ mem = 0 /\ call = 0 /\ answer = 0 /\ calls = 0 /\
               phase = 0 /\ temp = 0 /\ beat = 0 /\ args = 0 /\ asked = 0 /\
               child = 0 /\ held = 0 /\ written = 0 /\ taken = 0 /\ rest = 0 /\
               lines = 0 /\ errors = 0 /\ timer = 0 /\ kill = 0 /\ observer = 0 /\
               message = 0 /\ result = 0 /\ ready = 0 /\ http = 0 /\ shutting = 0 /\
               poller = 0 /\ stopping = 0 /\ webhook = 0 /\ scanTimer = 0 /\
               cleanTimer = 0 /\ scans = 0 /\ sweeps = 0 /\ scanning = 0 /\
               cleaning = 0 /\ pool = 0 /\ heard = 0 /\ broken = 0 /\ signals = 0 /\
               stage = 0 /\ start = 0 /\ tracker = 0 /\ profiles = 0 /\ policies = 0 /\
               auto = 0 /\ manager = 0 /\ yandex = 0 /\ assistant = 0 /\ locking = 0 /\
               app = 0 /\ items = 0 /\ attempt = 0 /\ delay = 0 /\ again = 0 /\
               got = 0 /\ page = 0 /\ waits = 0 /\ requests = 0 /\ unknown = 0 /\
               before = 0 /\ removed = 0
NoConfiguration == issue = 0 /\ comments = 0 /\ task = 0 /\ questions = 0 /\
                   answers = 0 /\ notes = 0 /\ imported = 0 /\ posted = 0 /\
                   exported = 0 /\ synced = 0 /\ cycle = 0 /\ faults = 0 /\ goals = 0 /\
                   proposed = 0 /\ linked = 0 /\ done = 0 /\ runs = 0 /\ asking = 0 /\
                   status = 0 /\ lease = 0 /\ worker = 0 /\ renewing = 0 /\
                   leases = 0 /\ branch = 0 /\ answering = 0 /\ run = 0 /\ state = 0 /\
                   says = 0 /\ made = 0 /\ tree = 0 /\ local = 0 /\ remote = 0 /\
                   request = 0 /\ report = 0 /\ work = 0 /\ was = 0 /\ edits = 0 /\
                   lost = 0 /\ sql = 0 /\ mem = 0 /\ call = 0 /\ answer = 0 /\
                   calls = 0 /\ phase = 0 /\ temp = 0 /\ beat = 0 /\ args = 0 /\
                   asked = 0 /\ child = 0 /\ held = 0 /\ written = 0 /\ taken = 0 /\
                   rest = 0 /\ lines = 0 /\ errors = 0 /\ timer = 0 /\ kill = 0 /\
                   observer = 0 /\ message = 0 /\ result = 0 /\ ready = 0 /\ http = 0 /\
                   shutting = 0 /\ poller = 0 /\ stopping = 0 /\ webhook = 0 /\
                   scanTimer = 0 /\ cleanTimer = 0 /\ scans = 0 /\ sweeps = 0 /\
                   scanning = 0 /\ cleaning = 0 /\ pool = 0 /\ heard = 0 /\
                   broken = 0 /\ signals = 0 /\ now = 0 /\ log = 0 /\ events = 0 /\
                   file = 0 /\ torn = 0 /\ times = 0 /\ blocked = 0 /\ lastSent = 0 /\
                   sending = 0 /\ raised = 0 /\ sent = 0 /\ boot = 0 /\ good = 0 /\
                   items = 0 /\ attempt = 0 /\ delay = 0 /\ again = 0 /\ got = 0 /\
                   page = 0 /\ waits = 0 /\ requests = 0 /\ unknown = 0 /\ before = 0 /\
                   removed = 0
NoApiClients == issue = 0 /\ comments = 0 /\ task = 0 /\ questions = 0 /\ answers = 0 /\
                notes = 0 /\ imported = 0 /\ posted = 0 /\ exported = 0 /\ synced = 0 /\
                cycle = 0 /\ goals = 0 /\ proposed = 0 /\ linked = 0 /\ done = 0 /\
                runs = 0 /\ asking = 0 /\ status = 0 /\ lease = 0 /\ worker = 0 /\
                renewing = 0 /\ leases = 0 /\ branch = 0 /\ answering = 0 /\ run = 0 /\
                state = 0 /\ says = 0 /\ made = 0 /\ tree = 0 /\ local = 0 /\
                remote = 0 /\ request = 0 /\ report = 0 /\ work = 0 /\ was = 0 /\
                edits = 0 /\ lost = 0 /\ sql = 0 /\ mem = 0 /\ answer = 0 /\
                calls = 0 /\ temp = 0 /\ beat = 0 /\ args = 0 /\ asked = 0 /\
                child = 0 /\ held = 0 /\ written = 0 /\ taken = 0 /\ rest = 0 /\
                lines = 0 /\ errors = 0 /\ timer = 0 /\ kill = 0 /\ observer = 0 /\
                message = 0 /\ result = 0 /\ ready = 0 /\ http = 0 /\ shutting = 0 /\
                poller = 0 /\ stopping = 0 /\ webhook = 0 /\ scanTimer = 0 /\
                cleanTimer = 0 /\ scans = 0 /\ sweeps = 0 /\ scanning = 0 /\
                cleaning = 0 /\ pool = 0 /\ heard = 0 /\ broken = 0 /\ signals = 0 /\
                now = 0 /\ log = 0 /\ events = 0 /\ file = 0 /\ torn = 0 /\ times = 0 /\
                blocked = 0 /\ lastSent = 0 /\ sending = 0 /\ raised = 0 /\ sent = 0 /\
                boot = 0 /\ good = 0 /\ stage = 0 /\ start = 0 /\ tracker = 0 /\
                profiles = 0 /\ policies = 0 /\ auto = 0 /\ manager = 0 /\ yandex = 0 /\
                assistant = 0 /\ locking = 0 /\ app = 0

Init ==
    /\ part \in Parts
    /\ \/ part = "bridge" /\ Bridge!Init /\ NoYandexBridge
       \/ part = "bridge_alone" /\ BridgeAlone!Init /\ NoYandexBridge
       \/ part = "bridge_issues" /\ BridgeIssues!Init /\ NoYandexBridge
       \/ part = "goals" /\ Goals!Init /\ NoProjectManager
       \/ part = "plans" /\ Plans!Init /\ NoProjectManager
       \/ part = "fleet" /\ TheFleet!Init /\ NoFleet
       \/ part = "worker" /\ Worker!Init /\ NoInternalWorker
       \/ part = "direct" /\ Direct!Init /\ NoDirectWorker
       \/ part = "gates" /\ Gates!Init /\ NoQualityGates
       \/ part = "gates_output" /\ GatesOutput!Init /\ NoQualityGates
       \/ part = "intake" /\ Intake!Init /\ NoIntakeReview
       \/ part = "intake_alone" /\ IntakeAlone!Init /\ NoIntakeReview
       \/ part = "goal_stores" /\ GoalStore!Init /\ NoGoalStores
       \/ part = "goal_store_alone" /\ GoalStoreAlone!Init /\ NoGoalStores
       \/ part = "codex" /\ Codex!Init /\ NoCodexRunner
       \/ part = "codex_args" /\ CodexArgs!Init /\ NoCodexRunner
       \/ part = "runtime" /\ Runtime!Init /\ NoAppRuntime
       \/ part = "runtime_hooked" /\ RuntimeHooked!Init /\ NoAppRuntime
       \/ part = "runtime_once" /\ RuntimeOnce!Init /\ NoAppRuntime
       \/ part = "alerts" /\ Alerts!Init /\ NoTelemetry
       \/ part = "alerts_issues" /\ AlertsIssues!Init /\ NoTelemetry
       \/ part = "alerts_blocked" /\ AlertsBlocked!Init /\ NoTelemetry
       \/ part = "alerts_failed" /\ AlertsFailed!Init /\ NoTelemetry
       \/ part = "events_kept" /\ EventsKept!Init /\ NoTelemetry
       \/ part = "config" /\ Config!Init /\ NoConfiguration
       \/ part = "config_file" /\ ConfigFile!Init /\ NoConfiguration
       \/ part = "requests" /\ Requests!Init /\ NoApiClients
       \/ part = "lists" /\ Listing!Init /\ NoApiClients

BesideYandexBridge == <<part, goals, proposed, linked, done, runs, asking, status,
                        lease, worker, renewing, leases, branch, answering, run, state,
                        says, made, tree, local, remote, request, report, work, was,
                        edits, lost, sql, mem, call, answer, calls, phase, temp, beat,
                        args, asked, child, held, written, taken, rest, lines, errors,
                        timer, kill, observer, message, result, ready, http, shutting,
                        poller, stopping, webhook, scanTimer, cleanTimer, scans, sweeps,
                        scanning, cleaning, pool, heard, broken, signals, now, log,
                        events, file, torn, times, blocked, lastSent, sending, raised,
                        sent, boot, good, stage, start, tracker, profiles, policies,
                        auto, manager, yandex, assistant, locking, app, items, attempt,
                        delay, again, got, page, waits, requests, unknown, before,
                        removed>>
BesideProjectManager == <<part, issue, comments, task, questions, answers, notes,
                          imported, posted, exported, synced, cycle, status, lease,
                          worker, renewing, leases, branch, answering, run, state, says,
                          made, tree, local, remote, request, report, work, was, edits,
                          lost, sql, mem, call, answer, calls, phase, temp, beat, args,
                          asked, child, held, written, taken, rest, lines, errors,
                          timer, kill, observer, message, result, ready, http, shutting,
                          poller, stopping, webhook, scanTimer, cleanTimer, scans,
                          sweeps, scanning, cleaning, pool, heard, broken, signals, now,
                          log, events, file, torn, times, blocked, lastSent, sending,
                          raised, sent, boot, good, stage, start, tracker, profiles,
                          policies, auto, manager, yandex, assistant, locking, app,
                          items, attempt, delay, again, got, page, waits, requests,
                          unknown, before, removed>>
BesideFleet == <<part, issue, comments, task, questions, answers, notes, imported,
                 posted, exported, synced, cycle, goals, proposed, linked, done, runs,
                 asking, leases, branch, answering, run, state, says, made, tree, local,
                 remote, request, report, work, was, edits, lost, sql, mem, call,
                 answer, calls, phase, temp, beat, args, asked, child, held, written,
                 taken, rest, lines, errors, timer, kill, observer, message, result,
                 ready, http, shutting, poller, stopping, webhook, scanTimer,
                 cleanTimer, scans, sweeps, scanning, cleaning, pool, heard, broken,
                 signals, now, log, events, file, torn, times, blocked, lastSent,
                 sending, raised, sent, boot, good, stage, start, tracker, profiles,
                 policies, auto, manager, yandex, assistant, locking, app, items,
                 attempt, delay, again, got, page, waits, requests, unknown, before,
                 removed>>
BesideInternalWorker == <<part, issue, comments, task, questions, answers, imported,
                          posted, exported, synced, cycle, faults, goals, proposed,
                          linked, done, runs, asking, lease, worker, renewing, state,
                          says, made, tree, local, remote, request, report, work, was,
                          edits, lost, sql, mem, call, answer, calls, phase, temp, beat,
                          args, asked, child, held, written, taken, rest, lines, errors,
                          timer, kill, observer, message, result, ready, http, shutting,
                          poller, stopping, webhook, scanTimer, cleanTimer, scans,
                          sweeps, scanning, cleaning, pool, heard, broken, signals, now,
                          log, events, file, torn, times, blocked, lastSent, sending,
                          raised, sent, boot, good, stage, start, tracker, profiles,
                          policies, auto, manager, yandex, assistant, locking, app,
                          items, attempt, delay, again, got, page, waits, requests,
                          unknown, before, removed>>
BesideDirectWorker == <<part, issue, comments, task, questions, answers, notes,
                        imported, posted, exported, synced, cycle, faults, goals,
                        proposed, linked, done, runs, asking, status, lease, worker,
                        renewing, leases, answering, made, tree, local, remote, request,
                        report, work, was, edits, lost, sql, mem, call, answer, calls,
                        phase, temp, beat, args, asked, child, held, written, taken,
                        rest, lines, errors, timer, kill, observer, message, result,
                        ready, http, shutting, poller, stopping, webhook, scanTimer,
                        cleanTimer, scans, sweeps, scanning, cleaning, pool, heard,
                        broken, signals, now, log, events, file, torn, times, blocked,
                        lastSent, sending, raised, sent, boot, good, stage, start,
                        tracker, profiles, policies, auto, manager, yandex, assistant,
                        locking, app, items, attempt, delay, again, got, page, waits,
                        requests, unknown, before, removed>>
BesideQualityGates == <<part, issue, comments, task, questions, answers, notes,
                        imported, posted, exported, synced, cycle, goals, proposed,
                        linked, done, runs, asking, status, lease, worker, renewing,
                        leases, branch, answering, run, state, says, was, edits, lost,
                        sql, mem, call, answer, calls, phase, temp, beat, args, asked,
                        child, held, written, taken, rest, lines, errors, timer, kill,
                        observer, message, result, ready, http, shutting, poller,
                        stopping, webhook, scanTimer, cleanTimer, scans, sweeps,
                        scanning, cleaning, pool, heard, broken, signals, now, log,
                        events, file, torn, times, blocked, lastSent, sending, raised,
                        sent, boot, good, stage, start, tracker, profiles, policies,
                        auto, manager, yandex, assistant, locking, app, items, attempt,
                        delay, again, got, page, waits, requests, unknown, before,
                        removed>>
BesideIntakeReview == <<part, comments, task, questions, answers, notes, imported,
                        posted, exported, synced, cycle, goals, proposed, linked, done,
                        runs, asking, status, worker, renewing, leases, branch,
                        answering, run, state, says, made, tree, local, remote, request,
                        report, sql, mem, call, answer, calls, phase, temp, beat, args,
                        asked, child, held, written, taken, rest, lines, errors, timer,
                        kill, observer, message, result, ready, http, shutting, poller,
                        stopping, webhook, scanTimer, cleanTimer, scans, sweeps,
                        scanning, cleaning, pool, heard, broken, signals, now, log,
                        events, file, torn, times, blocked, lastSent, sending, raised,
                        sent, boot, good, stage, start, tracker, profiles, policies,
                        auto, manager, yandex, assistant, locking, app, items, attempt,
                        delay, again, got, page, waits, requests, unknown, before,
                        removed>>
BesideGoalStores == <<part, issue, comments, task, questions, answers, notes, imported,
                      posted, exported, synced, cycle, goals, proposed, linked, done,
                      runs, asking, status, lease, worker, renewing, leases, branch,
                      answering, run, state, says, made, tree, local, remote, request,
                      report, work, was, edits, lost, phase, temp, beat, args, asked,
                      child, held, written, taken, rest, lines, errors, timer, kill,
                      observer, message, result, ready, http, shutting, poller,
                      stopping, webhook, scanTimer, cleanTimer, scans, sweeps, scanning,
                      cleaning, pool, heard, broken, signals, now, log, events, file,
                      torn, times, blocked, lastSent, sending, raised, sent, boot, good,
                      stage, start, tracker, profiles, policies, auto, manager, yandex,
                      assistant, locking, app, items, attempt, delay, again, got, page,
                      waits, requests, unknown, before, removed>>
BesideCodexRunner == <<part, issue, comments, task, questions, answers, notes, imported,
                       posted, exported, synced, cycle, faults, goals, proposed, linked,
                       done, runs, asking, status, lease, worker, renewing, leases,
                       branch, answering, run, state, says, made, tree, local, remote,
                       request, report, work, was, edits, lost, sql, mem, call, answer,
                       calls, ready, http, shutting, poller, stopping, webhook,
                       scanTimer, cleanTimer, scans, sweeps, scanning, cleaning, pool,
                       heard, broken, signals, now, log, events, file, torn, times,
                       blocked, lastSent, sending, raised, sent, boot, good, stage,
                       start, tracker, profiles, policies, auto, manager, yandex,
                       assistant, locking, app, items, attempt, delay, again, got, page,
                       waits, requests, unknown, before, removed>>
BesideAppRuntime == <<part, issue, comments, task, questions, answers, notes, imported,
                      posted, exported, synced, cycle, goals, proposed, linked, done,
                      runs, asking, status, lease, renewing, leases, branch, answering,
                      run, state, says, made, tree, local, remote, request, report,
                      work, was, edits, lost, sql, mem, call, answer, calls, temp, beat,
                      args, asked, child, held, written, taken, rest, lines, errors,
                      timer, kill, observer, message, result, now, log, events, file,
                      torn, times, blocked, lastSent, sending, raised, sent, boot, good,
                      stage, start, tracker, profiles, policies, auto, manager, yandex,
                      assistant, locking, app, items, attempt, delay, again, got, page,
                      waits, requests, unknown, before, removed>>
BesideTelemetry == <<part, issue, comments, task, questions, answers, notes, imported,
                     posted, exported, synced, cycle, goals, proposed, linked, done,
                     runs, asking, status, lease, worker, renewing, leases, branch,
                     answering, run, state, says, made, tree, local, remote, request,
                     report, work, was, edits, sql, mem, call, answer, calls, phase,
                     temp, beat, args, asked, child, held, written, taken, rest, lines,
                     errors, timer, kill, observer, message, result, ready, http,
                     shutting, poller, stopping, webhook, scanTimer, cleanTimer, scans,
                     sweeps, scanning, cleaning, pool, heard, broken, signals, stage,
                     start, tracker, profiles, policies, auto, manager, yandex,
                     assistant, locking, app, items, attempt, delay, again, got, page,
                     waits, requests, unknown, before, removed>>
BesideConfiguration == <<part, issue, comments, task, questions, answers, notes,
                         imported, posted, exported, synced, cycle, faults, goals,
                         proposed, linked, done, runs, asking, status, lease, worker,
                         renewing, leases, branch, answering, run, state, says, made,
                         tree, local, remote, request, report, work, was, edits, lost,
                         sql, mem, call, answer, calls, phase, temp, beat, args, asked,
                         child, held, written, taken, rest, lines, errors, timer, kill,
                         observer, message, result, ready, http, shutting, poller,
                         stopping, webhook, scanTimer, cleanTimer, scans, sweeps,
                         scanning, cleaning, pool, heard, broken, signals, now, log,
                         events, file, torn, times, blocked, lastSent, sending, raised,
                         sent, boot, good, items, attempt, delay, again, got, page,
                         waits, requests, unknown, before, removed>>
BesideApiClients == <<part, issue, comments, task, questions, answers, notes, imported,
                      posted, exported, synced, cycle, goals, proposed, linked, done,
                      runs, asking, status, lease, worker, renewing, leases, branch,
                      answering, run, state, says, made, tree, local, remote, request,
                      report, work, was, edits, lost, sql, mem, answer, calls, temp,
                      beat, args, asked, child, held, written, taken, rest, lines,
                      errors, timer, kill, observer, message, result, ready, http,
                      shutting, poller, stopping, webhook, scanTimer, cleanTimer, scans,
                      sweeps, scanning, cleaning, pool, heard, broken, signals, now,
                      log, events, file, torn, times, blocked, lastSent, sending,
                      raised, sent, boot, good, stage, start, tracker, profiles,
                      policies, auto, manager, yandex, assistant, locking, app>>

Next ==
    \/ part = "bridge" /\ Bridge!Next /\ UNCHANGED BesideYandexBridge
    \/ part = "bridge_alone" /\ BridgeAlone!Next /\ UNCHANGED BesideYandexBridge
    \/ part = "bridge_issues" /\ BridgeIssues!Next /\ UNCHANGED BesideYandexBridge
    \/ part = "goals" /\ Goals!Next /\ UNCHANGED BesideProjectManager
    \/ part = "plans" /\ Plans!Next /\ UNCHANGED BesideProjectManager
    \/ part = "fleet" /\ TheFleet!Next /\ UNCHANGED BesideFleet
    \/ part = "worker" /\ Worker!Next /\ UNCHANGED BesideInternalWorker
    \/ part = "direct" /\ Direct!Next /\ UNCHANGED BesideDirectWorker
    \/ part = "gates" /\ Gates!Next /\ UNCHANGED BesideQualityGates
    \/ part = "gates_output" /\ GatesOutput!Next /\ UNCHANGED BesideQualityGates
    \/ part = "intake" /\ Intake!Next /\ UNCHANGED BesideIntakeReview
    \/ part = "intake_alone" /\ IntakeAlone!Next /\ UNCHANGED BesideIntakeReview
    \/ part = "goal_stores" /\ GoalStore!Next /\ UNCHANGED BesideGoalStores
    \/ part = "goal_store_alone" /\ GoalStoreAlone!Next /\ UNCHANGED BesideGoalStores
    \/ part = "codex" /\ Codex!Next /\ UNCHANGED BesideCodexRunner
    \/ part = "codex_args" /\ CodexArgs!Next /\ UNCHANGED BesideCodexRunner
    \/ part = "runtime" /\ Runtime!Next /\ UNCHANGED BesideAppRuntime
    \/ part = "runtime_hooked" /\ RuntimeHooked!Next /\ UNCHANGED BesideAppRuntime
    \/ part = "runtime_once" /\ RuntimeOnce!Next /\ UNCHANGED BesideAppRuntime
    \/ part = "alerts" /\ Alerts!Next /\ UNCHANGED BesideTelemetry
    \/ part = "alerts_issues" /\ AlertsIssues!Next /\ UNCHANGED BesideTelemetry
    \/ part = "alerts_blocked" /\ AlertsBlocked!Next /\ UNCHANGED BesideTelemetry
    \/ part = "alerts_failed" /\ AlertsFailed!Next /\ UNCHANGED BesideTelemetry
    \/ part = "events_kept" /\ EventsKept!Next /\ UNCHANGED BesideTelemetry
    \/ part = "config" /\ Config!Next /\ UNCHANGED BesideConfiguration
    \/ part = "config_file" /\ ConfigFile!Next /\ UNCHANGED BesideConfiguration
    \/ part = "requests" /\ Requests!Next /\ UNCHANGED BesideApiClients
    \/ part = "lists" /\ Listing!Next /\ UNCHANGED BesideApiClients

Spec == Init /\ [][Next]_vars

-----------------------------------------------------------------------------
\* Every part keeps to its types.
TypeOK ==
    /\ part = "bridge" => Bridge!TypeOK
    /\ part = "bridge_alone" => BridgeAlone!TypeOK
    /\ part = "bridge_issues" => BridgeIssues!TypeOK
    /\ part = "goals" => Goals!TypeOK
    /\ part = "plans" => Plans!TypeOK
    /\ part = "fleet" => TheFleet!TypeOK
    /\ part = "worker" => Worker!TypeOK
    /\ part = "direct" => Direct!TypeOK
    /\ part = "gates" => Gates!TypeOK
    /\ part = "gates_output" => GatesOutput!TypeOK
    /\ part = "intake" => Intake!TypeOK
    /\ part = "intake_alone" => IntakeAlone!TypeOK
    /\ part = "goal_stores" => GoalStore!TypeOK
    /\ part = "goal_store_alone" => GoalStoreAlone!TypeOK
    /\ part = "codex" => Codex!TypeOK
    /\ part = "codex_args" => CodexArgs!TypeOK
    /\ part = "runtime" => Runtime!TypeOK
    /\ part = "runtime_hooked" => RuntimeHooked!TypeOK
    /\ part = "runtime_once" => RuntimeOnce!TypeOK
    /\ part = "alerts" => Alerts!TypeOK
    /\ part = "alerts_issues" => AlertsIssues!TypeOK
    /\ part = "alerts_blocked" => AlertsBlocked!TypeOK
    /\ part = "alerts_failed" => AlertsFailed!TypeOK
    /\ part = "events_kept" => EventsKept!TypeOK
    /\ part = "config" => Config!TypeOK
    /\ part = "config_file" => ConfigFile!TypeOK
    /\ part = "requests" => Requests!TypeOK
    /\ part = "lists" => Listing!TypeOK

\* YandexBridge: what is marked as done was done; and one worker alone, that repeats an
\* import that failed, stores a comment as what it was, and goes on after an answer.
MirrorIsSound ==
    /\ part = "bridge" => Bridge!NothingLeftOut
    /\ part = "bridge_alone" => BridgeAlone!NothingLeftOut
    /\ part = "bridge_issues" => BridgeIssues!NothingLeftOut
    /\ part = "bridge_alone" => BridgeAlone!OneMeaning
    /\ part = "bridge_issues" => BridgeIssues!OneMeaning
    /\ part = "bridge_alone" => BridgeAlone!AnsweredFirst
    /\ part = "bridge_issues" => BridgeIssues!AnsweredFirst

\* ProjectManager: of the goals of one signature at most one is open, and a run
\* completes only goals whose work is done.  GoalStores: the two stores hold the same
\* goals, links and history.
GoalsAreSound ==
    /\ part = "goals" => Goals!OneOpenGoal
    /\ part = "plans" => Plans!OneOpenGoal
    /\ part = "goals" => Goals!CompletedOnWork
    /\ part = "plans" => Plans!CompletedOnWork
    /\ part = "goal_stores" => GoalStore!GoalsAreSound
    /\ part = "goal_store_alone" => GoalStoreAlone!GoalsAreSound

\* InternalWorker, DirectWorker: what is under review is on record.
\* QualityGates: what is pushed passed its gates and its review.  IntakeReview: an
\* issue is reviewed as it is, and not again for nothing.
WorkIsSound ==
    /\ part = "worker" => Worker!ReviewIsOnRecord
    /\ part = "direct" => Direct!ReviewIsOnRecord
    /\ part = "gates" => Gates!PushedIsSound
    /\ part = "gates_output" => GatesOutput!PushedIsSound
    /\ part = "intake" => Intake!IntakeIsSound
    /\ part = "intake_alone" => IntakeAlone!IntakeIsSound

\* CodexRunner: a run of Codex leaves nothing behind and says what the child said.
\* ApiClients: a call ends as the service answered, asks again only for what may be
\* asked again, and misses nothing it lists.
CallsAreSound ==
    /\ part = "codex" => Codex!RunIsClean
    /\ part = "codex_args" => CodexArgs!RunIsClean
    /\ part = "requests" => Requests!ClientsAreSound
    /\ part = "lists" => Listing!ClientsAreSound

\* AppRuntime: a process that stops lets go of what it holds, in order.  Telemetry:
\* an alert is raised on what it counts, and events on record outlive the process.
\* Configuration: settings that pass make a process that is whole.
RuntimeIsSound ==
    /\ part = "config" => Config!ConfigIsSound
    /\ part = "config_file" => ConfigFile!ConfigIsSound
    /\ part = "runtime" => Runtime!RuntimeIsSound
    /\ part = "runtime_hooked" => RuntimeHooked!RuntimeIsSound
    /\ part = "runtime_once" => RuntimeOnce!RuntimeIsSound
    /\ part = "alerts" => Alerts!AlertsAreSound
    /\ part = "alerts_issues" => AlertsIssues!AlertsAreSound
    /\ part = "alerts_blocked" => AlertsBlocked!AlertsAreSound
    /\ part = "alerts_failed" => AlertsFailed!AlertsAreSound
    /\ part = "events_kept" => EventsKept!AlertsAreSound

\* InternalWorker, DirectWorker: only what passed the gates is pushed.
OnlyGatedIsPushed ==
    /\ [][part = "worker" => Worker!PushesAreGated]_vars
    /\ [][part = "direct" => Direct!PushesAreGated]_vars
=============================================================================
