------------ MODULE MCFrontEnds ---------------------------------------------
(***************************************************************************)
(* Small instances of what people and systems use, and of the stores behind: *)
(* the Telegram assistant, the HTTP API, the records of tasks and the tracker *)
(* in memory.  A behaviour is one of one part; the variables of the others *)
(* stay 0.  The properties are those of the modules, which say what they are *)
(* about.                                                                  *)
(***************************************************************************)
EXTENDS Naturals, Sequences, FiniteSets, TLC

CONSTANTS
    Parts         \* the parts a run explores

VARIABLES
    part,         \* the part this behaviour is of
    inbox, offset, acked, processed, hand, faults, session, action, latest, task, shown,
    turn, queued, job, answered, connection, heard, reply, sent, events, waiting,
    answers, delivery, watermark, told, prompts, closed, pending, scan, row, revisions,
    refs, comments, steps, log, call, calls, http, status, supervisor, recent, stored,
    blocked, leases, cleaning, table, mem, sql, now, said, won, created, noticed, todo,
    phase, inside, links, tail, asked, marked, handled, content, disabled, recorded,
    risked, edited, applied, effects, run, started

vars == <<part, inbox, offset, acked, processed, hand, faults, session, action, latest,
          task, shown, turn, queued, job, answered, connection, heard, reply, sent,
          events, waiting, answers, delivery, watermark, told, prompts, closed, pending,
          scan, row, revisions, refs, comments, steps, log, call, calls, http, status,
          supervisor, recent, stored, blocked, leases, cleaning, table, mem, sql, now,
          said, won, created, noticed, todo, phase, inside, links, tail, asked, marked,
          handled, content, disabled, recorded, risked, edited, applied, effects, run,
          started>>

Everyone == ({"user"} \X {"easy", "risky", "vague", "yes", "no", "press", "unpress"})
            \cup ({"owner"} \X {"yes", "no", "press", "unpress"}) \cup {<<"client", "ask">>}
Hooked   == {<<"client", "ask">>, <<"user", "risky">>, <<"user", "yes">>, <<"user", "press">>,
             <<"owner", "press">>}
\* What may be asked of the records of a task.
New(keys, by, as, complete, system) ==
    [op |-> "create", task |-> 0, keys |-> keys, by |-> by, as |-> as, complete |-> complete,
     system |-> system, title |-> "t0", body |-> "b0"]
Make   == New({}, "human", "default", FALSE, FALSE)
Edit(by, title, body) == [op |-> "revise", task |-> 1, by |-> by, title |-> title, body |-> body]
On(op) == [op |-> op, task |-> 1]
Low == {<<"k", "low">>}
Up  == {<<"k", "up">>}
Keyed  == {New(Low, "external_source", "default", TRUE, TRUE), New(Up, "external_source", "default", TRUE, TRUE),
           New(Low, "human", "ready", TRUE, FALSE), New({}, "human", "ready", FALSE, FALSE),
           New({}, "worker_agent", "default", TRUE, FALSE), On("attach") @@ [keys |-> Low]}
Edits  == {Make, Edit("human", "t1", ""), Edit("human", "", "b1"), Edit("external_source", "t2", "b2"), On("fields")}
Others == {Make, On("answer") @@ [as |-> "ready"], On("question"), On("ready") @@ [as |-> "ready"],
           On("status") @@ [as |-> "blocked"], On("once") @@ [kind |-> "a"],
           On("step") @@ [kind |-> "plan", as |-> "done"], On("analysis"), On("children"), On("decision"),
           On("run")}
Whole  == {New(Low, "external_source", "default", FALSE, TRUE), New(Low, "human", "ready", TRUE, FALSE),
           On("attach") @@ [keys |-> Low], On("ready") @@ [as |-> "ready"], On("status") @@ [as |-> "blocked"],
           On("once") @@ [kind |-> "a"], On("fields"), On("validation"), On("children")}
\* Requests of the API, and who they come from.
Visitor(token, user, local) == [token |-> token, user |-> user, local |-> local]
Service  == Visitor("system", "", FALSE)
Operator == Visitor("", "operator", FALSE)
Anyone   == {Service, Visitor("agent", "", FALSE), Visitor("", "developer", FALSE), Operator,
             Visitor("", "", TRUE), Visitor("", "", FALSE)}
Ask(route) == [route |-> route, task |-> 1, items |-> <<>>, valid |-> TRUE]
Routes == {"session", "read", "proposals", "propose-tasks", "runs", "goal", "revisions", "attachments", "answers",
           "mark-ready", "resume", "hold", "retry", "cancel", "force-reanalysis", "approve-decomposition",
           "approve-proposal"}
Item(key, complete) == [key |-> key, as |-> "default", complete |-> complete, valid |-> TRUE]
Bad       == [Item("", TRUE) EXCEPT !.valid = FALSE]
Post(items) == [Ask("tasks") EXCEPT !.items = items]
Bulk(items) == [Ask("bulk") EXCEPT !.items = items]
EveryRoute == {Ask(r) : r \in Routes}
                \cup {Post(<<Item("", TRUE)>>), Post(<<Item("k", TRUE)>>), [Ask("cancel") EXCEPT !.valid = FALSE]}
Creations == {Bulk(<<Item("k", TRUE), Item("m", TRUE)>>), Bulk(<<Item("m", TRUE), Bad>>),
              Post(<<Item("k", TRUE)>>), Post(<<Item("", FALSE)>>)}
Talk      == {Post(<<Item("", FALSE)>>), Ask("answers"), Ask("hold"), Ask("cancel"), Ask("revisions")}

\* Handlers of updates.
Handler(process, update, talk, kind) == [process |-> process, update |-> update, talk |-> talk, kind |-> kind]
Together == {Handler(1, 1, 1, "message"), Handler(1, 2, 1, "business"), Handler(1, 1, 1, "poll")}
Polled   == {Handler(1, 1, 1, "message"), Handler(1, 2, 2, "business"), Handler(2, 3, 1, "poll"),
             Handler(1, 3, 1, "poll")}
Twice    == {Handler(1, 1, 1, "message"), Handler(2, 1, 1, "message"), Handler(1, 2, 2, "business"),
             Handler(1, 3, 1, "message")}

\* Migrations of releases.
File(version, checksum) == [version |-> version, checksum |-> checksum]
OldFiles == <<File(1, "a"), File(3, "c")>>
NewFiles == <<File(1, "a"), File(2, "b"), File(3, "c")>>
Released == "old" :> OldFiles @@ "new" :> NewFiles @@ "s" :> NewFiles @@ "t" :> OldFiles
              @@ "edited" :> <<File(1, "x"), File(2, "b"), File(3, "c")>>
AllFiles == {"knowledge", "rules", "failures", "metadata"}

ATitle    == "p1" :> "a" @@ "p2" :> "a" @@ "p3" :> "c" @@ "p4" :> "d"
AKey      == "p1" :> "k" @@ "p2" :> "m" @@ "p3" :> "k" @@ "p4" :> "n"

\* Requests of tasks, polled: everyone, and a process that dies.
Actions == INSTANCE TelegramActions WITH
    Handlers <- {"h1"}, Polling <- TRUE, Crashes <- TRUE, MaxUpdates <- 3,
    MaxFaults <- 1, Says <- Everyone, DailyLimit <- 2

\* The same by webhook, two calls at a time.
AlsoHooked == INSTANCE TelegramActions WITH
    Handlers <- {"h1", "h2"}, Polling <- FALSE, Crashes <- TRUE, MaxUpdates <- 2,
    MaxFaults <- 1, Says <- Hooked, DailyLimit <- 9

\* Questions to the assistant, polled, with a job and a queue beside the handler.
Turns == INSTANCE TelegramTurns WITH
    Handlers <- {"h1"}, Polling <- TRUE, Crashes <- FALSE, MaxUpdates <- 4,
    MaxFaults <- 0, Outcomes <- {"answer", "nothing", "error"}, MaxQueued <- 2

\* The same by webhook, and a process that dies.
TwoTurns == INSTANCE TelegramTurns WITH
    Handlers <- {"h1", "h2"}, Polling <- FALSE, Crashes <- TRUE, MaxUpdates <- 3,
    MaxFaults <- 1, Outcomes <- {"answer"}, MaxQueued <- 2

\* The digital twin: three updates about one message.
Twin == INSTANCE TelegramTwin WITH
    Handlers <- {"h1", "h2"}, Polling <- FALSE, Crashes <- TRUE, MaxUpdates <- 3,
    MaxFaults <- 0, Messages <- {1}, Admin <- {}

\* The digital twin and an administrator.
Administered == INSTANCE TelegramTwin WITH
    Handlers <- {"h1", "h2"}, Polling <- FALSE, Crashes <- TRUE, MaxUpdates <- 2,
    MaxFaults <- 1, Messages <- {1}, Admin <- {"pause", "reset"}

\* Notices of a task by two processes, and answers given elsewhere.
Notices == INSTANCE TelegramNotices WITH
    Handlers <- {"h1"}, Polling <- TRUE, Crashes <- TRUE, MaxUpdates <- 2,
    MaxFaults <- 1, Scanners <- {"s1", "s2"}, Confirm <- TRUE, Bodies <- {"elsewhere"},
    MaxEvents <- 2

\* Answers to a question of a task, each confirmed by a yes,
Replies == INSTANCE TelegramNotices WITH
    Handlers <- {"h1"}, Polling <- TRUE, Crashes <- TRUE, MaxUpdates <- 2,
    MaxFaults <- 1, Scanners <- {"s1"}, Confirm <- TRUE,
    Bodies <- {"text", "yes", "elsewhere"}, MaxEvents <- 1

\* or taken as they come.
PlainReplies == INSTANCE TelegramNotices WITH
    Handlers <- {"h1"}, Polling <- TRUE, Crashes <- TRUE, MaxUpdates <- 2,
    MaxFaults <- 1, Scanners <- {"s1"}, Confirm <- FALSE,
    Bodies <- {"text", "yes", "elsewhere"}, MaxEvents <- 1

\* Two connections that make tasks of one key, spelled in two ways.
Keys == INSTANCE TaskRecords WITH
    MaxTasks <- 3, Callers <- {"c1", "c2"}, Requests <- Keyed, MaxCalls <- 3

\* Two connections that edit a task.
TwoEdits == INSTANCE TaskRecords WITH
    MaxTasks <- 2, Callers <- {"c1", "c2"}, Requests <- Edits, MaxCalls <- 4

\* Two connections that add to the records of a task.
Records == INSTANCE TaskRecords WITH
    MaxTasks <- 2, Callers <- {"c1", "c2"}, Requests <- Others, MaxCalls <- 4

\* Two connections whose calls are of one transaction each.
Atomic == INSTANCE TaskRecords WITH
    MaxTasks <- 2, Callers <- {"c1", "c2"}, Requests <- Whole, MaxCalls <- 4

\* Every route, and everyone.
Api == INSTANCE HumanApi WITH
    MaxTasks <- 2, Callers <- {"c1", "c2"}, Requests <- EveryRoute, MaxCalls <- 2,
    AuthMode <- "trusted_headers", Visitors <- Anyone, ProjectManaged <- FALSE

\* Creations of a system and of people, tried again and cut off.
Creating == INSTANCE HumanApi WITH
    MaxTasks <- 3, Callers <- {"c1", "c2"}, Requests <- Creations, MaxCalls <- 3,
    AuthMode <- "trusted_headers", Visitors <- {Service, Operator},
    ProjectManaged <- FALSE

\* Two people and a task that waits for one.
Talking == INSTANCE HumanApi WITH
    MaxTasks <- 2, Callers <- {"c1", "c2"}, Requests <- Talk, MaxCalls <- 3,
    AuthMode <- "trusted_headers", Visitors <- {Operator, Service},
    ProjectManaged <- FALSE

\* The tracker in memory: two workers.
InMemory == INSTANCE MemoryTracker WITH
    Workers <- {"w1", "w2"}, NoWorker <- "none", Ordinary <- {"t1"}, Proposed <- {"p3"},
    Title <- ATitle, Evidence <- ATitle, Key <- AKey, LowRisk <- {}, Limit <- 1,
    Overlapping <- 2,
    RepoOf <- [t \in {"t1", "t2", "p1", "p2", "p3", "p4"} |-> IF t = "t2" THEN "r2" ELSE "r1"],
    Rank <- [t \in {"t1", "t2", "p1", "p2", "p3", "p4"} |-> IF t = "p3" THEN 1 ELSE 0],
    Ttl <- 1, Requested <- {"analyzing", "validating", "review"}

\* The same: proposals of one title, or of one key, that may fail,
MemoryProposals == INSTANCE MemoryTracker WITH
    Workers <- {"w1"}, NoWorker <- "none", Ordinary <- {},
    Proposed <- {"p1", "p2", "p3"}, Title <- ATitle, Evidence <- ATitle, Key <- AKey,
    LowRisk <- {"p3"}, Limit <- 1, Overlapping <- 2,
    RepoOf <- [t \in {"t1", "t2", "p1", "p2", "p3", "p4"} |-> IF t = "t2" THEN "r2" ELSE "r1"],
    Rank <- [t \in {"t1", "t2", "p1", "p2", "p3", "p4"} |-> IF t = "p3" THEN 1 ELSE 0],
    Ttl <- 1, Requested <- {"ready", "failed"}

\* or of nothing in common.
MemoryLimit == INSTANCE MemoryTracker WITH
    Workers <- {}, NoWorker <- "none", Ordinary <- {}, Proposed <- {"p2", "p3", "p4"},
    Title <- ATitle, Evidence <- ATitle, Key <- AKey, LowRisk <- {}, Limit <- 1,
    Overlapping <- 2,
    RepoOf <- [t \in {"t1", "t2", "p1", "p2", "p3", "p4"} |-> IF t = "t2" THEN "r2" ELSE "r1"],
    Rank <- [t \in {"t1", "t2", "p1", "p2", "p3", "p4"} |-> IF t = "p3" THEN 1 ELSE 0],
    Ttl <- 1, Requested <- {}

\* The two stores of the assistant, and an administrator who purges,
BothStores == INSTANCE TelegramStores WITH
    
    Tables <- {"refs", "queue", "actions", "drafts", "prompts", "notices", "turns", "twins", "messages", "connections"},
    Ids <- {1, 2}, Talks <- {"t"}, Users <- {1, 2}, Day <- 2, Ttl <- 2, Forgets <- TRUE,
    Limit <- 1, MaxTime <- 3, MaxCalls <- 4

\* or does not.
StoresKept == INSTANCE TelegramStores WITH
    Tables <- {"actions"}, Ids <- {1, 2}, Talks <- {"t"}, Users <- {1, 2}, Day <- 2,
    Ttl <- 2, Forgets <- FALSE, Limit <- 1, MaxTime <- 3, MaxCalls <- 4

\* The locks of the store in memory, asked for again by one update;
Locks == INSTANCE StoreLocks WITH
    Memory <- TRUE, Callers <- Together, Pool <- 0, MaxFaults <- 1

\* those of the database, polled by one process while another handles a message,
LocksPolled == INSTANCE StoreLocks WITH
    Memory <- FALSE, Callers <- Polled, Pool <- 3, MaxFaults <- 1

\* and by webhook, an update delivered to two processes.
LocksHooked == INSTANCE StoreLocks WITH
    Memory <- FALSE, Callers <- Twice, Pool <- 3, MaxFaults <- 1

\* The files of a memory, two processes,
MemFiles == INSTANCE MemoryFiles WITH
    Stores <- {"a", "b"}, Strict <- FALSE, MaxCalls <- 3, Curated <- {}, MaxFaults <- 1

\* and a person who edits the failures;
FilesCurated == INSTANCE MemoryFiles WITH
    Stores <- {"a", "b"}, Strict <- FALSE, MaxCalls <- 2, Curated <- {"failures"},
    MaxFaults <- 1

\* one process, where a broken file is an error,
FilesStrict == INSTANCE MemoryFiles WITH
    Stores <- {"a"}, Strict <- TRUE, MaxCalls <- 3, Curated <- AllFiles, MaxFaults <- 1

\* or ends the use of the memory.
FilesLax == INSTANCE MemoryFiles WITH
    Stores <- {"a"}, Strict <- FALSE, MaxCalls <- 3, Curated <- AllFiles, MaxFaults <- 1

\* Runners of three releases and processes of two, one statement that fails.
Migrate == INSTANCE Migrations WITH
    Runners <- {"old", "new", "edited"}, Starters <- {"s", "t"}, Releases <- Released,
    Required <- {1, 3}, MaxFaults <- 1

-----------------------------------------------------------------------------
(* The variables a part has no use for *)

NoTelegramActions == turn = 0 /\ queued = 0 /\ job = 0 /\ answered = 0 /\
                     connection = 0 /\ heard = 0 /\ reply = 0 /\ sent = 0 /\
                     events = 0 /\ waiting = 0 /\ answers = 0 /\ delivery = 0 /\
                     watermark = 0 /\ told = 0 /\ prompts = 0 /\ closed = 0 /\
                     pending = 0 /\ scan = 0 /\ row = 0 /\ revisions = 0 /\ refs = 0 /\
                     comments = 0 /\ steps = 0 /\ log = 0 /\ call = 0 /\ calls = 0 /\
                     http = 0 /\ status = 0 /\ supervisor = 0 /\ recent = 0 /\
                     stored = 0 /\ blocked = 0 /\ leases = 0 /\ cleaning = 0 /\
                     table = 0 /\ mem = 0 /\ sql = 0 /\ now = 0 /\ said = 0 /\
                     won = 0 /\ created = 0 /\ noticed = 0 /\ todo = 0 /\ phase = 0 /\
                     inside = 0 /\ links = 0 /\ tail = 0 /\ asked = 0 /\ marked = 0 /\
                     handled = 0 /\ content = 0 /\ disabled = 0 /\ recorded = 0 /\
                     risked = 0 /\ edited = 0 /\ applied = 0 /\ effects = 0 /\
                     run = 0 /\ started = 0
NoTelegramTurns == session = 0 /\ action = 0 /\ latest = 0 /\ task = 0 /\ shown = 0 /\
                   connection = 0 /\ heard = 0 /\ reply = 0 /\ sent = 0 /\ events = 0 /\
                   waiting = 0 /\ answers = 0 /\ delivery = 0 /\ watermark = 0 /\
                   told = 0 /\ prompts = 0 /\ closed = 0 /\ pending = 0 /\ scan = 0 /\
                   row = 0 /\ revisions = 0 /\ refs = 0 /\ comments = 0 /\ steps = 0 /\
                   log = 0 /\ call = 0 /\ calls = 0 /\ http = 0 /\ status = 0 /\
                   supervisor = 0 /\ recent = 0 /\ stored = 0 /\ blocked = 0 /\
                   leases = 0 /\ cleaning = 0 /\ table = 0 /\ mem = 0 /\ sql = 0 /\
                   now = 0 /\ said = 0 /\ won = 0 /\ created = 0 /\ noticed = 0 /\
                   todo = 0 /\ phase = 0 /\ inside = 0 /\ links = 0 /\ tail = 0 /\
                   asked = 0 /\ marked = 0 /\ handled = 0 /\ content = 0 /\
                   disabled = 0 /\ recorded = 0 /\ risked = 0 /\ edited = 0 /\
                   applied = 0 /\ effects = 0 /\ run = 0 /\ started = 0
NoTelegramTwin == action = 0 /\ latest = 0 /\ task = 0 /\ shown = 0 /\ answered = 0 /\
                  events = 0 /\ waiting = 0 /\ answers = 0 /\ delivery = 0 /\
                  watermark = 0 /\ told = 0 /\ prompts = 0 /\ closed = 0 /\
                  pending = 0 /\ scan = 0 /\ row = 0 /\ revisions = 0 /\ refs = 0 /\
                  comments = 0 /\ steps = 0 /\ log = 0 /\ call = 0 /\ calls = 0 /\
                  http = 0 /\ status = 0 /\ supervisor = 0 /\ recent = 0 /\
                  stored = 0 /\ blocked = 0 /\ leases = 0 /\ cleaning = 0 /\
                  table = 0 /\ mem = 0 /\ sql = 0 /\ now = 0 /\ said = 0 /\ won = 0 /\
                  created = 0 /\ noticed = 0 /\ todo = 0 /\ phase = 0 /\ inside = 0 /\
                  links = 0 /\ tail = 0 /\ asked = 0 /\ marked = 0 /\ handled = 0 /\
                  content = 0 /\ disabled = 0 /\ recorded = 0 /\ risked = 0 /\
                  edited = 0 /\ applied = 0 /\ effects = 0 /\ run = 0 /\ started = 0
NoTelegramNotices == session = 0 /\ action = 0 /\ latest = 0 /\ task = 0 /\ shown = 0 /\
                     turn = 0 /\ queued = 0 /\ job = 0 /\ answered = 0 /\
                     connection = 0 /\ heard = 0 /\ reply = 0 /\ sent = 0 /\ row = 0 /\
                     revisions = 0 /\ refs = 0 /\ comments = 0 /\ steps = 0 /\
                     log = 0 /\ call = 0 /\ calls = 0 /\ http = 0 /\ status = 0 /\
                     supervisor = 0 /\ recent = 0 /\ stored = 0 /\ blocked = 0 /\
                     leases = 0 /\ cleaning = 0 /\ table = 0 /\ mem = 0 /\ sql = 0 /\
                     now = 0 /\ said = 0 /\ won = 0 /\ created = 0 /\ noticed = 0 /\
                     todo = 0 /\ phase = 0 /\ inside = 0 /\ links = 0 /\ tail = 0 /\
                     asked = 0 /\ marked = 0 /\ handled = 0 /\ content = 0 /\
                     disabled = 0 /\ recorded = 0 /\ risked = 0 /\ edited = 0 /\
                     applied = 0 /\ effects = 0 /\ run = 0 /\ started = 0
NoTaskRecords == inbox = 0 /\ offset = 0 /\ acked = 0 /\ processed = 0 /\ hand = 0 /\
                 faults = 0 /\ session = 0 /\ action = 0 /\ latest = 0 /\ task = 0 /\
                 shown = 0 /\ turn = 0 /\ queued = 0 /\ job = 0 /\ answered = 0 /\
                 connection = 0 /\ heard = 0 /\ reply = 0 /\ sent = 0 /\ events = 0 /\
                 waiting = 0 /\ answers = 0 /\ delivery = 0 /\ watermark = 0 /\
                 told = 0 /\ prompts = 0 /\ closed = 0 /\ pending = 0 /\ scan = 0 /\
                 http = 0 /\ status = 0 /\ supervisor = 0 /\ recent = 0 /\ stored = 0 /\
                 blocked = 0 /\ leases = 0 /\ cleaning = 0 /\ table = 0 /\ mem = 0 /\
                 sql = 0 /\ now = 0 /\ said = 0 /\ won = 0 /\ created = 0 /\
                 noticed = 0 /\ todo = 0 /\ phase = 0 /\ inside = 0 /\ links = 0 /\
                 tail = 0 /\ asked = 0 /\ marked = 0 /\ handled = 0 /\ content = 0 /\
                 disabled = 0 /\ recorded = 0 /\ risked = 0 /\ edited = 0 /\
                 applied = 0 /\ effects = 0 /\ run = 0 /\ started = 0
NoHumanApi == inbox = 0 /\ offset = 0 /\ acked = 0 /\ processed = 0 /\ hand = 0 /\
              faults = 0 /\ session = 0 /\ action = 0 /\ latest = 0 /\ task = 0 /\
              shown = 0 /\ turn = 0 /\ queued = 0 /\ job = 0 /\ answered = 0 /\
              connection = 0 /\ heard = 0 /\ reply = 0 /\ sent = 0 /\ events = 0 /\
              waiting = 0 /\ answers = 0 /\ delivery = 0 /\ watermark = 0 /\ told = 0 /\
              prompts = 0 /\ closed = 0 /\ pending = 0 /\ scan = 0 /\ status = 0 /\
              supervisor = 0 /\ recent = 0 /\ stored = 0 /\ blocked = 0 /\ leases = 0 /\
              cleaning = 0 /\ table = 0 /\ mem = 0 /\ sql = 0 /\ now = 0 /\ said = 0 /\
              won = 0 /\ created = 0 /\ noticed = 0 /\ todo = 0 /\ phase = 0 /\
              inside = 0 /\ links = 0 /\ tail = 0 /\ asked = 0 /\ marked = 0 /\
              handled = 0 /\ content = 0 /\ disabled = 0 /\ recorded = 0 /\
              risked = 0 /\ edited = 0 /\ applied = 0 /\ effects = 0 /\ run = 0 /\
              started = 0
NoMemoryTracker == inbox = 0 /\ offset = 0 /\ acked = 0 /\ processed = 0 /\ hand = 0 /\
                   faults = 0 /\ session = 0 /\ action = 0 /\ latest = 0 /\ task = 0 /\
                   shown = 0 /\ turn = 0 /\ queued = 0 /\ job = 0 /\ answered = 0 /\
                   connection = 0 /\ heard = 0 /\ reply = 0 /\ sent = 0 /\ events = 0 /\
                   waiting = 0 /\ answers = 0 /\ delivery = 0 /\ watermark = 0 /\
                   told = 0 /\ prompts = 0 /\ closed = 0 /\ pending = 0 /\ scan = 0 /\
                   row = 0 /\ revisions = 0 /\ refs = 0 /\ comments = 0 /\ steps = 0 /\
                   log = 0 /\ call = 0 /\ calls = 0 /\ http = 0 /\ table = 0 /\
                   mem = 0 /\ sql = 0 /\ now = 0 /\ said = 0 /\ won = 0 /\
                   created = 0 /\ noticed = 0 /\ todo = 0 /\ phase = 0 /\ inside = 0 /\
                   links = 0 /\ tail = 0 /\ asked = 0 /\ marked = 0 /\ handled = 0 /\
                   content = 0 /\ disabled = 0 /\ recorded = 0 /\ risked = 0 /\
                   edited = 0 /\ applied = 0 /\ effects = 0 /\ run = 0 /\ started = 0
NoTelegramStores == inbox = 0 /\ offset = 0 /\ acked = 0 /\ processed = 0 /\ hand = 0 /\
                    faults = 0 /\ session = 0 /\ action = 0 /\ latest = 0 /\ task = 0 /\
                    shown = 0 /\ turn = 0 /\ queued = 0 /\ job = 0 /\ answered = 0 /\
                    connection = 0 /\ heard = 0 /\ reply = 0 /\ sent = 0 /\
                    events = 0 /\ waiting = 0 /\ answers = 0 /\ delivery = 0 /\
                    watermark = 0 /\ told = 0 /\ prompts = 0 /\ closed = 0 /\
                    pending = 0 /\ scan = 0 /\ row = 0 /\ revisions = 0 /\ refs = 0 /\
                    comments = 0 /\ steps = 0 /\ log = 0 /\ call = 0 /\ http = 0 /\
                    status = 0 /\ supervisor = 0 /\ recent = 0 /\ stored = 0 /\
                    blocked = 0 /\ leases = 0 /\ cleaning = 0 /\ todo = 0 /\
                    phase = 0 /\ inside = 0 /\ links = 0 /\ tail = 0 /\ asked = 0 /\
                    marked = 0 /\ handled = 0 /\ content = 0 /\ disabled = 0 /\
                    recorded = 0 /\ risked = 0 /\ edited = 0 /\ applied = 0 /\
                    effects = 0 /\ run = 0 /\ started = 0
NoStoreLocks == inbox = 0 /\ offset = 0 /\ acked = 0 /\ processed = 0 /\ hand = 0 /\
                session = 0 /\ action = 0 /\ latest = 0 /\ task = 0 /\ shown = 0 /\
                turn = 0 /\ queued = 0 /\ job = 0 /\ answered = 0 /\ connection = 0 /\
                heard = 0 /\ reply = 0 /\ sent = 0 /\ events = 0 /\ waiting = 0 /\
                answers = 0 /\ delivery = 0 /\ watermark = 0 /\ told = 0 /\
                prompts = 0 /\ closed = 0 /\ pending = 0 /\ scan = 0 /\ row = 0 /\
                revisions = 0 /\ refs = 0 /\ comments = 0 /\ steps = 0 /\ log = 0 /\
                call = 0 /\ calls = 0 /\ http = 0 /\ status = 0 /\ supervisor = 0 /\
                recent = 0 /\ stored = 0 /\ blocked = 0 /\ leases = 0 /\ cleaning = 0 /\
                table = 0 /\ mem = 0 /\ sql = 0 /\ now = 0 /\ said = 0 /\ won = 0 /\
                created = 0 /\ noticed = 0 /\ content = 0 /\ disabled = 0 /\
                recorded = 0 /\ risked = 0 /\ edited = 0 /\ applied = 0 /\
                effects = 0 /\ run = 0 /\ started = 0
NoMemoryFiles == inbox = 0 /\ offset = 0 /\ acked = 0 /\ processed = 0 /\ hand = 0 /\
                 session = 0 /\ action = 0 /\ latest = 0 /\ task = 0 /\ shown = 0 /\
                 turn = 0 /\ queued = 0 /\ job = 0 /\ answered = 0 /\ connection = 0 /\
                 heard = 0 /\ reply = 0 /\ sent = 0 /\ events = 0 /\ waiting = 0 /\
                 answers = 0 /\ delivery = 0 /\ watermark = 0 /\ told = 0 /\
                 prompts = 0 /\ closed = 0 /\ pending = 0 /\ scan = 0 /\ row = 0 /\
                 revisions = 0 /\ refs = 0 /\ comments = 0 /\ steps = 0 /\ log = 0 /\
                 http = 0 /\ status = 0 /\ supervisor = 0 /\ recent = 0 /\ stored = 0 /\
                 blocked = 0 /\ leases = 0 /\ cleaning = 0 /\ table = 0 /\ mem = 0 /\
                 sql = 0 /\ now = 0 /\ said = 0 /\ won = 0 /\ created = 0 /\
                 noticed = 0 /\ todo = 0 /\ phase = 0 /\ inside = 0 /\ links = 0 /\
                 tail = 0 /\ asked = 0 /\ marked = 0 /\ handled = 0 /\ applied = 0 /\
                 effects = 0 /\ run = 0 /\ started = 0
NoMigrations == inbox = 0 /\ offset = 0 /\ acked = 0 /\ processed = 0 /\ hand = 0 /\
                session = 0 /\ action = 0 /\ latest = 0 /\ task = 0 /\ shown = 0 /\
                turn = 0 /\ queued = 0 /\ job = 0 /\ answered = 0 /\ connection = 0 /\
                heard = 0 /\ reply = 0 /\ sent = 0 /\ events = 0 /\ waiting = 0 /\
                answers = 0 /\ delivery = 0 /\ watermark = 0 /\ told = 0 /\
                prompts = 0 /\ closed = 0 /\ pending = 0 /\ scan = 0 /\ row = 0 /\
                revisions = 0 /\ refs = 0 /\ comments = 0 /\ steps = 0 /\ log = 0 /\
                call = 0 /\ calls = 0 /\ http = 0 /\ status = 0 /\ supervisor = 0 /\
                recent = 0 /\ stored = 0 /\ blocked = 0 /\ leases = 0 /\ cleaning = 0 /\
                mem = 0 /\ sql = 0 /\ now = 0 /\ said = 0 /\ won = 0 /\ created = 0 /\
                noticed = 0 /\ todo = 0 /\ phase = 0 /\ inside = 0 /\ links = 0 /\
                tail = 0 /\ asked = 0 /\ marked = 0 /\ handled = 0 /\ content = 0 /\
                disabled = 0 /\ recorded = 0 /\ risked = 0 /\ edited = 0

Init ==
    /\ part \in Parts
    /\ \/ part = "actions" /\ Actions!Init /\ NoTelegramActions
       \/ part = "hooked" /\ AlsoHooked!Init /\ NoTelegramActions
       \/ part = "turns" /\ Turns!Init /\ NoTelegramTurns
       \/ part = "twoturns" /\ TwoTurns!Init /\ NoTelegramTurns
       \/ part = "twin" /\ Twin!Init /\ NoTelegramTwin
       \/ part = "admin" /\ Administered!Init /\ NoTelegramTwin
       \/ part = "notices" /\ Notices!Init /\ NoTelegramNotices
       \/ part = "replies" /\ Replies!Init /\ NoTelegramNotices
       \/ part = "plain_replies" /\ PlainReplies!Init /\ NoTelegramNotices
       \/ part = "keys" /\ Keys!Init /\ NoTaskRecords
       \/ part = "edits" /\ TwoEdits!Init /\ NoTaskRecords
       \/ part = "records" /\ Records!Init /\ NoTaskRecords
       \/ part = "whole" /\ Atomic!Init /\ NoTaskRecords
       \/ part = "api" /\ Api!ApiInit /\ NoHumanApi
       \/ part = "api_create" /\ Creating!ApiInit /\ NoHumanApi
       \/ part = "api_talk" /\ Talking!ApiInit /\ NoHumanApi
       \/ part = "memory" /\ InMemory!Init /\ NoMemoryTracker
       \/ part = "memory_proposals" /\ MemoryProposals!Init /\ NoMemoryTracker
       \/ part = "memory_limit" /\ MemoryLimit!Init /\ NoMemoryTracker
       \/ part = "stores" /\ BothStores!Init /\ NoTelegramStores
       \/ part = "stores_kept" /\ StoresKept!Init /\ NoTelegramStores
       \/ part = "locks" /\ Locks!Init /\ NoStoreLocks
       \/ part = "locks_polled" /\ LocksPolled!Init /\ NoStoreLocks
       \/ part = "locks_hooked" /\ LocksHooked!Init /\ NoStoreLocks
       \/ part = "files" /\ MemFiles!Init /\ NoMemoryFiles
       \/ part = "files_curated" /\ FilesCurated!Init /\ NoMemoryFiles
       \/ part = "files_strict" /\ FilesStrict!Init /\ NoMemoryFiles
       \/ part = "files_lax" /\ FilesLax!Init /\ NoMemoryFiles
       \/ part = "migrations" /\ Migrate!Init /\ NoMigrations

BesideTelegramActions == <<part, turn, queued, job, answered, connection, heard, reply,
                           sent, events, waiting, answers, delivery, watermark, told,
                           prompts, closed, pending, scan, row, revisions, refs,
                           comments, steps, log, call, calls, http, status, supervisor,
                           recent, stored, blocked, leases, cleaning, table, mem, sql,
                           now, said, won, created, noticed, todo, phase, inside, links,
                           tail, asked, marked, handled, content, disabled, recorded,
                           risked, edited, applied, effects, run, started>>
BesideTelegramTurns == <<part, session, action, latest, task, shown, connection, heard,
                         reply, sent, events, waiting, answers, delivery, watermark,
                         told, prompts, closed, pending, scan, row, revisions, refs,
                         comments, steps, log, call, calls, http, status, supervisor,
                         recent, stored, blocked, leases, cleaning, table, mem, sql,
                         now, said, won, created, noticed, todo, phase, inside, links,
                         tail, asked, marked, handled, content, disabled, recorded,
                         risked, edited, applied, effects, run, started>>
BesideTelegramTwin == <<part, action, latest, task, shown, answered, events, waiting,
                        answers, delivery, watermark, told, prompts, closed, pending,
                        scan, row, revisions, refs, comments, steps, log, call, calls,
                        http, status, supervisor, recent, stored, blocked, leases,
                        cleaning, table, mem, sql, now, said, won, created, noticed,
                        todo, phase, inside, links, tail, asked, marked, handled,
                        content, disabled, recorded, risked, edited, applied, effects,
                        run, started>>
BesideTelegramNotices == <<part, session, action, latest, task, shown, turn, queued,
                           job, answered, connection, heard, reply, sent, row,
                           revisions, refs, comments, steps, log, call, calls, http,
                           status, supervisor, recent, stored, blocked, leases,
                           cleaning, table, mem, sql, now, said, won, created, noticed,
                           todo, phase, inside, links, tail, asked, marked, handled,
                           content, disabled, recorded, risked, edited, applied,
                           effects, run, started>>
BesideTaskRecords == <<part, inbox, offset, acked, processed, hand, faults, session,
                       action, latest, task, shown, turn, queued, job, answered,
                       connection, heard, reply, sent, events, waiting, answers,
                       delivery, watermark, told, prompts, closed, pending, scan, http,
                       status, supervisor, recent, stored, blocked, leases, cleaning,
                       table, mem, sql, now, said, won, created, noticed, todo, phase,
                       inside, links, tail, asked, marked, handled, content, disabled,
                       recorded, risked, edited, applied, effects, run, started>>
BesideHumanApi == <<part, inbox, offset, acked, processed, hand, faults, session,
                    action, latest, task, shown, turn, queued, job, answered,
                    connection, heard, reply, sent, events, waiting, answers, delivery,
                    watermark, told, prompts, closed, pending, scan, status, supervisor,
                    recent, stored, blocked, leases, cleaning, table, mem, sql, now,
                    said, won, created, noticed, todo, phase, inside, links, tail,
                    asked, marked, handled, content, disabled, recorded, risked, edited,
                    applied, effects, run, started>>
BesideMemoryTracker == <<part, inbox, offset, acked, processed, hand, faults, session,
                         action, latest, task, shown, turn, queued, job, answered,
                         connection, heard, reply, sent, events, waiting, answers,
                         delivery, watermark, told, prompts, closed, pending, scan, row,
                         revisions, refs, comments, steps, log, call, calls, http,
                         table, mem, sql, now, said, won, created, noticed, todo, phase,
                         inside, links, tail, asked, marked, handled, content, disabled,
                         recorded, risked, edited, applied, effects, run, started>>
BesideTelegramStores == <<part, inbox, offset, acked, processed, hand, faults, session,
                          action, latest, task, shown, turn, queued, job, answered,
                          connection, heard, reply, sent, events, waiting, answers,
                          delivery, watermark, told, prompts, closed, pending, scan,
                          row, revisions, refs, comments, steps, log, call, http,
                          status, supervisor, recent, stored, blocked, leases, cleaning,
                          todo, phase, inside, links, tail, asked, marked, handled,
                          content, disabled, recorded, risked, edited, applied, effects,
                          run, started>>
BesideStoreLocks == <<part, inbox, offset, acked, processed, hand, session, action,
                      latest, task, shown, turn, queued, job, answered, connection,
                      heard, reply, sent, events, waiting, answers, delivery, watermark,
                      told, prompts, closed, pending, scan, row, revisions, refs,
                      comments, steps, log, call, calls, http, status, supervisor,
                      recent, stored, blocked, leases, cleaning, table, mem, sql, now,
                      said, won, created, noticed, content, disabled, recorded, risked,
                      edited, applied, effects, run, started>>
BesideMemoryFiles == <<part, inbox, offset, acked, processed, hand, session, action,
                       latest, task, shown, turn, queued, job, answered, connection,
                       heard, reply, sent, events, waiting, answers, delivery,
                       watermark, told, prompts, closed, pending, scan, row, revisions,
                       refs, comments, steps, log, http, status, supervisor, recent,
                       stored, blocked, leases, cleaning, table, mem, sql, now, said,
                       won, created, noticed, todo, phase, inside, links, tail, asked,
                       marked, handled, applied, effects, run, started>>
BesideMigrations == <<part, inbox, offset, acked, processed, hand, session, action,
                      latest, task, shown, turn, queued, job, answered, connection,
                      heard, reply, sent, events, waiting, answers, delivery, watermark,
                      told, prompts, closed, pending, scan, row, revisions, refs,
                      comments, steps, log, call, calls, http, status, supervisor,
                      recent, stored, blocked, leases, cleaning, mem, sql, now, said,
                      won, created, noticed, todo, phase, inside, links, tail, asked,
                      marked, handled, content, disabled, recorded, risked, edited>>

Next ==
    \/ part = "actions" /\ Actions!Next /\ UNCHANGED BesideTelegramActions
    \/ part = "hooked" /\ AlsoHooked!Next /\ UNCHANGED BesideTelegramActions
    \/ part = "turns" /\ Turns!Next /\ UNCHANGED BesideTelegramTurns
    \/ part = "twoturns" /\ TwoTurns!Next /\ UNCHANGED BesideTelegramTurns
    \/ part = "twin" /\ Twin!Next /\ UNCHANGED BesideTelegramTwin
    \/ part = "admin" /\ Administered!Next /\ UNCHANGED BesideTelegramTwin
    \/ part = "notices" /\ Notices!Next /\ UNCHANGED BesideTelegramNotices
    \/ part = "replies" /\ Replies!Next /\ UNCHANGED BesideTelegramNotices
    \/ part = "plain_replies" /\ PlainReplies!Next /\ UNCHANGED BesideTelegramNotices
    \/ part = "keys" /\ Keys!Next /\ UNCHANGED BesideTaskRecords
    \/ part = "edits" /\ TwoEdits!Next /\ UNCHANGED BesideTaskRecords
    \/ part = "records" /\ Records!Next /\ UNCHANGED BesideTaskRecords
    \/ part = "whole" /\ Atomic!Next /\ UNCHANGED BesideTaskRecords
    \/ part = "api" /\ Api!ApiNext /\ UNCHANGED BesideHumanApi
    \/ part = "api_create" /\ Creating!ApiNext /\ UNCHANGED BesideHumanApi
    \/ part = "api_talk" /\ Talking!ApiNext /\ UNCHANGED BesideHumanApi
    \/ part = "memory" /\ InMemory!Next /\ UNCHANGED BesideMemoryTracker
    \/ part = "memory_proposals" /\ MemoryProposals!Next /\ UNCHANGED BesideMemoryTracker
    \/ part = "memory_limit" /\ MemoryLimit!Next /\ UNCHANGED BesideMemoryTracker
    \/ part = "stores" /\ BothStores!Next /\ UNCHANGED BesideTelegramStores
    \/ part = "stores_kept" /\ StoresKept!Next /\ UNCHANGED BesideTelegramStores
    \/ part = "locks" /\ Locks!Next /\ UNCHANGED BesideStoreLocks
    \/ part = "locks_polled" /\ LocksPolled!Next /\ UNCHANGED BesideStoreLocks
    \/ part = "locks_hooked" /\ LocksHooked!Next /\ UNCHANGED BesideStoreLocks
    \/ part = "files" /\ MemFiles!Next /\ UNCHANGED BesideMemoryFiles
    \/ part = "files_curated" /\ FilesCurated!Next /\ UNCHANGED BesideMemoryFiles
    \/ part = "files_strict" /\ FilesStrict!Next /\ UNCHANGED BesideMemoryFiles
    \/ part = "files_lax" /\ FilesLax!Next /\ UNCHANGED BesideMemoryFiles
    \/ part = "migrations" /\ Migrate!Next /\ UNCHANGED BesideMigrations

Spec == Init /\ [][Next]_vars

-----------------------------------------------------------------------------
\* Every part keeps to its types.
TypeOK ==
    /\ part = "actions" => Actions!TypeOK
    /\ part = "hooked" => AlsoHooked!TypeOK
    /\ part = "turns" => Turns!TypeOK
    /\ part = "twoturns" => TwoTurns!TypeOK
    /\ part = "twin" => Twin!TypeOK
    /\ part = "admin" => Administered!TypeOK
    /\ part = "notices" => Notices!TypeOK
    /\ part = "replies" => Replies!TypeOK
    /\ part = "plain_replies" => PlainReplies!TypeOK
    /\ part = "keys" => Keys!TypeOK
    /\ part = "edits" => TwoEdits!TypeOK
    /\ part = "records" => Records!TypeOK
    /\ part = "whole" => Atomic!TypeOK
    /\ part = "api" => Api!TypeOK
    /\ part = "api_create" => Creating!TypeOK
    /\ part = "api_talk" => Talking!TypeOK
    /\ part = "memory" => InMemory!TypeOK
    /\ part = "memory_proposals" => MemoryProposals!TypeOK
    /\ part = "memory_limit" => MemoryLimit!TypeOK
    /\ part = "stores" => BothStores!TypeOK
    /\ part = "stores_kept" => StoresKept!TypeOK
    /\ part = "locks" => Locks!TypeOK
    /\ part = "locks_polled" => LocksPolled!TypeOK
    /\ part = "locks_hooked" => LocksHooked!TypeOK
    /\ part = "files" => MemFiles!TypeOK
    /\ part = "files_curated" => FilesCurated!TypeOK
    /\ part = "files_strict" => FilesStrict!TypeOK
    /\ part = "files_lax" => FilesLax!TypeOK
    /\ part = "migrations" => Migrate!TypeOK

\* TelegramActions: a task exists only because somebody who may say yes to it did.
TaskIsApproved ==
    /\ part = "actions" => Actions!TaskIsApproved

\* TelegramActions, TelegramStores: what was decided stays decided.  TelegramTurns: a
\* cancelled turn is not answered.  TelegramNotices: what is recorded as sent is not
\* sent again.
DecisionsStand ==
    /\ [][part = "actions" => Actions!KeepsDecided]_vars
    /\ [][part = "hooked" => AlsoHooked!KeepsDecided]_vars
    /\ [][part = "turns" => Turns!StaysSilent]_vars
    /\ [][part = "notices" => Notices!RepeatsNothing]_vars
    /\ [][part = "replies" => Replies!RepeatsNothing]_vars
    /\ [][part = "plain_replies" => PlainReplies!RepeatsNothing]_vars
    /\ [][part = "stores" => BothStores!SettledStays]_vars
    /\ [][part = "stores_kept" => StoresKept!SettledStays]_vars

\* TelegramTurns: one turn of a conversation runs at a time.
OneTurnAtATime ==
    /\ part = "turns" => Turns!OneTurnAtATime
    /\ part = "twoturns" => TwoTurns!OneTurnAtATime

\* TelegramTurns, TelegramTwin, TelegramNotices: questions, messages and answers
\* count once, however often their updates are delivered, and an answered prompt
\* takes no more.
OnceOnly ==
    /\ part = "turns" => Turns!AnsweredOnce
    /\ part = "twin" => Twin!RepliedOnce
    /\ part = "admin" => Administered!RepliedOnce
    /\ part = "notices" => Notices!AnswerRecordedOnce
    /\ part = "replies" => Replies!AnswerRecordedOnce
    /\ part = "plain_replies" => PlainReplies!AnswerRecordedOnce
    /\ part = "notices" => Notices!AnsweredPromptStays
    /\ part = "replies" => Replies!AnsweredPromptStays
    /\ part = "plain_replies" => PlainReplies!AnsweredPromptStays

\* TelegramTwin: no reply is recorded as failed after it was sent, and the connection
\* is that of the latest update handled.
DeliveryIsHonest ==
    /\ part = "twin" => Twin!DeliveryIsHonest
    /\ part = "admin" => Administered!DeliveryIsHonest
    /\ part = "twin" => Twin!ConnectionIsLatest
    /\ part = "admin" => Administered!ConnectionIsLatest

\* TaskRecords: a key names one task, a retry finds it, revisions are numbered without
\* a gap and say what the row says, attachments are registered once, and what is
\* announced is stored.
RecordsAgree ==
    /\ part = "keys" => Keys!KeyNamesOneTask
    /\ part = "keys" => Keys!RetryFindsItsTask
    /\ part = "keys" => Keys!RevisionsAreOnRecord
    /\ part = "edits" => TwoEdits!RevisionsAreOnRecord
    /\ part = "records" => Records!RegisteredOnce
    /\ part = "records" => Records!AnnouncedIsStored

\* HumanApi: the session tells what the routes allow, a bulk creation that succeeds is
\* whole, and a request that is refused changes nothing but what the module names.
ApiIsHonest ==
    /\ part = "api" => Api!CapabilitiesAreHonest
    /\ part = "api_create" => Creating!BulkIsWhole
    /\ part = "api" => Api!RefusedLeavesNoTrace
    /\ part = "api_create" => Creating!RefusedLeavesNoTrace
    /\ part = "api_talk" => Talking!RefusedLeavesNoTrace

\* MemoryTracker: what is executed is approved, and the limit of proposals holds but
\* for calls that overlap.
MemoryIsSound ==
    /\ part = "memory" => InMemory!ExecutedIsApproved
    /\ part = "memory_proposals" => MemoryProposals!ExecutedIsApproved
    /\ part = "memory_limit" => MemoryLimit!ExecutedIsApproved
    /\ part = "memory" => InMemory!OvershootIsBounded
    /\ part = "memory_proposals" => MemoryProposals!OvershootIsBounded
    /\ part = "memory_limit" => MemoryLimit!OvershootIsBounded

\* MemoryTracker implements the lock that the tables of PostgreSQL implement, and the
\* calls of TaskRecords that are one transaction are those of the tracker in memory, which
\* takes on no second proposal of a title but by a retry.
StoresAgree ==
    /\ [][part = "memory" => InMemory!LockStep]_vars
    /\ [][part = "memory_proposals" => MemoryProposals!LockStep]_vars
    /\ [][part = "memory_limit" => MemoryLimit!LockStep]_vars
    /\ [][part = "memory" => InMemory!TwinsByRetry]_vars
    /\ [][part = "memory_proposals" => MemoryProposals!TwinsByRetry]_vars
    /\ [][part = "memory_limit" => MemoryLimit!TwinsByRetry]_vars
    /\ [][part = "whole" => Atomic!AtomicStep]_vars

\* TelegramStores: the two stores of the assistant answer alike, what is given to one
\* caller is given to no other, and the daily limit holds.  StoreLocks: the locks keep
\* what they guard apart, in order, and whoever waits is waited for by nobody.
StoresAreSound ==
    /\ part = "stores" => BothStores!StoresAreSound
    /\ part = "stores_kept" => StoresKept!StoresAreSound
    /\ part = "locks" => Locks!LocksAreSound
    /\ part = "locks_polled" => LocksPolled!LocksAreSound
    /\ part = "locks_hooked" => LocksHooked!LocksAreSound

\* MemoryFiles: what was recorded in the memory, or edited by people, is kept.
\* Migrations: a migration takes effect once and in order, and a process starts only
\* on a schema that has what it needs.
FilesAreSound ==
    /\ part = "files" => MemFiles!MemoryIsKept
    /\ part = "files_curated" => FilesCurated!MemoryIsKept
    /\ part = "files_strict" => FilesStrict!MemoryIsKept
    /\ part = "files_lax" => FilesLax!MemoryIsKept
    /\ part = "migrations" => Migrate!SchemaIsSound
=============================================================================
