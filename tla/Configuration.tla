--------------------------- MODULE Configuration ---------------------------
(***************************************************************************)
(* How a process comes to be what it is: the settings that src/config.ts   *)
(* takes from the environment and from WORKER_CONFIG_FILE, what it refuses,*)
(* and the parts that buildApplication (src/app.ts) makes of the rest.     *)
(*                                                                         *)
(* A setting is what its layers yield: the environment, the file, the      *)
(* default; "bad" stands for every value the parser of the setting throws  *)
(* at.  The layers of the provider are kept apart, since they do not yield *)
(* as the others do.  Settings that no part of the process depends on      *)
(* (commands, limits, texts) are complete, or they are not.                *)
(***************************************************************************)
EXTENDS Naturals, Sequences

CONSTANTS
    Names,        \* names that repositories may have
    Lower,        \* what sanitizeRepositoryKey and toLowerCase make of a name
    Single,       \* "default", the name of the repository of the environment
    Starts,       \* bound: the environments that a process is started in
    Assistants,   \* bound: what the settings of the assistant may yield
    MaxProfiles   \* bound: profiles of a file

VARIABLES
    stage,        \* what is parsed or built next, or how it ended
    start,        \* of the environment: [file, preflight, test, production]
    tracker,      \* TaskTrackerConfig: [provider, sync, storage]
    profiles,     \* the repositories: [name, manager, auto]
    policies,     \* autonomy.repositories: autoExecuteLowRiskEnabled of a name
    auto,         \* autonomy.autoExecuteLowRiskEnabled
    manager,      \* projectManager.enabled
    yandex,       \* nothing that Yandex requires is missing
    assistant,    \* TelegramAssistantConfig
    locking,      \* coordination.lockBackend
    app           \* the parts that are made

loaded == <<tracker, profiles, policies, auto, manager, yandex, assistant, locking>>
vars   == <<stage, start, loaded, app>>

Providers == {"yandex", "internal"}
Storages  == {"postgres", "memory"}
Modes     == {"polling", "webhook"}
Backends  == {"none", "tracker", "redis", "postgres"}
Flag      == {"on", "off", "unset"}

\* Of TELEGRAM_* and the file's telegramAssistant; "section" is a webhook section in the
\* file, "allowed" a chat, a user or a role that the assistant serves.
Settings    == [enabled : BOOLEAN, mode : Modes \cup {"bad"}, path : {"none", "ok", "root"},
                section : BOOLEAN, secret : BOOLEAN, token : BOOLEAN, allowed : BOOLEAN]
Starting    == [file : BOOLEAN, preflight : BOOLEAN, test : BOOLEAN, production : BOOLEAN]

NoTracker   == [provider |-> "unset", sync |-> FALSE, storage |-> "none"]
NoAssistant == [enabled |-> FALSE, mode |-> "polling", token |-> FALSE, webhook |-> FALSE,
                secret |-> FALSE, allowed |-> FALSE]
NoPolicies  == [n \in Names |-> "none"]
NoApp       == [tracker |-> "none", goals |-> "none", talks |-> "none", bridge |-> "none",
                worker |-> "none", locks |-> "none"]

Init ==
    /\ stage = "tracker"
    /\ start \in Starts
    /\ tracker = NoTracker /\ profiles = <<>> /\ policies = NoPolicies
    /\ auto = FALSE /\ manager = FALSE /\ yandex = FALSE
    /\ assistant = NoAssistant /\ locking = "none" /\ app = NoApp

\* What is thrown leaves no process: "refused" by the loader, "failed" in app.ts.
Stop(how) == stage' = how /\ UNCHANGED <<start, loaded, app>>

-----------------------------------------------------------------------------
(* The loader *)

\* env.X ?? file: a variable that is blank hides the file.
Nullish(env, file, default) ==
    LET given == IF env # "unset" THEN env ELSE file
    IN  IF given \in {"unset", "blank"} THEN default ELSE given

UsesYandex == tracker.provider = "yandex" \/ tracker.sync

\* parseTaskTrackerOperationalConfig: history is kept for a year, and the artifacts
\* of a failure as long as the others.
Kept(retention) == retention.year /\ retention.failed >= retention.other

\* parseTaskTrackerConfig: what an internal tracker is refused for.
Internal(intake, sync, storage, url) ==
    /\ sync <=> intake = "hybrid"
    /\ storage = "memory" => start.test
    /\ storage = "postgres" => url = "postgres"

\* parseTaskTrackerConfig.  Intake "hybrid" is also yandex_integration, and
\* "standalone" every mode without Yandex.
ParseTracker ==
    /\ stage = "tracker"
    /\ \E env \in Providers \cup {"unset", "blank", "bad"},
          file \in IF start.file THEN Providers \cup {"unset", "bad"} ELSE {"unset"},
          intake \in {"standalone", "hybrid", "bad"}, sync \in BOOLEAN,
          storage \in Storages \cup {"bad"}, url \in {"unset", "postgres", "bad"},
          retention \in [year : BOOLEAN, failed : 1..2, other : 1..2] :
        LET provider == Nullish(env, file, "yandex")
            refused  == \/ ~Kept(retention) \/ "bad" \in {provider, intake, storage}
                        \/ provider = "internal" /\ ~Internal(intake, sync, storage, url)
        IN  \/ refused /\ Stop("refused")
            \/ /\ ~refused
               /\ tracker' = (IF provider = "internal"
                              THEN [provider |-> provider, sync |-> sync, storage |-> storage]
                              ELSE [NoTracker EXCEPT !.provider = provider])
               /\ stage' = "profiles"
               /\ UNCHANGED <<start, profiles, policies, auto, manager, yandex, assistant, locking, app>>

\* validateRepositoryProfiles: one memory key, one repository.
Distinct_ByName(given) == \A i, j \in 1..Len(given) : i # j => given[i].name # given[j].name
Distinct(given) ==
    \A i, j \in 1..Len(given) : i # j => Lower[given[i].name] # Lower[given[j].name]

\* parseAutonomyConfig: what a profile says goes over what autonomy.repositories says of
\* its name; a policy that says nothing of it executes nothing by itself.
Merged(listed, given) ==
    [n \in Names |->
        LET own == {given[i].auto : i \in {j \in 1..Len(given) : given[j].name = n}} IN
        IF own \cap {"on", "off"} # {} THEN CHOOSE said \in own \cap {"on", "off"} : TRUE
        ELSE IF listed[n] = "unset" \/ (listed[n] = "none" /\ "unset" \in own) THEN "off"
        ELSE listed[n]]

\* buildSingleRepositoryFleetConfig: the repository of the environment.
SingleProfile == <<[name |-> Single, manager |-> "unset", auto |-> "none"]>>

\* parseRepositoryProfile of every entry, validateRepositoryProfiles and parseAutonomyConfig;
\* without a file one repository and no policies.
ParseProfiles ==
    /\ stage = "profiles"
    /\ \/ start.file /\ Stop("refused")     \* an entry that is not complete
       \/ /\ start.file
          /\ \E given \in UNION {[1..n -> [name : Names, manager : Flag,
                                           auto : Flag \cup {"none"}]] : n \in 0..MaxProfiles} :
             \/ ~(given # <<>> /\ Distinct(given)) /\ Stop("refused")
             \/ /\ given # <<>> /\ Distinct(given)
                /\ profiles' = given
                /\ \E listed \in [Names -> Flag \cup {"none"}] : policies' = Merged(listed, given)
                /\ auto' \in BOOLEAN /\ stage' = "manager"
                /\ UNCHANGED <<start, tracker, manager, yandex, assistant, locking, app>>
       \/ /\ ~start.file
          /\ profiles' = SingleProfile
          /\ auto' \in BOOLEAN /\ stage' = "manager"
          /\ UNCHANGED <<start, tracker, policies, manager, yandex, assistant, locking, app>>

\* resolveRepositoryProjectManagerConfig: what buildRepositoryRuntimeConfig makes of it.
Managed(profile) == IF profile.manager = "unset" THEN manager ELSE profile.manager = "on"

SomeManaged_Globally == manager
SomeManaged == manager \/ \E i \in 1..Len(profiles) : profiles[i].manager = "on"

\* parseProjectManagerConfig and assertProjectManagerProviderCompatibility.
ParseManager ==
    /\ stage = "manager"
    /\ \E enabled \in BOOLEAN, complete \in BOOLEAN :
        LET wanted  == enabled \/ \E i \in 1..Len(profiles) : profiles[i].manager = "on"
            refused == ~complete \/ (wanted /\ tracker.provider # "internal")
        IN  \/ refused /\ Stop("refused")
            \/ /\ ~refused
               /\ manager' = enabled /\ stage' = "secrets"
               /\ UNCHANGED <<start, tracker, profiles, policies, auto, yandex, assistant, locking, app>>

\* requireEnv and resolveEnvReference: what cannot be missing.  Yandex is a token, an
\* organisation and a map of the statuses; a file need not say how often to repair.
YandexRequires      == {"token", "organisation", "statuses"}
FileRequires        == {"gitlab", "worker"}
EnvironmentRequires == FileRequires \cup {"attempts"}

Required_OfProvider ==
    (IF start.file THEN FileRequires ELSE EnvironmentRequires)
        \cup (IF tracker.provider = "yandex" THEN YandexRequires ELSE {})
Required ==
    (IF start.file THEN FileRequires ELSE EnvironmentRequires)
        \cup (IF UsesYandex THEN YandexRequires ELSE {})

\* loadConfig and loadFleetConfigFromFile, of one setting that may be missing.
ParseSecrets ==
    /\ stage = "secrets"
    /\ \E missing \in EnvironmentRequires \cup YandexRequires \cup {"nothing"} :
        \/ missing \in Required /\ Stop("refused")
        \/ /\ missing \notin Required
           /\ yandex' = (missing \notin YandexRequires) /\ stage' = "assistant"
           /\ UNCHANGED <<start, tracker, profiles, policies, auto, manager, assistant, locking, app>>

\* parseTelegramAssistantConfig: what is refused, of the settings that are given.
AssistantRefused(given) ==
    \/ given.mode = "bad" \/ given.path = "root"
    \/ given.mode # "webhook" /\ (given.section \/ given.path # "none" \/ given.secret)
    \/ /\ ~start.preflight
       /\ \/ given.mode = "webhook" /\ (given.path = "none" \/ ~given.secret)
          \/ given.enabled /\ (~given.token \/ (start.production /\ ~given.allowed))

ParseAssistant ==
    /\ stage = "assistant"
    /\ \E given \in Assistants :
        \/ AssistantRefused(given) /\ Stop("refused")
        \/ /\ ~AssistantRefused(given)
           /\ assistant' = [enabled |-> given.enabled, mode |-> given.mode, token |-> given.token,
                            webhook |-> given.mode = "webhook" /\ given.path = "ok",
                            secret |-> given.secret, allowed |-> given.allowed]
           /\ stage' = "coordination"
           /\ UNCHANGED <<start, tracker, profiles, policies, auto, manager, yandex, locking, app>>

\* parseCoordinationConfig
ParseCoordination ==
    /\ stage = "coordination"
    /\ \E given \in Backends \cup {"unset", "bad"} :
        LET backend == IF given # "unset" THEN given
                       ELSE IF tracker.provider = "internal" THEN "none" ELSE "tracker"
            refused == \/ backend \notin {"none", "tracker"}
                       \/ tracker.provider = "internal" /\ backend = "tracker"
        IN  \/ refused /\ Stop("refused")
            \/ /\ ~refused
               /\ locking' = backend /\ stage' = "stores"
               /\ UNCHANGED <<start, tracker, profiles, policies, auto, manager, yandex, assistant, app>>

-----------------------------------------------------------------------------
(* buildApplication *)

\* createInternalTaskTrackerClient and createProjectManagerStoreController
BuildStores ==
    /\ stage = "stores"
    /\ app' = [app EXCEPT
                 !.tracker = IF tracker.provider = "internal" THEN tracker.storage ELSE "none",
                 !.goals   = IF SomeManaged /\ tracker.provider = "internal"
                             THEN tracker.storage ELSE "none"]
    /\ stage' = "webhook"
    /\ UNCHANGED <<start, loaded>>

\* The HTTP server that a webhook needs, and validateTelegramWebhookRouteConfig: a
\* server without a conflict is there, or the process fails.
CheckWebhook ==
    /\ stage = "webhook"
    /\ \E server \in BOOLEAN :
        LET needed == ~start.preflight /\ assistant.enabled /\ assistant.mode = "webhook" IN
        \/ needed /\ ~server /\ Stop("failed")
        \/ (needed => server) /\ stage' = "talks" /\ UNCHANGED <<start, loaded, app>>

\* createTelegramAssistantController: the noop controller, or one with a store of its own.
BuildAssistant ==
    /\ stage = "talks"
    /\ LET silent == \/ ~assistant.enabled
                     \/ start.preflight /\ ~assistant.token
                     \/ start.preflight /\ assistant.mode = "webhook" /\ ~assistant.webhook
           broken == ~assistant.token \/ (assistant.mode = "webhook" /\ ~assistant.webhook)
       IN  \/ silent /\ stage' = "worker" /\ UNCHANGED <<start, loaded, app>>
           \/ ~silent /\ broken /\ Stop("broken")
           \/ /\ ~silent /\ ~broken
              /\ app' = [app EXCEPT !.talks = IF tracker.provider = "internal"
                                              THEN tracker.storage ELSE "memory"]
              /\ stage' = "worker"
              /\ UNCHANGED <<start, loaded>>

\* createYandexBridgeStore and the bridges, the lock backend and the orchestrator.
BuildWorker ==
    /\ stage = "worker"
    /\ \/ tracker.provider = "internal" /\ app.tracker = "none" /\ Stop("broken")
       \/ /\ ~(tracker.provider = "internal" /\ app.tracker = "none")
          /\ app' = [app EXCEPT
                       !.bridge = IF tracker.provider = "internal" /\ tracker.sync
                                  THEN tracker.storage ELSE "none",
                       !.locks  = IF locking = "none" THEN "noop" ELSE "comments",
                       !.worker = IF tracker.provider = "internal" THEN "internal"
                                  ELSE IF start.file THEN "fleet" ELSE "direct"]
          /\ stage' = IF start.preflight THEN "preflight" ELSE "running"
          /\ UNCHANGED <<start, loaded>>

Next ==
    \/ ParseTracker \/ ParseProfiles \/ ParseManager \/ ParseSecrets
    \/ ParseAssistant \/ ParseCoordination
    \/ BuildStores \/ CheckWebhook \/ BuildAssistant \/ BuildWorker

Spec == Init /\ [][Next]_vars

-----------------------------------------------------------------------------
(* Properties *)

Made == [tracker : Storages \cup {"none"}, goals : Storages \cup {"none"},
         talks : Storages \cup {"none"}, bridge : Storages \cup {"none"},
         worker : {"none", "internal", "fleet", "direct"}, locks : {"none", "noop", "comments"}]

\* Settings, profiles and parts are among the values that the code knows.
TypeOK ==
    /\ stage \in {"tracker", "profiles", "manager", "secrets", "assistant", "coordination", "stores",
                  "webhook", "talks", "worker", "refused", "failed", "broken", "preflight", "running"}
    /\ start \in Starting
    /\ tracker \in [provider : Providers \cup {"unset"}, sync : BOOLEAN, storage : Storages \cup {"none"}]
    /\ profiles \in Seq([name : Names, manager : Flag, auto : Flag \cup {"none"}])
    /\ policies \in [Names -> {"none", "on", "off"}]
    /\ auto \in BOOLEAN /\ manager \in BOOLEAN /\ yandex \in BOOLEAN
    /\ assistant \in [enabled : BOOLEAN, mode : Modes, token : BOOLEAN, webhook : BOOLEAN,
                      secret : BOOLEAN, allowed : BOOLEAN]
    /\ locking \in {"none", "tracker"}
    /\ app \in Made

Built == stage \in {"preflight", "running"}

\* What the loader lets pass never meets the errors that app.ts throws for settings
\* that the loader should have refused.
NeverBroken == stage # "broken"

\* Every part that talks to Yandex has a token and an organisation to talk with.
YandexIsKnown ==
    (Built /\ (app.bridge # "none" \/ app.locks = "comments" \/ app.worker # "internal")) => yandex

\* The stores of one process last equally long: beside a tracker in PostgreSQL nothing
\* that it refers to is kept in memory, and in memory only a test keeps its tasks.
StoresAgree ==
    Built => /\ app.tracker # "none" => {app.goals, app.talks, app.bridge} \subseteq {"none", app.tracker}
             /\ "memory" \in {app.tracker, app.goals, app.bridge} => start.test

\* A repository with a project manager is worked on by the worker that executes goals,
\* in a process that has a store for them.
ManagedHasGoals ==
    Built => \A i \in 1..Len(profiles) :
                Managed(profiles[i]) => app.worker = "internal" /\ app.goals # "none"

\* An assistant that runs can speak; a webhook is guarded by a secret, polling has none,
\* and in production somebody is allowed or nobody is served.
AssistantIsGuarded ==
    (stage = "running" /\ app.talks # "none") =>
        /\ assistant.token
        /\ assistant.mode = "webhook" <=> assistant.webhook
        /\ assistant.webhook => assistant.secret
        /\ start.production => assistant.allowed

\* repositoryPolicyFor: the entry of a repository's policy, its own name's or the
\* lower-cased one's.
Entry(name) == IF policies[name] # "none" THEN name ELSE Lower[name]

\* evaluateAutonomyPolicy executes a proposal for a repository by itself
Automatic(name) == auto /\ policies[Entry(name)] = "on"

\* No repository is executed by a policy that another repository's profile set, and
\* none at all without a file.
PolicyIsOwn ==
    stage \notin {"tracker", "profiles"} =>
        \A i, j \in 1..Len(profiles) :
            /\ Automatic(profiles[i].name) => start.file
            /\ i # j => Entry(profiles[i].name) # profiles[j].name

\* The settings that pass make a process that is whole.
ConfigIsSound ==
    /\ NeverBroken /\ YandexIsKnown /\ StoresAgree /\ ManagedHasGoals
    /\ AssistantIsGuarded /\ PolicyIsOwn
=============================================================================
