\* The workers and the services around them, safety.
SPECIFICATION Spec
CONSTANTS
    Parts = {"bridge", "bridge_alone", "bridge_issues", "goals", "plans", "fleet",
             "worker", "direct", "gates", "gates_output", "intake", "intake_alone",
             "goal_stores", "goal_store_alone", "codex", "codex_args", "runtime", "runtime_hooked",
             "runtime_once", "alerts", "alerts_issues", "alerts_blocked", "alerts_failed", "events_kept",
             "config", "config_file", "requests", "lists"}
INVARIANTS
    TypeOK
    MirrorIsSound
    GoalsAreSound
    WorkIsSound
    CallsAreSound
    RuntimeIsSound
PROPERTIES
    OnlyGatedIsPushed
CHECK_DEADLOCK FALSE
