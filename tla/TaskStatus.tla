----------------------------- MODULE TaskStatus -----------------------------
(***************************************************************************)
(* The lifecycle graph of a task of the internal tracker                   *)
(* (src/domain/taskTracker/status.ts).  Every status change that goes      *)
(* through setStatus is checked against this graph; the claim queries of   *)
(* the PostgreSQL tracker write the status without checking it.            *)
(***************************************************************************)

AllowedTransitions ==
    [ new            |-> {"triage", "ready", "cancelled"},
      triage         |-> {"ready", "blocked", "cancelled"},
      ready          |-> {"claimed", "triage", "blocked", "cancelled"},
      claimed        |-> {"analyzing", "awaiting_human", "blocked", "failed", "cancelled"},
      analyzing      |-> {"awaiting_human", "decomposing", "implementing", "validating",
                          "ready", "failed", "cancelled"},
      awaiting_human |-> {"ready", "analyzing", "implementing", "blocked", "cancelled"},
      decomposing    |-> {"awaiting_human", "ready", "implementing", "failed", "cancelled"},
      implementing   |-> {"validating", "awaiting_human", "blocked", "failed", "cancelled"},
      validating     |-> {"review", "fixing_review", "implementing", "done", "failed",
                          "cancelled"},
      review         |-> {"fixing_review", "human_testing", "done", "awaiting_human",
                          "failed", "cancelled"},
      human_testing  |-> {"done", "awaiting_human", "failed", "cancelled"},
      fixing_review  |-> {"validating", "review", "awaiting_human", "failed", "cancelled"},
      blocked        |-> {"ready", "failed", "cancelled"},
      done           |-> {},
      failed         |-> {"ready", "cancelled"},
      cancelled      |-> {} ]

Status == DOMAIN AllowedTransitions

\* canTransitionTaskStatus: staying put is always allowed.
CanTransition(from, to) == from = to \/ to \in AllowedTransitions[from]

\* mapTaskStatusToLogicalStatus: the coarse status shown to people and to
\* external trackers.
LogicalStatus(s) ==
    CASE s \in {"new", "triage", "ready"}                          -> "open"
      [] s \in {"claimed", "analyzing", "decomposing", "implementing",
                "validating", "fixing_review"}                     -> "in_progress"
      [] s \in {"awaiting_human", "blocked"}                       -> "waiting_for_answer"
      [] s \in {"review", "human_testing"}                         -> "review"
      [] s = "done"                                                -> "done"
      [] s \in {"failed", "cancelled"}                             -> "failed"
=============================================================================
