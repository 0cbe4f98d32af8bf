---------------------------- MODULE MCTaskQueue -----------------------------
(***************************************************************************)
(* A small instance of TaskQueue: t1 and t2 share a repository, both       *)
(* workers serve t2, w2 serves t1 as well, and the clock of w1 runs one    *)
(* tick ahead.                                                             *)
(***************************************************************************)
EXTENDS TaskQueue, TLC

CONSTANTS w1, w2, t1, t2

MCWorkers  == {w1, w2}
MCTasks    == {t1, t2}
MCRank     == (t1 :> 1) @@ (t2 :> 0)

SharedRepo == [t \in MCTasks |-> "r1"]
FirstAhead == (w1 :> 1) @@ (w2 :> 0)

Requests   == {"analyzing"}

Overlapping == (w1 :> {t2}) @@ (w2 :> {t1, t2})
=============================================================================
