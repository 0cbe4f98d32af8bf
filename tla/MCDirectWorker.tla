--------------------------- MODULE MCDirectWorker ---------------------------
(***************************************************************************)
(* Small instances of DirectWorker: one issue with every fault, or two     *)
(* issues of which i1 is listed first.                                     *)
(***************************************************************************)
EXTENDS DirectWorker, TLC

CONSTANTS i1, i2

OneIssue  == {i1}
TwoIssues == {i1, i2}
Listed    == [i \in Issues |-> IF i = i1 THEN 0 ELSE 1]
=============================================================================
