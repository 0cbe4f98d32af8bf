----------------------------- MODULE MCProposals ------------------------------
(***************************************************************************)
(* Small instances of Proposals.  p1 and p2 are two calls with one key and *)
(* one content; p3 and p4 are about something else.                        *)
(***************************************************************************)
EXTENDS Proposals, TLC

CONSTANTS c1, c2, p1, p2, p3, p4

TwoCallers == {c1, c2}
FourIds    == {p1, p2, p3, p4}
Contents   == [p \in Ids |-> CASE p = p3 -> "other" [] p = p4 -> "third" [] OTHER -> "same"]
Retried    == [p \in Ids |-> IF p \in {p3, p4} THEN NoKey ELSE "k"]
=============================================================================
