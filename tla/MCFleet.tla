------------------------------ MODULE MCFleet -------------------------------
(***************************************************************************)
(* A small instance of Fleet: two workers, and two issues whose            *)
(* repositories are in one checkout.                                       *)
(***************************************************************************)
EXTENDS Fleet

TwoIssues == {1, 2}
Scores    == <<2, 1>>
OneOfBoth == <<"c", "c">>
=============================================================================
