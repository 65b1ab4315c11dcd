---------------------------- MODULE MCInputImport ----------------------------
(* Instances of InputImport for TLC. *)
EXTENDS InputImport

OneJob  == {1}
TwoJobs == {1, 2}

(* Every step that can fail, with and without the commits. *)
AllSteps      == Steps \ {"seed", "mirror"}
BeforeCommits == AllSteps \ {"am"}
=============================================================================
