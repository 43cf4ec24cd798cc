------------------------------ MODULE MCWorker ------------------------------
(***************************************************************************)
(* Small instances of AutomationWorker.                                    *)
(***************************************************************************)
EXTENDS AutomationWorker

\* Every job in the same workspace.
OneWorkspace == [j \in Jobs |-> "A"]

\* The first two jobs share a workspace, later ones do not.
TwoWorkspaces == [j \in Jobs |-> IF j <= 2 THEN "A" ELSE "B"]
=============================================================================
