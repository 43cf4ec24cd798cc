----------------------------- MODULE MCApproval -----------------------------
(***************************************************************************)
(* Small instances of ApprovedWork.                                        *)
(***************************************************************************)
EXTENDS ApprovedWork, TLC

CONSTANTS r1, r2, r3

ThreeRequests == {r1, r2, r3}

\* Requests are told apart by their contents only.
RequestSymmetry == Permutations(Ids)
=============================================================================
