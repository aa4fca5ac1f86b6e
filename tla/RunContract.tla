---------------------------- MODULE RunContract ----------------------------
(***************************************************************************)
(* What a run promises its buyer (ADR-0013): it is started once, ends with *)
(* one verdict, and the verdict "succeeded" comes with the package.        *)
(***************************************************************************)
VARIABLES status, package

Init == status = "pending" /\ package = FALSE

Start == status = "pending" /\ status' = "running" /\ package' = package

\* The package and the verdict are delivered in one step.
Succeed ==
  /\ status = "running"
  /\ status' = "succeeded" /\ package' = TRUE

Fail == status = "running" /\ status' = "failed" /\ package' = package

\* The run is deleted with all it has.
Delete == status' = "absent" /\ package' = FALSE

Next == Start \/ Succeed \/ Fail \/ Delete

Spec == Init /\ [][Next]_<<status, package>>
=============================================================================
