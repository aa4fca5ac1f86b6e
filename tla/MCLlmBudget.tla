---------------------------- MODULE MCLlmBudget ----------------------------
(* LlmBudget for TLC: up to three questions, two providers, the first dearer. *)
EXTENDS LlmBudget, TLC

CONSTANTS q1, q2, q3

TwoPrices == (1 :> 2) @@ (2 :> 1)
FirstAnswer == {<<q1, 1>>}
=============================================================================
