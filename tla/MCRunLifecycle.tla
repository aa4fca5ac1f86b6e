--------------------------- MODULE MCRunLifecycle ---------------------------
(* Instances of RunLifecycle for TLC.                                      *)
EXTENDS RunLifecycle, TLC

CONSTANTS m1, m2, w1, w2

\* The blocks of runner.run.
FullPipeline ==
  <<"intake_normalizer", "requirements_extractor", "research_planner",
    "research_workers", "retrieval", "synthesizer", "architect",
    "cost_estimator", "risk_writer", "packager">>
\* One block, an unguarded one.
OneBlock == <<"research_workers">>
\* The blocks without "except Exception".
UnguardedBlocks == {"research_workers", "retrieval"}

HandlerSymmetry == Permutations(Workers)
=============================================================================
