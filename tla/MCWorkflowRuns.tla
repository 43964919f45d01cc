--------------------------- MODULE MCWorkflowRuns ---------------------------
(* Small instances of WorkflowRuns: one definition per workflow.            *)
EXTENDS WorkflowRuns

\* A retried step, a decision that jumps back or misses, a human step, and a
\* step whose failure is escalated.
LoopKind      == <<"work", "decision", "human">>
LoopFailure   == <<"retry", "escalate", "halt">>
LoopBranches  == <<{}, {1, 3, Unknown}, {}>>

\* The same without a way back, with a step that is skipped.
LineKind      == <<"decision", "work", "work", "human">>
LineFailure   == <<"skip", "retry", "escalate", "retry">>
LineBranches  == <<{2, 3}, {}, {}, {}>>

\* A notification before a person's decision.
PairKind      == <<"work", "human">>
PairFailure   == <<"halt", "halt">>
PairBranches  == <<{}, {}>>
=============================================================================
