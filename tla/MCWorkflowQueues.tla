-------------------------- MODULE MCWorkflowQueues --------------------------
\* One message, one timer that is due later, and one workflow instance.
EXTENDS WorkflowQueues, TLC

CONSTANTS w1, w2, m1, t1, f1, p1, p2

MCFireAt == t1 :> 1

Interchangeable == Permutations({w1, w2}) \cup Permutations({p1, p2})
===============================================================================
