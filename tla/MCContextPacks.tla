--------------------------- MODULE MCContextPacks ---------------------------
(* Two budgets for one task, and another task.                             *)
EXTENDS ContextPacks

CONSTANTS s1, s2

TwoBudgets ==
    {[id |-> "ctx1", budget |-> 100], [id |-> "ctx1", budget |-> 2000],
     [id |-> "ctx2", budget |-> 2000]}

=============================================================================
