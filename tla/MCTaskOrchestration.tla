------------------------ MODULE MCTaskOrchestration -------------------------
(* Small plans for TLC: a chain, two independent steps, a single step.     *)
EXTENDS TaskProperties

Chain    == [s \in {"a", "b"} |-> IF s = "b" THEN {"a"} ELSE {}]
Parallel == [s \in {"a", "b"} |-> {}]
Single   == [s \in {"a"} |-> {}]

AllPlans  == {Chain, Parallel, Single}
FewPlans  == {Chain}
TwoStepPlans == {Chain, Parallel}
AllCosts  == {1, 2, 5}
FirstOnly == {1}
FirstTwo  == {1, 2}

=============================================================================
