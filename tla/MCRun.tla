-------------------------------- MODULE MCRun --------------------------------
(***************************************************************************)
(* Small DAGs for RunLifecycle: the values its configurations use.         *)
(***************************************************************************)
EXTENDS RunProperties, TLC

CONSTANTS t1, t2, t3

(* t2 after t1 *)
Chain == {t1, t2}
ChainDeps == (t1 :> {}) @@ (t2 :> {t1})
(* t3 after t1 and t2, which are independent *)
Join == {t1, t2, t3}
JoinDeps == (t1 :> {}) @@ (t2 :> {}) @@ (t3 :> {t1, t2})

(* the task list is in the order t1, t2, t3 *)
InOrder == [t \in Task |-> CASE t = t1 -> 1 [] t = t2 -> 2 [] OTHER -> 3]

NoDeps == [t \in Task |-> {}]
AllSuccess == [t \in Task |-> "all_success"]
Open == [t \in Task |-> {"run"}]
Tolerant == [t \in Task |-> IF t = t3 THEN "none_failed" ELSE "all_success"]
Conditional == [t \in Task |-> CASE t = t2 -> {"run", "skip"}
                                  [] t = t3 -> {"run", "wait", "fail"}
                                  [] OTHER -> {"run"}]
NoRetries == [t \in Task |-> 0]
RetryFirst == [t \in Task |-> IF t = t1 THEN 1 ELSE 0]
=============================================================================
