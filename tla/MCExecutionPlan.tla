--------------------------- MODULE MCExecutionPlan ---------------------------
(* Three workstreams: a and b are independent, c waits for both of them.       *)
EXTENDS ExecutionPlan

CONSTANTS a, b, c

MCWorkstreams == {a, b, c}
MCDependsOn == [w \in MCWorkstreams |-> IF w = c THEN {a, b} ELSE {}]

\* A plan of two workstreams, one waiting for the other.
MCPair == {a, c}
MCPairDependsOn == [w \in MCPair |-> IF w = c THEN {a} ELSE {}]
=============================================================================
