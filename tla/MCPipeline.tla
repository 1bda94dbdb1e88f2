----------------------------- MODULE MCPipeline -----------------------------
(* Pipeline on small instances: the constants of the TLC configurations.   *)
EXTENDS Pipeline, TLC

(* A job next to a synchronous pipeline, which fills the root's output.    *)
MCJobAndSync == <<"async", "sync">>
MCApart == <<{}, {}>>

(* A job, and a generator that yields nothing after it.                    *)
MCJobThenBare == <<"async", "bare">>
MCThen == <<{}, {1}>>

(* The last child is given up at its first failure, the others retried.    *)
MCAttempts == [c \in 0..NumChildren |-> IF c = NumChildren THEN 1 ELSE 2]

MCSymmetry == Permutations(Instances)
=============================================================================
