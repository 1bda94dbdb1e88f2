---------------------------- MODULE MCTaskQueue ----------------------------
(* TaskQueue on small instances: the constants of the TLC configurations.  *)
EXTENDS TaskQueue, TLC

CONSTANTS e1, e2, w1, w2

Config(requirements, priority, webhook, schedulable) ==
  [requirements |-> requirements, priority |-> priority,
   webhook |-> webhook, schedulable |-> schedulable]

(* One executor, one kind of task. *)
MCOneConfig == {Config({e1}, 0, TRUE, TRUE)}

(* A task that either of two executors can run. *)
MCEitherExecutor == {Config({e1, e2}, 0, TRUE, TRUE)}

MCOneCapability == [w \in Workers |-> <<e1>>]
MCTwoCapabilities == [w \in Workers |-> IF w = w1 THEN <<e1, e2>> ELSE <<e2>>]

MCExitCodes == {0, 1}
MCExitOne == {0}

MCRequestSymmetry == Permutations(Requests)
=============================================================================
