------------------------------ MODULE MCFleet ------------------------------
(* Fleet on small instances: the constants of the TLC configurations.      *)
EXTENDS Fleet

CONSTANTS e1, e2, w1, w2

Config(requirements, priority, webhook, schedulable) ==
  [requirements |-> requirements, priority |-> priority,
   webhook |-> webhook, schedulable |-> schedulable]

(* Tasks for one executor, without a webhook. *)
MCOneConfig == {Config({e1}, 0, FALSE, TRUE)}

(* A task only the second worker can run, or either. *)
MCTwoKinds == {Config({e1}, 0, FALSE, TRUE), Config({e2}, 0, TRUE, TRUE)}

MCOneCapability == [w \in Workers |-> <<e1>>]
MCTwoCapabilities == [w \in Workers |-> IF w = w1 THEN <<e1, e2>> ELSE <<e2>>]

MCExitOne == {0}
=============================================================================
