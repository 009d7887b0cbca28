-------------------------- MODULE MCSwarmEconomy --------------------------
(* SwarmEconomy on small instances. *)
EXTENDS SwarmEconomy, TLC

CONSTANTS n1, n2           \* the nodes, with a reactor and a dashboard, two dashboards or a reactor

MCHome == [c \in Callers |-> IF c = CHOOSE d \in Callers : TRUE THEN n1 ELSE n2]
MCFee == [c \in Callers |-> IF Home[c] = n1 THEN 0 ELSE 1]
MCReward == [reason \in Reasons |-> IF reason = "attest" THEN 2 ELSE 1]
MCCredit == [level \in Levels |-> level - 1]

=============================================================================
