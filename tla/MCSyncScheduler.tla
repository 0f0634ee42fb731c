-------------------------- MODULE MCSyncScheduler --------------------------
(***************************************************************************)
(* Instances of SyncScheduler for TLC: users.delta, the memberships.rebuild*)
(* it triggers, and a task that needs Entra, by the registry's priorities. *)
(***************************************************************************)
EXTENDS SyncScheduler, TLC

CONSTANTS users, rebuild, photos

RegistryPriority == [k \in Task |-> CASE k = users -> 20 [] k = rebuild -> 30
                                      [] OTHER -> 80]
RegistryEntra    == Task \cap {photos}
RegistryTriggers == [k \in Task |-> IF k = users THEN Task \cap {rebuild} ELSE {}]

Symmetric == Permutations(Proc)
=============================================================================
