----------------------------- MODULE MCInventory -----------------------------
(* Inventory with the symmetries TLC may use in runs that check safety. *)
EXTENDS Inventory, TLC

Symmetry ==
    Permutations(Clients) \cup Permutations(ResourceIds)
        \cup Permutations(ServiceIds) \cup Permutations(InstanceNames)
==============================================================================
