---------------------------- MODULE MCInventoryNode ----------------------------
(* InventoryNode with the processes of its runs: a daemon, a second one with *)
(* another REST port but the same gRPC port, and a command.                  *)
EXTENDS InventoryNode, TLC

CONSTANTS d1, d2, command,      \* processes
          t1, t2, caller        \* a task of each

Owners == t1 :> d1 @@ t2 :> d2 @@ caller :> command
RestPorts == d1 :> 8082 @@ d2 :> 8083
GrpcPorts == d1 :> 50052 @@ d2 :> 50052
==============================================================================
