------------------------------ MODULE MCServer ------------------------------
(***************************************************************************)
(* The server between the connector and the runtime: its client of the     *)
(* runtime, the check of a connector's token, the table of tools, and the  *)
(* checkpoint store.  They share no state, so a behaviour is about one of  *)
(* them, its `part`, and the others rest.                                  *)
(***************************************************************************)
EXTENDS KernelClient, ConnectorAccess, CheckpointStore, ToolSurface

CONSTANTS r1, r2, r3, r4, s1

VARIABLE part

Body(status, blocker, actions, weight) ==
  [status |-> status, blocker |-> blocker, nextActions |-> actions,
   inLimits |-> weight > 0, weight |-> weight]
SomeBodies == {Body("active", "none", 1, 1), Body("blocked", "blank", 1, 1),
               Body("complete", "none", 1, 1), Body("blocked", "text", 0, 3)}

Parts == {"client", "connector", "tools", "checkpoints"}

MCInit ==
  /\ part \in Parts
  /\ Init /\ ConnectorInit /\ ToolInit /\ CheckpointInit
  /\ part # "connector" => compatible
  /\ part # "tools" => profile = "observe"
  /\ part # "checkpoints" => file = NoFile

MCNext ==
  /\ UNCHANGED part
  /\ \/ part = "client" /\ Next /\ UNCHANGED <<connectorVars, toolVars, checkpointVars>>
     \/ part = "connector" /\ ConnectorNext /\ UNCHANGED <<vars, toolVars, checkpointVars>>
     \/ part = "tools" /\ ToolNext /\ UNCHANGED <<vars, connectorVars, checkpointVars>>
     \/ part = "checkpoints" /\ CheckpointNext /\ UNCHANGED <<vars, connectorVars, toolVars>>

MCVars == <<part, vars, connectorVars, toolVars, checkpointVars>>

MCSpec == MCInit /\ [][MCNext]_MCVars /\ Fairness /\ CheckpointFairness

-----------------------------------------------------------------------------
(* No call waits for ever, of stop() or of the checkpoint store, and no    *)
(* death of the runtime goes unseen: see KernelClient, CheckpointRegister. *)
CallersSettle == ClientSettles /\ MutationsSettle
=============================================================================
