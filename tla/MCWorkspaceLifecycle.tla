----------------------- MODULE MCWorkspaceLifecycle ------------------------
(***************************************************************************)
(* The life of workspaces and, under fairness, that of a process operation *)
(* which two requests may cancel while its workspace is closed.  A         *)
(* behaviour is about one of the two, its `part`.                          *)
(***************************************************************************)
EXTENDS WorkspaceLifecycle

CONSTANTS i1, i2, r1, NoOp, NoCap

VARIABLES
  part,
  phase, mayProcess, sink, run, background, child, exitedZero, worker, writer,
  executions, record, cancelRequested, req                              \* ProcessRuntime

processVars == <<phase, mayProcess, sink, run, background, child, exitedZero, worker, writer,
                 executions, record, cancelRequested, req>>

(* Two open calls of the same root; one workspace may be closed again      *)
(* after an incomplete close.                                              *)
SameRoot    == [i \in Ids |-> r1]
Nested      == Roots \X Roots
TwiceOrOnce == [i \in Ids |-> IF i = i1 THEN 2 ELSE 1]

Process ==
  INSTANCE ProcessRuntime WITH
    Ops <- {"o1"}, Reqs <- {"q1", "q2"}, Caps <- {"c1"}, OpCap <- [o \in {"o1"} |-> "c1"], audit <- sink

MCInit == part \in {"workspaces", "processes"} /\ Init /\ Process!Init

MCNext ==
  /\ UNCHANGED part
  /\ \/ part = "workspaces" /\ Next /\ UNCHANGED processVars
     \/ part = "processes" /\ Process!Next /\ UNCHANGED vars

MCSafety == MCInit /\ [][MCNext]_<<part, vars, processVars>>
MCSpec   == MCSafety /\ Fairness /\ Process!Fairness

(* The workspaces alone.                                                   *)
WorkspaceSpec == part = "workspaces" /\ MCSafety

-----------------------------------------------------------------------------
(* The drop of the sandbox handle and the signals of cancel: see           *)
(* ProcessRuntime.                                                         *)
OperationsWindUp == Process!OperationsWindUp
=============================================================================
