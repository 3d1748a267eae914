------------------------- MODULE ProcessOperation --------------------------
(***************************************************************************)
(* What a client of the runtime is promised about a process operation: an  *)
(* operation id is issued once, its state is "running" until it is final,  *)
(* and an accepted cancellation decides the final state.  ProcessRuntime   *)
(* implements this specification.                                          *)
(***************************************************************************)
CONSTANT Ops      \* operation ids the runtime may issue (op_...)

VARIABLES
  record,           \* ProcessState of each operation, "none" before its record exists
  cancelRequested   \* operations whose cancellation was accepted

vars == <<record, cancelRequested>>

Final == {"completed", "failed", "cancelled"}

Init ==
  /\ record = [o \in Ops |-> "none"]
  /\ cancelRequested = {}

Start(o) ==
  /\ record[o] = "none"
  /\ record' = [record EXCEPT ![o] = "running"]
  /\ UNCHANGED cancelRequested

AcceptCancel(o) ==
  /\ record[o] = "running"
  /\ cancelRequested' = cancelRequested \union {o}
  /\ UNCHANGED record

(* The outcome of an operation that was cancelled is "cancelled", however  *)
(* its process ended.                                                      *)
Finish(o) ==
  /\ record[o] = "running"
  /\ \E s \in Final :
       /\ s = "cancelled" <=> o \in cancelRequested
       /\ record' = [record EXCEPT ![o] = s]
  /\ UNCHANGED cancelRequested

Next == \E o \in Ops : Start(o) \/ AcceptCancel(o) \/ Finish(o)

(* A cancelled operation does end; one that nobody cancels may run on.     *)
Fairness == \A o \in Ops : WF_vars(o \in cancelRequested /\ Finish(o))

Safety == Init /\ [][Next]_vars
Spec   == Safety /\ Fairness
=============================================================================
