-------------------------- MODULE ProcessRuntime ---------------------------
(***************************************************************************)
(* Process operations of the Rust runtime: process.run, process.cancel and *)
(* workspace.cancel_executions, each request a task of its own, racing     *)
(* with the phases of the workspace, the worker thread that captures the   *)
(* child's output, the audit sink and the child itself.                    *)
(*                                                                         *)
(* A mutex-protected section of the code is one step; everything between   *)
(* two of them (an audit append, a spawn, a spool call, a signal, one poll *)
(* of the operation's state) may be interleaved with every other task.     *)
(***************************************************************************)
CONSTANTS
  Ops,        \* operation ids, one process.run request each
  Reqs,       \* ids of cancellation requests
  Caps,       \* workspace capabilities (kc_...); never issued twice
  OpCap,      \* the capability each process.run names
  NoOp, NoCap

ASSUME OpCapAssumption == OpCap \in [Ops -> Caps]
ASSUME NullAssumption  == NoOp \notin Ops /\ NoCap \notin Caps

VARIABLES
  phase,            \* WorkspacePhase of each capability, "gone" once unregistered
  mayProcess,       \* effective_policy.allow_process
  audit,            \* the sink's sticky health
  run,              \* progress and answer of each process.run request
  background,       \* its `background` parameter
  child,            \* the sandboxed child, as the kernel sees it
  exitedZero,       \* children whose exit code is 0
  worker,           \* the worker closure of run_process
  writer,           \* operations whose RawSpoolWriter is alive (artifact active)
  executions,       \* ExecutionRegistry
  record,           \* state of the ProcessOperationRecord
  cancelRequested,  \* records with cancel_requested set
  req               \* the cancellation requests

requestVars == <<run, background>>
childVars   == <<child, exitedZero>>
vars == <<phase, mayProcess, audit, run, background, child, exitedZero, worker,
          writer, executions, record, cancelRequested, req>>

Final   == {"completed", "failed", "cancelled"}
Answers == {"ok", "error", "auditUnavailable"}

RunStates   == {"idle", "decided", "admitted", "spawned", "spooled", "launched",
                "waiting"} \union Answers
ChildStates == {"none", "alive", "killed", "dead", "reaped"}
WorkerStates ==
  {"none", "capturing", "captured", "captureFailed", "spoolFailed", "finished",
   "removedOk", "removedErr", "dropping", "done"}
ReqStates == {"idle", "decided", "snapshot", "cancelling", "terminating", "killing"}
             \union Answers

Requests == [pc : ReqStates, kind : {"none", "operation", "workspace"},
             cap : Caps \union {NoCap}, snapshot : SUBSET Ops, pending : SUBSET Ops,
             current : Ops \union {NoOp}]

IdleReq == [pc |-> "idle", kind |-> "none", cap |-> NoCap, snapshot |-> {},
            pending |-> {}, current |-> NoOp]

TypeOK ==
  /\ phase \in [Caps -> {"opening", "ready", "closing", "gone"}]
  /\ mayProcess \in [Caps -> BOOLEAN]
  /\ audit \in {"healthy", "broken"}
  /\ run \in [Ops -> RunStates]
  /\ background \in [Ops -> BOOLEAN]
  /\ child \in [Ops -> ChildStates]
  /\ exitedZero \subseteq Ops
  /\ worker \in [Ops -> WorkerStates]
  /\ writer \subseteq Ops
  /\ executions \subseteq Ops
  /\ record \in [Ops -> {"none", "running"} \union Final]
  /\ cancelRequested \subseteq Ops
  /\ req \in [Reqs -> Requests]

Init ==
  /\ phase = [c \in Caps |-> "opening"]
  /\ mayProcess = [c \in Caps |-> TRUE]
  /\ audit = "healthy"
  /\ run = [o \in Ops |-> "idle"]
  /\ background = [o \in Ops |-> FALSE]
  /\ child = [o \in Ops |-> "none"]
  /\ exitedZero = {}
  /\ worker = [o \in Ops |-> "none"]
  /\ writer = {}
  /\ executions = {}
  /\ record = [o \in Ops |-> "none"]
  /\ cancelRequested = {}
  /\ req = [r \in Reqs |-> IdleReq]

-----------------------------------------------------------------------------
(* The audit sink and the workspace registry                               *)

(* An append that fails leaves the sink unhealthy for good: every later    *)
(* decision or outcome fails too.                                          *)
AuditBreaks ==
  /\ audit = "healthy"
  /\ audit' = "broken"
  /\ UNCHANGED <<phase, mayProcess, requestVars, childVars, worker, writer,
                 executions, record, cancelRequested, req>>

(* The answer of a request whose handler failed or succeeded: AUDIT_UNAVAILABLE *)
(* replaces either when the outcome cannot be appended.                    *)
FailureAnswer == IF audit = "healthy" THEN "error" ELSE "auditUnavailable"
SuccessAnswer == IF audit = "healthy" THEN "ok" ELSE "auditUnavailable"

RestrictPolicy(c) ==
  /\ audit = "healthy" /\ phase[c] = "opening"
  /\ mayProcess' = [mayProcess EXCEPT ![c] = FALSE]
  /\ UNCHANGED <<phase, audit, requestVars, childVars, worker, writer, executions,
                 record, cancelRequested, req>>

SetPhase(c, p) ==
  /\ audit = "healthy"
  /\ phase' = [phase EXCEPT ![c] = p]
  /\ UNCHANGED <<mayProcess, audit, requestVars, childVars, worker, writer, executions,
                 record, cancelRequested, req>>

Activate(c)   == phase[c] = "opening" /\ SetPhase(c, "ready")
BeginClose(c) == phase[c] = "ready" /\ SetPhase(c, "closing")

(* closeWorkspace asks for unregister only after a workspace.cancel_executions *)
(* of that capability was answered "ok"; the registry itself refuses Ready. *)
CancelAnswered(c) ==
  \E r \in Reqs : req[r].kind = "workspace" /\ req[r].cap = c /\ req[r].pc = "ok"

Unregister(c) == phase[c] = "closing" /\ CancelAnswered(c) /\ SetPhase(c, "gone")

-----------------------------------------------------------------------------
(* process.run                                                             *)

RunStep(o, from, to) == run[o] = from /\ run' = [run EXCEPT ![o] = to]

ProcessRunDecision(o) ==
  /\ RunStep(o, "idle", IF audit = "healthy" THEN "decided" ELSE "auditUnavailable")
  /\ \E b \in BOOLEAN : background' = [background EXCEPT ![o] = b]
  /\ UNCHANGED <<phase, mayProcess, audit, childVars, worker, writer, executions, record,
                 cancelRequested, req>>

MayRun(o) == phase[OpCap[o]] = "ready" /\ mayProcess[OpCap[o]]

(* Under the registry lock: the policy and a duplicate of the root fd are  *)
(* taken, and nothing ties the rest of the request to the workspace phase. *)
AdmitRun(o) ==
  /\ RunStep(o, "decided", IF MayRun(o) THEN "admitted" ELSE FailureAnswer)
  /\ UNCHANGED <<phase, mayProcess, audit, background, childVars, worker, writer, executions,
                 record, cancelRequested, req>>

(* validate_policy, validate_cwd, the executable or the sandbox refuses.   *)
LaunchFails(o) ==
  /\ RunStep(o, "admitted", FailureAnswer)
  /\ UNCHANGED <<phase, mayProcess, audit, background, childVars, worker, writer, executions,
                 record, cancelRequested, req>>

SpawnChild(o) ==
  /\ RunStep(o, "admitted", "spawned")
  /\ child' = [child EXCEPT ![o] = "alive"]
  /\ executions' = executions \union {o}
  /\ UNCHANGED <<phase, mayProcess, audit, background, exitedZero, worker, writer, record,
                 cancelRequested, req>>

SpoolCreated(o) ==
  /\ audit = "healthy"
  /\ RunStep(o, "spawned", "spooled")
  /\ writer' = writer \union {o}
  /\ UNCHANGED <<phase, mayProcess, audit, background, childVars, worker, executions, record,
                 cancelRequested, req>>

(* Quota, audit or I/O: terminate_child kills the group and waits for the  *)
(* child before the execution is removed.                                  *)
LeaveChild(o)     == UNCHANGED child    \* mutant: the child survives the failure
TerminateChild(o) == child' = [child EXCEPT ![o] = "reaped"]

ExecutionsWithout(o)  == executions \ {o}

SpoolRefused(o) ==
  /\ RunStep(o, "spawned", FailureAnswer)
  /\ TerminateChild(o)
  /\ executions' = ExecutionsWithout(o)
  /\ UNCHANGED <<phase, mayProcess, audit, background, exitedZero, worker, writer, record,
                 cancelRequested, req>>

InsertRecord(o) ==
  /\ RunStep(o, "spooled", IF background[o] THEN "launched" ELSE "waiting")
  /\ record' = [record EXCEPT ![o] = "running"]
  /\ worker' = [worker EXCEPT ![o] = "capturing"]
  /\ UNCHANGED <<phase, mayProcess, audit, background, childVars, writer, executions,
                 cancelRequested, req>>

(* A background run answers at once, a foreground one after its worker.    *)
RunReturns(o) ==
  /\ \/ run[o] = "launched"
     \/ run[o] = "waiting" /\ worker[o] = "done"
  /\ run' = [run EXCEPT ![o] = SuccessAnswer]
  /\ UNCHANGED <<phase, mayProcess, audit, background, childVars, worker, writer, executions,
                 record, cancelRequested, req>>

-----------------------------------------------------------------------------
(* The child                                                               *)

ChildExits(o) ==
  /\ child[o] = "alive"
  /\ child' = [child EXCEPT ![o] = "dead"]
  /\ exitedZero' \in {exitedZero, exitedZero \union {o}}
  /\ UNCHANGED <<phase, mayProcess, audit, requestVars, worker, writer, executions, record,
                 cancelRequested, req>>

KilledChildDies(o) ==
  /\ child[o] = "killed"
  /\ child' = [child EXCEPT ![o] = "dead"]
  /\ UNCHANGED <<phase, mayProcess, audit, requestVars, exitedZero, worker, writer, executions,
                 record, cancelRequested, req>>

Terminated(o) == child    \* mutant: SIGTERM again, which the child may ignore
Killed(o) == [child EXCEPT ![o] = IF @ = "alive" THEN "killed" ELSE @]

-----------------------------------------------------------------------------
(* The worker of run_process                                               *)

WorkerStep(o, from, to) == worker[o] = from /\ worker' = [worker EXCEPT ![o] = to]

(* Both pipes at end of file, then wait(2).                                *)
CaptureEnds(o) ==
  /\ WorkerStep(o, "capturing", "captured")
  /\ child[o] = "dead"
  /\ child' = [child EXCEPT ![o] = "reaped"]
  /\ UNCHANGED <<phase, mayProcess, audit, requestVars, exitedZero, writer, executions, record,
                 cancelRequested, req>>

(* write_source fails: capture_child returns with the child still running. *)
SpoolWriteFails(o) ==
  /\ WorkerStep(o, "capturing", "spoolFailed")
  /\ UNCHANGED <<phase, mayProcess, audit, requestVars, childVars, writer, executions, record,
                 cancelRequested, req>>

(* A reader thread or wait(2) fails.                                       *)
CaptureFails(o) ==
  /\ WorkerStep(o, "capturing", "captureFailed")
  /\ UNCHANGED <<phase, mayProcess, audit, requestVars, childVars, writer, executions, record,
                 cancelRequested, req>>

(* finish consumes the writer, whether its sync succeeds or not.           *)
FinishSpool(o) ==
  /\ \E to \in {"finished", "spoolFailed"} : WorkerStep(o, "captured", to)
  /\ writer' = writer \ {o}
  /\ UNCHANGED <<phase, mayProcess, audit, requestVars, childVars, executions, record,
                 cancelRequested, req>>

RemoveExecution(o) ==
  /\ \/ WorkerStep(o, "finished", "removedOk") /\ UNCHANGED child
     \/ WorkerStep(o, "spoolFailed", "removedErr") /\ UNCHANGED child
     \/ WorkerStep(o, "captureFailed", "removedErr") /\ TerminateChild(o)
  /\ executions' = ExecutionsWithout(o)
  /\ UNCHANGED <<phase, mayProcess, audit, requestVars, exitedZero, writer, record,
                 cancelRequested, req>>

(* complete_operation and mark_failed under the records lock.              *)
OutcomeIgnoringCancel(o, exit) == exit    \* mutant: the flag is not consulted
Outcome(o, exit) == IF o \in cancelRequested THEN "cancelled" ELSE exit

CompleteOperation(o) ==
  /\ WorkerStep(o, "removedOk", "dropping")
  /\ record' = [record EXCEPT ![o] =
                  Outcome(o, IF o \in exitedZero THEN "completed" ELSE "failed")]
  /\ UNCHANGED <<phase, mayProcess, audit, requestVars, childVars, writer, executions,
                 cancelRequested, req>>

MarkFailed(o) ==
  /\ WorkerStep(o, "removedErr", "dropping")
  /\ record' = [record EXCEPT ![o] = Outcome(o, "failed")]
  /\ UNCHANGED <<phase, mayProcess, audit, requestVars, childVars, writer, executions,
                 cancelRequested, req>>

(* The closure ends: its writer and its SandboxChild are dropped; dropping *)
(* _parent_lifetime ends the thread bwrap's --die-with-parent refers to.   *)
DropLeaves(o) == UNCHANGED child    \* mutant: a plain Child survives its handle
DropChild(o)  == child' = Killed(o)

WorkerDrops(o) ==
  /\ WorkerStep(o, "dropping", "done")
  /\ DropChild(o)
  /\ writer' = writer \ {o}
  /\ UNCHANGED <<phase, mayProcess, audit, requestVars, exitedZero, executions, record,
                 cancelRequested, req>>

-----------------------------------------------------------------------------
(* process.cancel and workspace.cancel_executions                          *)

SetReq(r, q) ==
  /\ req' = [req EXCEPT ![r] = q]
  /\ UNCHANGED <<phase, mayProcess, audit, requestVars, exitedZero, worker, writer,
                 executions, record>>

(* Any capability may name any operation id.                               *)
CancelDecision(r, c, o) ==
  /\ req[r].pc = "idle"
  /\ SetReq(r, [req[r] EXCEPT !.kind = "operation", !.cap = c, !.pending = {o},
                  !.pc = IF audit = "healthy" THEN "decided" ELSE "auditUnavailable"])
  /\ UNCHANGED <<child, cancelRequested>>

(* Sent by closeWorkspace once begin_close was answered.                   *)
CancelExecutionsDecision(r, c) ==
  /\ req[r].pc = "idle" /\ phase[c] \in {"closing", "gone"}
  /\ SetReq(r, [req[r] EXCEPT !.kind = "workspace", !.cap = c,
                  !.pc = IF audit = "healthy" THEN "decided" ELSE "auditUnavailable"])
  /\ UNCHANGED <<child, cancelRequested>>

(* require_ready for process.cancel, phase Closing for cancel_executions.  *)
CheckPhase(r) ==
  /\ req[r].pc = "decided"
  /\ SetReq(r, [req[r] EXCEPT !.pc =
        IF req[r].kind = "operation"
          THEN IF phase[req[r].cap] = "ready" THEN "cancelling" ELSE FailureAnswer
          ELSE IF phase[req[r].cap] = "closing" THEN "snapshot" ELSE FailureAnswer])
  /\ UNCHANGED <<child, cancelRequested>>

(* cancel_workspace: the operations of the workspace that run at this instant. *)
RunningOf(c) == {o \in Ops : OpCap[o] = c /\ record[o] = "running"}

TakeSnapshot(r) ==
  /\ req[r].pc = "snapshot"
  /\ LET running == RunningOf(req[r].cap)
     IN  SetReq(r, [req[r] EXCEPT !.pc = "cancelling", !.snapshot = running,
                      !.pending = running])
  /\ UNCHANGED <<child, cancelRequested>>

FlagAnyRecord(c, o) == OpCap[o] = c            \* mutant: no check of the state
MayFlag(c, o) == OpCap[o] = c /\ record[o] = "running"

(* registry.cancel, its locked part: unknown or foreign operation, already *)
(* final, or flagged and sent SIGTERM, which a child is free to ignore.    *)
OperationNotFound(r, o) ==
  /\ req[r].pc = "cancelling" /\ o \in req[r].pending
  /\ record[o] = "none" \/ OpCap[o] # req[r].cap
  /\ ~ MayFlag(req[r].cap, o)
  /\ SetReq(r, [req[r] EXCEPT !.pc = FailureAnswer])
  /\ UNCHANGED <<child, cancelRequested>>

AlreadyFinal(r, o) ==
  /\ req[r].pc = "cancelling" /\ o \in req[r].pending
  /\ OpCap[o] = req[r].cap /\ record[o] \in Final
  /\ ~ MayFlag(req[r].cap, o)
  /\ SetReq(r, [req[r] EXCEPT !.pending = @ \ {o}])
  /\ UNCHANGED <<child, cancelRequested>>

FlagAndTerminate(r, o) ==
  /\ req[r].pc = "cancelling" /\ o \in req[r].pending
  /\ MayFlag(req[r].cap, o)
  /\ cancelRequested' = cancelRequested \union {o}
  /\ SetReq(r, [req[r] EXCEPT !.pc = "terminating", !.current = o])
  /\ UNCHANGED child

ProceedToReturn(q) ==     \* mutant: the first cancellation ends the loop
  [q EXCEPT !.pc = "cancelling", !.pending = {}]
Proceed(q) == [q EXCEPT !.pc = "cancelling", !.pending = @ \ {q.current}]

PollSeesFinal(r) ==
  /\ req[r].pc \in {"terminating", "killing"}
  /\ record[req[r].current] # "running"
  /\ SetReq(r, Proceed(req[r]))
  /\ UNCHANGED <<child, cancelRequested>>

(* 50 polls of 20 ms without a final state: SIGKILL to the group.          *)
GraceExpires(r) ==
  /\ req[r].pc = "terminating"
  /\ child' = Killed(req[r].current)
  /\ SetReq(r, [req[r] EXCEPT !.pc = "killing"])
  /\ UNCHANGED cancelRequested

(* Another 50 polls: the answer is the operation's state, whatever it is.  *)
KillGraceExpires(r) ==
  /\ req[r].pc = "killing"
  /\ SetReq(r, Proceed(req[r]))
  /\ UNCHANGED <<child, cancelRequested>>

CancelReturns(r) ==
  /\ req[r].pc = "cancelling" /\ req[r].pending = {}
  /\ SetReq(r, [req[r] EXCEPT !.pc = SuccessAnswer])
  /\ UNCHANGED <<child, cancelRequested>>

-----------------------------------------------------------------------------
Registry == \E c \in Caps : RestrictPolicy(c) \/ Activate(c) \/ BeginClose(c) \/ Unregister(c)

RunRequest(o) == AdmitRun(o) \/ LaunchFails(o) \/ SpawnChild(o) \/ SpoolCreated(o)
                 \/ SpoolRefused(o) \/ InsertRecord(o) \/ RunReturns(o)

Worker(o) == CaptureEnds(o) \/ FinishSpool(o) \/ RemoveExecution(o)
             \/ CompleteOperation(o) \/ MarkFailed(o) \/ WorkerDrops(o)

CaptureFaults(o) == SpoolWriteFails(o) \/ CaptureFails(o)

Cancelling(r) ==
  \/ CheckPhase(r) \/ TakeSnapshot(r) \/ PollSeesFinal(r) \/ GraceExpires(r)
  \/ KillGraceExpires(r) \/ CancelReturns(r)
  \/ \E o \in Ops : OperationNotFound(r, o) \/ AlreadyFinal(r, o) \/ FlagAndTerminate(r, o)

Next ==
  \/ AuditBreaks
  \/ Registry
  \/ \E o \in Ops : ProcessRunDecision(o) \/ RunRequest(o) \/ Worker(o) \/ CaptureFaults(o)
                    \/ ChildExits(o) \/ KilledChildDies(o)
  \/ \E r \in Reqs : \/ Cancelling(r)
                     \/ \E c \in Caps : \/ CancelExecutionsDecision(r, c)
                                        \/ \E o \in Ops : CancelDecision(r, c, o)

(* Tasks, worker threads and the kernel's delivery of SIGKILL make         *)
(* progress; clients, children and the disk promise nothing.               *)
Fairness ==
  /\ \A o \in Ops : WF_vars(RunRequest(o)) /\ WF_vars(Worker(o)) /\ WF_vars(KilledChildDies(o))
  /\ \A r \in Reqs : WF_vars(Cancelling(r))

Safety == Init /\ [][Next]_vars
Spec   == Safety /\ Fairness

-----------------------------------------------------------------------------
(* Properties                                                              *)

(* While a child may run, a spool writer is open or an execution is        *)
(* registered, some request or worker still holds it and will release it:  *)
(* no early return of run_process or of the worker forgets one of the      *)
(* three (terminate_child, remove_execution, the drop of the writer).      *)
Holding(o) == run[o] \in {"spawned", "spooled"}
Unfinished == {"capturing", "captured", "captureFailed", "spoolFailed", "finished",
               "removedOk", "removedErr"}

NothingOutlivesItsOwner ==
  \A o \in Ops :
    /\ child[o] = "alive" => Holding(o) \/ worker[o] \in Unfinished \union {"dropping"}
    /\ o \in writer => Holding(o) \/ worker[o] \in Unfinished \union {"dropping"}
    /\ o \in executions => Holding(o) \/ worker[o] \in Unfinished \ {"removedOk", "removedErr"}

(* process.status says "running" exactly while a worker is on its way to   *)
(* complete_operation or mark_failed: no record is stuck in "running".     *)
RunningHasWorker ==
  \A o \in Ops : record[o] = "running" <=> worker[o] \in Unfinished

(* A final record is no longer in the execution registry: remove_execution *)
(* comes before complete_operation and mark_failed on every path.          *)
FinalIsUnregistered == \A o \in executions : record[o] \notin Final

(* An accepted cancellation is never reported as completed or failed,      *)
(* although the flag and the outcome are written by different threads.     *)
CancelIsDecisive == \A o \in cancelRequested : record[o] \in {"running", "cancelled"}

(* workspace.cancel_executions answered "ok": every operation it found     *)
(* running is final or flagged and signalled, none was skipped.            *)
SnapshotIsCovered ==
  \A r \in Reqs : req[r].kind = "workspace" /\ req[r].pc = "ok" =>
    \A o \in req[r].snapshot : record[o] # "running" \/ o \in cancelRequested

(* "workspace-close cancellation": once a workspace was closed and is gone *)
(* from the registry, no operation of it runs on uncancelled.              *)
CloseCancelsOperations ==
  \A c \in Caps : phase[c] = "gone" =>
    \A o \in RunningOf(c) : o \in cancelRequested

(* Every final operation's child is dead in the end, the paths that return *)
(* with a live child included.                                             *)
FinalChildDies ==
  \A o \in Ops : record[o] \in Final ~> child[o] \in {"dead", "reaped"}

(* Clients of process.run, status and cancel see ProcessOperation.         *)
Operation == INSTANCE ProcessOperation WITH Ops <- Ops, record <- record, cancelRequested <- cancelRequested
ImplementsOperation == Operation!Safety
CancelledOperationsEnd == Operation!Fairness
OperationsWindUp       == FinalChildDies /\ CancelledOperationsEnd
=============================================================================
