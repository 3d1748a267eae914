----------------------- MODULE ProcessRuntimeProofs ------------------------
(* Type correctness and ownership invariants of ProcessRuntime, and its    *)
(* refinement of ProcessOperation, for every number of operations,         *)
(* requests and workspaces.                                                *)
EXTENDS ProcessRuntime, Verification, DevConsole, SequenceTheorems, TLAPS

(* Where each request stands determines what its record and worker are.    *)
Stages ==
  \A o \in Ops :
    /\ worker[o] = "none" <=> record[o] = "none"
    /\ worker[o] = "none" => run[o] \notin {"launched", "waiting"}
    /\ worker[o] # "none" => run[o] \in {"launched", "waiting"} \union Answers
    /\ o \in writer => run[o] # "spawned"

IInv == TypeOK /\ Stages /\ NothingOutlivesItsOwner /\ RunningHasWorker /\ CancelIsDecisive

(* Every state of the runtime is well typed.                               *)
LEMMA TypeStep == TypeOK /\ [Next]_vars => TypeOK'
<1> SUFFICES ASSUME TypeOK, [Next]_vars PROVE TypeOK'
  OBVIOUS
<1> USE OpCapAssumption, NullAssumption DEF TypeOK, requestVars, childVars
<1>1. CASE AuditBreaks
  BY <1>1 DEF AuditBreaks
<1>2. CASE Registry
  BY <1>2 DEF Registry, RestrictPolicy, Activate, BeginClose, Unregister, SetPhase
<1>3. ASSUME NEW o \in Ops, ProcessRunDecision(o) PROVE TypeOK'
  BY <1>3 DEF ProcessRunDecision, RunStep, RunStates, Answers
<1>4. ASSUME NEW o \in Ops, RunRequest(o) PROVE TypeOK'
  <2> USE DEF RunStep, RunStates, Answers, FailureAnswer, SuccessAnswer, ChildStates,
              WorkerStates, Final
  <2>1. CASE AdmitRun(o) \/ LaunchFails(o) \/ SpawnChild(o) \/ SpoolCreated(o)
    BY <2>1 DEF AdmitRun, LaunchFails, SpawnChild, SpoolCreated
  <2>2. CASE SpoolRefused(o)
    BY <2>2 DEF SpoolRefused, TerminateChild, ExecutionsWithout
  <2>3. CASE InsertRecord(o)
    BY <2>3 DEF InsertRecord
  <2>4. CASE RunReturns(o)
    BY <2>4 DEF RunReturns
  <2> QED
    BY <1>4, <2>1, <2>2, <2>3, <2>4 DEF RunRequest
<1>5. ASSUME NEW o \in Ops, Worker(o) \/ CaptureFaults(o) PROVE TypeOK'
  <2> USE DEF WorkerStep, WorkerStates, ChildStates
  <2>1. CASE CaptureEnds(o) \/ FinishSpool(o) \/ CaptureFaults(o)
    BY <2>1 DEF CaptureEnds, FinishSpool, CaptureFaults, SpoolWriteFails, CaptureFails
  <2>2. CASE RemoveExecution(o)
    BY <2>2 DEF RemoveExecution, TerminateChild, ExecutionsWithout
  <2>3. CASE CompleteOperation(o) \/ MarkFailed(o)
    BY <2>3 DEF CompleteOperation, MarkFailed, Outcome, Final
  <2>4. CASE WorkerDrops(o)
    BY <2>4 DEF WorkerDrops, DropChild, Killed
  <2> QED
    BY <1>5, <2>1, <2>2, <2>3, <2>4 DEF Worker
<1>6. ASSUME NEW o \in Ops, ChildExits(o) \/ KilledChildDies(o) PROVE TypeOK'
  BY <1>6 DEF ChildExits, KilledChildDies, ChildStates
<1>7. ASSUME NEW r \in Reqs, NEW q \in Requests, SetReq(r, q),
             child' \in [Ops -> ChildStates], cancelRequested' \subseteq Ops
      PROVE TypeOK'
  BY <1>7 DEF SetReq
<1>8. ASSUME NEW r \in Reqs, Cancelling(r) PROVE TypeOK'
  <2> USE DEF Requests, ReqStates, Answers
  <2> DEFINE q == req[r]
  <2>0. q \in Requests
    OBVIOUS
  <2>1. CASE CheckPhase(r)
    BY <1>7, <2>0, <2>1 DEF CheckPhase, FailureAnswer
  <2>2. CASE TakeSnapshot(r)
    BY <1>7, <2>0, <2>2 DEF TakeSnapshot, RunningOf
  <2>3. CASE PollSeesFinal(r) \/ KillGraceExpires(r)
    BY ZenonT(60), <1>7, <2>0, <2>3 DEF PollSeesFinal, KillGraceExpires, Proceed
  <2>4. CASE GraceExpires(r)
    <3>1. child' \in [Ops -> ChildStates]
      BY <2>4 DEF GraceExpires, Killed, ChildStates
    <3> QED
      BY <1>7, <2>0, <2>4, <3>1 DEF GraceExpires
  <2>5. CASE CancelReturns(r)
    BY <1>7, <2>0, <2>5 DEF CancelReturns, SuccessAnswer
  <2>6. ASSUME NEW o \in Ops, OperationNotFound(r, o) \/ AlreadyFinal(r, o)
        PROVE TypeOK'
    BY <1>7, <2>0, <2>6 DEF OperationNotFound, AlreadyFinal, FailureAnswer
  <2>7. ASSUME NEW o \in Ops, FlagAndTerminate(r, o) PROVE TypeOK'
    BY ZenonT(60), <1>7, <2>0, <2>7 DEF FlagAndTerminate
  <2> QED
    BY <1>8, <2>1, <2>2, <2>3, <2>4, <2>5, <2>6, <2>7 DEF Cancelling
<1>9. ASSUME NEW r \in Reqs, NEW c \in Caps,
             \/ CancelExecutionsDecision(r, c)
             \/ \E o \in Ops : CancelDecision(r, c, o)
      PROVE TypeOK'
  <2> USE DEF Requests, ReqStates, Answers
  <2>0. req[r] \in Requests
    OBVIOUS
  <2>1. CASE CancelExecutionsDecision(r, c)
    BY <1>7, <2>0, <2>1 DEF CancelExecutionsDecision
  <2>2. ASSUME NEW o \in Ops, CancelDecision(r, c, o) PROVE TypeOK'
    BY ZenonT(60), <1>7, <2>0, <2>2 DEF CancelDecision
  <2> QED
    BY <1>9, <2>1, <2>2
<1>10. CASE UNCHANGED vars
  BY <1>10 DEF vars
<1> QED
  BY <1>1, <1>2, <1>3, <1>4, <1>5, <1>6, <1>8, <1>9, <1>10 DEF Next

THEOREM TypeCorrect == Safety => []TypeOK
<1>1. Init => TypeOK
  BY OpCapAssumption, NullAssumption
  DEF Init, TypeOK, RunStates, ChildStates, WorkerStates, Requests, ReqStates, IdleReq
<1> QED
  BY <1>1, TypeStep, PTL DEF Safety

-----------------------------------------------------------------------------
(* The ownership part of IInv, without the type invariant.                 *)
Owned == Stages /\ NothingOutlivesItsOwner /\ RunningHasWorker /\ CancelIsDecisive

(* Every step of the runtime preserves who holds what.                     *)
LEMMA OwnedStep == TypeOK /\ Owned /\ [Next]_vars => Owned'
<1> SUFFICES ASSUME TypeOK, Owned, [Next]_vars PROVE Owned'
  OBVIOUS
<1> USE DEF TypeOK, Owned, Stages, NothingOutlivesItsOwner, RunningHasWorker,
            CancelIsDecisive, Holding, Unfinished, requestVars, childVars
<1>1. CASE AuditBreaks
  BY <1>1 DEF AuditBreaks
<1>2. CASE Registry
  BY <1>2 DEF Registry, RestrictPolicy, Activate, BeginClose, Unregister, SetPhase
<1>3. ASSUME NEW o \in Ops, ProcessRunDecision(o) PROVE Owned'
  BY <1>3 DEF ProcessRunDecision, RunStep, Answers
<1>4. ASSUME NEW o \in Ops, RunRequest(o) PROVE Owned'
  <2> USE DEF RunStep, Answers, FailureAnswer, SuccessAnswer
  <2>1. CASE AdmitRun(o) \/ LaunchFails(o)
    BY <2>1 DEF AdmitRun, LaunchFails
  <2>2. CASE SpawnChild(o) \/ SpoolCreated(o)
    BY <2>2 DEF SpawnChild, SpoolCreated
  <2>3. CASE SpoolRefused(o)
    BY <2>3 DEF SpoolRefused, TerminateChild, ExecutionsWithout
  <2>4. CASE InsertRecord(o)
    BY <2>4 DEF InsertRecord
  <2>5. CASE RunReturns(o)
    BY <2>5 DEF RunReturns
  <2> QED
    BY <1>4, <2>1, <2>2, <2>3, <2>4, <2>5 DEF RunRequest
<1>5. ASSUME NEW o \in Ops, Worker(o) \/ CaptureFaults(o) PROVE Owned'
  <2> USE DEF WorkerStep
  <2>1. CASE CaptureEnds(o)
    BY <2>1 DEF CaptureEnds
  <2>2. CASE FinishSpool(o)
    BY <2>2 DEF FinishSpool
  <2>3. CASE CaptureFaults(o)
    BY <2>3 DEF CaptureFaults, SpoolWriteFails, CaptureFails
  <2>4. CASE RemoveExecution(o)
    BY <2>4 DEF RemoveExecution, TerminateChild, ExecutionsWithout
  <2>5. ASSUME NEW s \in Final, record' = [record EXCEPT ![o] = s],
               o \in cancelRequested => s = "cancelled",
               worker[o] \in {"removedOk", "removedErr"},
               worker' = [worker EXCEPT ![o] = "dropping"],
               UNCHANGED <<run, child, writer, executions, cancelRequested>>
        PROVE  Owned'
    BY <2>5 DEF Final
  <2>6. CASE CompleteOperation(o) \/ MarkFailed(o)
    <3>1. PICK exit \in {"completed", "failed"} :
            record' = [record EXCEPT ![o] = Outcome(o, exit)]
      BY <2>6 DEF CompleteOperation, MarkFailed
    <3>2. Outcome(o, exit) \in Final /\ (o \in cancelRequested => Outcome(o, exit) = "cancelled")
      BY DEF Outcome, Final
    <3> QED
      BY <2>5, <2>6, <3>1, <3>2 DEF CompleteOperation, MarkFailed
  <2>7. CASE WorkerDrops(o)
    BY <2>7 DEF WorkerDrops, DropChild, Killed
  <2> QED
    BY <1>5, <2>1, <2>2, <2>3, <2>4, <2>6, <2>7 DEF Worker
<1>6. ASSUME NEW o \in Ops, ChildExits(o) \/ KilledChildDies(o) PROVE Owned'
  BY <1>6 DEF ChildExits, KilledChildDies
<1>7. ASSUME NEW r \in Reqs, NEW q, SetReq(r, q), UNCHANGED <<child, cancelRequested>>
      PROVE Owned'
  BY <1>7 DEF SetReq
<1>8. ASSUME NEW r \in Reqs, Cancelling(r) PROVE Owned'
  <2>1. CASE CheckPhase(r) \/ TakeSnapshot(r)
    BY <1>7, <2>1 DEF CheckPhase, TakeSnapshot
  <2>2. CASE PollSeesFinal(r) \/ KillGraceExpires(r) \/ CancelReturns(r)
    BY <1>7, <2>2 DEF PollSeesFinal, KillGraceExpires, CancelReturns
  <2>3. CASE GraceExpires(r)
    BY <2>3 DEF GraceExpires, SetReq, Killed
  <2>4. ASSUME NEW o \in Ops, OperationNotFound(r, o) \/ AlreadyFinal(r, o) PROVE Owned'
    BY <1>7, <2>4 DEF OperationNotFound, AlreadyFinal
  <2>5. ASSUME NEW o \in Ops, FlagAndTerminate(r, o) PROVE Owned'
    BY <2>5 DEF FlagAndTerminate, SetReq, MayFlag
  <2> QED
    BY <1>8, <2>1, <2>2, <2>3, <2>4, <2>5 DEF Cancelling
<1>9. ASSUME NEW r \in Reqs, NEW c \in Caps,
             \/ CancelExecutionsDecision(r, c)
             \/ \E o \in Ops : CancelDecision(r, c, o)
      PROVE Owned'
  BY <1>7, <1>9 DEF CancelExecutionsDecision, CancelDecision
<1>10. CASE UNCHANGED vars
  BY <1>10 DEF vars
<1> QED
  BY <1>1, <1>2, <1>3, <1>4, <1>5, <1>6, <1>8, <1>9, <1>10 DEF Next

LEMMA Inductive == Safety => []IInv
<1>1. Init => IInv
  <2>1. Init => TypeOK
    BY OpCapAssumption, NullAssumption
    DEF Init, TypeOK, RunStates, ChildStates, WorkerStates, Requests, ReqStates, IdleReq
  <2>2. Init => Owned
    BY DEF Init, Owned, Stages, NothingOutlivesItsOwner, RunningHasWorker,
           CancelIsDecisive, Holding, Unfinished
  <2> QED
    BY <2>1, <2>2 DEF IInv, Owned
<1>2. IInv /\ [Next]_vars => IInv'
  BY TypeStep, OwnedStep DEF IInv, Owned
<1> QED
  BY <1>1, <1>2, PTL DEF Safety

(* No early return of run_process or of its worker forgets a child, a      *)
(* spool writer or an execution.                                           *)
THEOREM NothingIsForgotten == Safety => []NothingOutlivesItsOwner
<1>1. IInv => NothingOutlivesItsOwner
  BY DEF IInv
<1> QED
  BY <1>1, Inductive, PTL

(* process.status never reports "running" for an operation no worker will  *)
(* finalise.                                                               *)
THEOREM RunningIsServed == Safety => []RunningHasWorker
<1>1. IInv => RunningHasWorker
  BY DEF IInv
<1> QED
  BY <1>1, Inductive, PTL

(* remove_execution precedes the final state on every path of the worker.  *)
THEOREM FinalIsOutOfTheRegistry == Safety => []FinalIsUnregistered
<1>1. IInv => FinalIsUnregistered
  BY DEF IInv, TypeOK, Stages, NothingOutlivesItsOwner, RunningHasWorker,
         FinalIsUnregistered, Holding, Final, Unfinished, Answers
<1> QED
  BY <1>1, Inductive, PTL

(* A cancellation the runtime accepted decides the operation's outcome.    *)
THEOREM CancellationDecides == Safety => []CancelIsDecisive
<1>1. IInv => CancelIsDecisive
  BY DEF IInv
<1> QED
  BY <1>1, Inductive, PTL

-----------------------------------------------------------------------------
(* What a cancellation of a workspace covers                               *)

(* An operation of the snapshot is yet to be looked at, final or flagged;  *)
(* while its end is awaited, the current one is flagged.                   *)
Covered ==
  \A r \in Reqs :
    /\ \A o \in req[r].snapshot :
         o \in req[r].pending \/ record[o] \in Final \/ o \in cancelRequested
    /\ req[r].pc = "idle" => req[r].snapshot = {}
    /\ req[r].pc \in {"terminating", "killing"} => req[r].current \in cancelRequested
    /\ req[r].pc = "ok" => req[r].pending = {}

(* Three kinds of steps write the records and the flags.                   *)
LEMMA RecordChanges ==
  ASSUME [Next]_vars
  PROVE  \/ UNCHANGED <<record, cancelRequested>>
         \/ \E o \in Ops : InsertRecord(o) \/ CompleteOperation(o) \/ MarkFailed(o)
         \/ \E r \in Reqs, o \in Ops : FlagAndTerminate(r, o)
<1>1. ASSUME NEW o \in Ops, RunRequest(o) \/ ProcessRunDecision(o)
      PROVE  InsertRecord(o) \/ UNCHANGED <<record, cancelRequested>>
  BY <1>1 DEF RunRequest, ProcessRunDecision, AdmitRun, LaunchFails, SpawnChild,
              SpoolCreated, SpoolRefused, RunReturns
<1>2. ASSUME NEW o \in Ops, Worker(o) \/ CaptureFaults(o)
      PROVE  CompleteOperation(o) \/ MarkFailed(o) \/ UNCHANGED <<record, cancelRequested>>
  BY <1>2 DEF Worker, CaptureFaults, CaptureEnds, SpoolWriteFails, CaptureFails,
              FinishSpool, RemoveExecution, WorkerDrops
<1>3. ASSUME NEW r \in Reqs, Cancelling(r)
      PROVE  \/ \E o \in Ops : FlagAndTerminate(r, o)
             \/ UNCHANGED <<record, cancelRequested>>
  BY <1>3 DEF Cancelling, CheckPhase, TakeSnapshot, PollSeesFinal, GraceExpires,
              KillGraceExpires, CancelReturns, OperationNotFound, AlreadyFinal, SetReq
<1>4. ASSUME \/ AuditBreaks \/ Registry \/ UNCHANGED vars
             \/ \E o \in Ops : ChildExits(o) \/ KilledChildDies(o)
             \/ \E r \in Reqs, c \in Caps :
                  \/ CancelExecutionsDecision(r, c)
                  \/ \E o \in Ops : CancelDecision(r, c, o)
      PROVE  UNCHANGED <<record, cancelRequested>>
  BY <1>4 DEF AuditBreaks, Registry, RestrictPolicy, Activate, BeginClose, Unregister,
              SetPhase, vars, ChildExits, KilledChildDies, CancelExecutionsDecision,
              CancelDecision, SetReq
<1> QED
  BY <1>1, <1>2, <1>3, <1>4 DEF Next

(* A final record stays final, and a flag is never taken back.             *)
LEMMA FinalStays ==
  ASSUME IInv, [Next]_vars
  PROVE  /\ \A o \in Ops : record[o] \in Final => record'[o] \in Final
         /\ cancelRequested \subseteq cancelRequested'
<1> USE DEF IInv, TypeOK
<1>1. CASE UNCHANGED <<record, cancelRequested>>
  BY <1>1
<1>2. ASSUME NEW o \in Ops, InsertRecord(o)
      PROVE  record[o] = "none" /\ record' = [record EXCEPT ![o] = "running"] /\ UNCHANGED cancelRequested
  BY <1>2 DEF InsertRecord, RunStep, Stages, Answers
<1>3. ASSUME NEW o \in Ops, CompleteOperation(o) \/ MarkFailed(o)
      PROVE  (\E s \in Final : record' = [record EXCEPT ![o] = s]) /\ UNCHANGED cancelRequested
  BY <1>3 DEF CompleteOperation, MarkFailed, Outcome, Final
<1>4. ASSUME NEW r \in Reqs, NEW o \in Ops, FlagAndTerminate(r, o)
      PROVE  cancelRequested \subseteq cancelRequested' /\ UNCHANGED record
  BY <1>4 DEF FlagAndTerminate, SetReq
<1>5. \/ UNCHANGED <<record, cancelRequested>>
      \/ \E o \in Ops : InsertRecord(o) \/ CompleteOperation(o) \/ MarkFailed(o)
      \/ \E r \in Reqs, o \in Ops : FlagAndTerminate(r, o)
  BY RecordChanges
<1> QED
  BY <1>1, <1>2, <1>3, <1>4, <1>5 DEF Final

(* No step of any request leaves an operation of a snapshot behind.        *)
LEMMA CoveredStep == IInv /\ Covered /\ [Next]_vars => Covered'
<1> SUFFICES ASSUME IInv, Covered, [Next]_vars PROVE Covered'
  OBVIOUS
<1>0. /\ \A o \in Ops : record[o] \in Final => record'[o] \in Final
      /\ cancelRequested \subseteq cancelRequested'
  BY FinalStays
<1> USE DEF IInv, TypeOK, Covered
<1>1. CASE UNCHANGED req
  BY <1>0, <1>1 DEF Requests
<1>2. ASSUME NEW r \in Reqs, NEW q, SetReq(r, q),
             \A o \in q.snapshot : o \in q.pending \/ record[o] \in Final \/ o \in cancelRequested',
             q.pc = "idle" => q.snapshot = {},
             q.pc \in {"terminating", "killing"} => q.current \in cancelRequested',
             q.pc = "ok" => q.pending = {}
      PROVE  Covered'
  BY <1>0, <1>2 DEF SetReq, Requests
<1>3. ASSUME NEW r \in Reqs, Cancelling(r) PROVE Covered'
  <2>0. req[r] \in Requests
    OBVIOUS
  <2> USE <1>0, <2>0 DEF Requests, FailureAnswer, SuccessAnswer
  <2>1. CASE CheckPhase(r)
    BY <1>2, <2>1 DEF CheckPhase
  <2>2. CASE TakeSnapshot(r)
    BY <1>2, <2>2 DEF TakeSnapshot
  <2>3. CASE PollSeesFinal(r) \/ KillGraceExpires(r)
    BY <1>2, <2>3 DEF PollSeesFinal, KillGraceExpires, Proceed
  <2>4. CASE GraceExpires(r)
    BY <1>2, <2>4 DEF GraceExpires
  <2>5. CASE CancelReturns(r)
    BY <1>2, <2>5 DEF CancelReturns
  <2>6. ASSUME NEW o \in Ops, OperationNotFound(r, o) PROVE Covered'
    BY <1>2, <2>6 DEF OperationNotFound
  <2>7. ASSUME NEW o \in Ops, AlreadyFinal(r, o) PROVE Covered'
    BY <1>2, <2>7 DEF AlreadyFinal
  <2>8. ASSUME NEW o \in Ops, FlagAndTerminate(r, o) PROVE Covered'
    BY <1>2, <2>8 DEF FlagAndTerminate
  <2> QED
    BY <1>3, <2>1, <2>2, <2>3, <2>4, <2>5, <2>6, <2>7, <2>8 DEF Cancelling
<1>4. ASSUME NEW r \in Reqs, NEW c \in Caps,
             \/ CancelExecutionsDecision(r, c)
             \/ \E o \in Ops : CancelDecision(r, c, o)
      PROVE Covered'
  BY ZenonT(60), <1>2, <1>4 DEF CancelExecutionsDecision, CancelDecision, Requests
<1>5. ASSUME \/ AuditBreaks \/ Registry \/ UNCHANGED vars
             \/ \E o \in Ops : ProcessRunDecision(o) \/ RunRequest(o) \/ Worker(o) \/ CaptureFaults(o)
                               \/ ChildExits(o) \/ KilledChildDies(o)
      PROVE  UNCHANGED req
  BY <1>5 DEF AuditBreaks, Registry, RestrictPolicy, Activate, BeginClose, Unregister, SetPhase, vars,
              ProcessRunDecision, RunRequest, AdmitRun, LaunchFails, SpawnChild, SpoolCreated, SpoolRefused,
              InsertRecord, RunReturns, Worker, CaptureEnds, FinishSpool, RemoveExecution, CompleteOperation,
              MarkFailed, WorkerDrops, CaptureFaults, SpoolWriteFails, CaptureFails, ChildExits, KilledChildDies
<1> QED
  BY <1>1, <1>3, <1>4, <1>5 DEF Next

(* workspace.cancel_executions answers "ok" only when every operation it   *)
(* found running is final or flagged, however the loop interleaves with    *)
(* the workers.                                                            *)
THEOREM SnapshotsAreCovered == Safety => []SnapshotIsCovered
<1>1. Init => Covered
  BY DEF Init, Covered, IdleReq
<1>2. IInv /\ Covered => SnapshotIsCovered
  BY DEF IInv, TypeOK, Covered, SnapshotIsCovered, Requests, Final
<1> QED
  BY <1>1, <1>2, CoveredStep, Inductive, PTL DEF Safety

-----------------------------------------------------------------------------
(* The runtime implements the client's view of an operation.               *)
THEOREM Refinement == Safety => ImplementsOperation
<1>1. Init => Operation!Init
  BY DEF Init, Operation!Init
<1>2. IInv /\ [Next]_vars => [Operation!Next]_(Operation!vars)
  <2> SUFFICES ASSUME IInv, [Next]_vars PROVE [Operation!Next]_(Operation!vars)
    OBVIOUS
  <2> USE DEF IInv, TypeOK, Operation!Next, Operation!vars
  <2>1. CASE UNCHANGED <<record, cancelRequested>>
    BY <2>1
  <2>2. ASSUME NEW o \in Ops, InsertRecord(o) PROVE Operation!Start(o)
    BY <2>2 DEF InsertRecord, RunStep, Stages, Answers, Operation!Start
  <2>3. ASSUME NEW o \in Ops, CompleteOperation(o) \/ MarkFailed(o)
        PROVE  Operation!Finish(o)
    <3>1. record[o] = "running"
      BY <2>3 DEF CompleteOperation, MarkFailed, WorkerStep, RunningHasWorker, Unfinished
    <3>2. PICK exit \in {"completed", "failed"} :
            record' = [record EXCEPT ![o] = Outcome(o, exit)]
      BY <2>3 DEF CompleteOperation, MarkFailed
    <3>3. /\ Outcome(o, exit) \in Operation!Final
          /\ Outcome(o, exit) = "cancelled" <=> o \in cancelRequested
      BY DEF Outcome, Operation!Final
    <3>4. UNCHANGED cancelRequested
      BY <2>3 DEF CompleteOperation, MarkFailed
    <3> QED
      BY <3>1, <3>2, <3>3, <3>4 DEF Operation!Finish
  <2>4. ASSUME NEW r \in Reqs, NEW o \in Ops, FlagAndTerminate(r, o)
        PROVE  Operation!AcceptCancel(o)
    BY <2>4 DEF FlagAndTerminate, MayFlag, SetReq, Operation!AcceptCancel
  <2> QED
    BY <2>1, <2>2, <2>3, <2>4, RecordChanges
<1> QED
  BY <1>1, <1>2, Inductive, PTL DEF Safety, ImplementsOperation, Operation!Safety

-----------------------------------------------------------------------------
(* The developer console: DevConsole.                                      *)

(* What a run is, and what a call may say of the runs there are: a run it  *)
(* calls ended has ended that way, and the run it waits for or answers     *)
(* about is the one it started for that source state.                      *)
RunRecords == [state : {"running"} \union Ended, exitCode : {0, 1}, source : Sources]
Agrees(operation, this) == operation.state \in Ended => operation = this
Tells(call, of) ==
  /\ call.kind = "bound" => call.source \in Sources
  /\ call.kind \in {"waiting", "verify", "process"} => call.run \in DOMAIN of
  /\ call.kind \in {"waiting", "verify"} => call.source = of[call.run].source
  /\ call.kind \in {"verify", "process"} => call.operation \in RunRecords /\ Agrees(call.operation, of[call.run])

ConsoleTypeOK ==
  /\ source \in Sources /\ edits \in 0..MaxEdits
  /\ runs \in Seq(RunRecords)
  /\ DOMAIN calls = Calls
  /\ DOMAIN shown = {"git", "aged", "process", "verification", "objective"}
  /\ shown.git.kind \in {"none", "git"} /\ (shown.git.kind = "none" => shown.git = None)
  /\ shown.verification = None \/ shown.verification.kind = "verify"

ShownHasHappened ==
  /\ DOMAIN shown.process \subseteq DOMAIN runs
  /\ \A i \in DOMAIN shown.process : shown.process[i] \in Ended => runs[i].state = shown.process[i]
  /\ Tells(shown.verification, runs)

ConsoleInv ==
  /\ ConsoleTypeOK
  /\ \A c \in Calls : Tells(calls[c], runs)
  /\ ShownHasHappened

(* Runs only get more, and older: a run keeps its source state, and one    *)
(* that has ended stays as it ended.  What a call says of them stays true. *)
Ages(before, after) ==
  /\ DOMAIN before \subseteq DOMAIN after
  /\ \A i \in DOMAIN before : /\ after[i].source = before[i].source
                              /\ before[i].state \in Ended => after[i] = before[i]

LEMMA TellsStill ==
  ASSUME NEW before, NEW after, Ages(before, after), NEW call, Tells(call, before)
  PROVE  Tells(call, after)
BY DEF Ages, Tells, Agrees

LEMMA RunsAge ==
  ASSUME ConsoleInv, ConsoleNext
  PROVE  Ages(runs, runs') /\ runs' \in Seq(RunRecords)
<1> USE DEF ConsoleInv, ConsoleTypeOK
<1>1. CASE UNCHANGED runs
  BY <1>1 DEF Ages
<1>2. ASSUME NEW i \in DOMAIN runs, runs[i].state = "running",
             NEW ended \in RunRecords, ended.source = runs[i].source,
             runs' = [runs EXCEPT ![i] = ended]
      PROVE  Ages(runs, runs') /\ runs' \in Seq(RunRecords)
  BY <1>2 DEF Ages, Ended
<1>3. ASSUME RunEnds
      PROVE  Ages(runs, runs') /\ runs' \in Seq(RunRecords)
  <2>1. PICK i \in DOMAIN runs, exit \in {0, 1} :
          runs[i].state = "running" /\ runs' = [runs EXCEPT ![i].state = "completed", ![i].exitCode = exit]
    BY <1>3 DEF RunEnds
  <2>2. runs[i] \in RunRecords
    OBVIOUS
  <2> DEFINE ended == [[runs[i] EXCEPT !.state = "completed"] EXCEPT !.exitCode = exit]
  <2>3. ended \in RunRecords /\ ended.source = runs[i].source
    BY <2>2 DEF RunRecords, Ended
  <2>4. runs' = [runs EXCEPT ![i] = ended]
    <3>1. runs' = [[runs EXCEPT ![i].state = "completed"] EXCEPT ![i].exitCode = exit]
      BY <2>1
    <3> QED BY <3>1
  <2> HIDE DEF ended
  <2> QED BY <1>2, <2>1, <2>3, <2>4
<1>4. ASSUME NEW c \in Calls, ProcessCancel(c)
      PROVE  Ages(runs, runs') /\ runs' \in Seq(RunRecords)
  <2>1. PICK i \in DOMAIN runs, dies \in BOOLEAN :
          runs' = IF dies /\ runs[i].state = "running" THEN [runs EXCEPT ![i].state = "cancelled"] ELSE runs
    BY <1>4 DEF ProcessCancel
  <2>2. CASE UNCHANGED runs
    BY <2>2, <1>1
  <2>3. CASE runs[i].state = "running" /\ runs' = [runs EXCEPT ![i].state = "cancelled"]
    <3>1. runs[i] \in RunRecords
      OBVIOUS
    <3> DEFINE ended == [runs[i] EXCEPT !.state = "cancelled"]
    <3>2. ended \in RunRecords /\ ended.source = runs[i].source
      BY <3>1 DEF RunRecords, Ended
    <3>3. runs' = [runs EXCEPT ![i] = ended]
      BY <2>3
    <3> HIDE DEF ended
    <3> QED BY <1>2, <2>3, <3>2, <3>3
  <2> QED BY <2>1, <2>2, <2>3
<1>5. ASSUME NEW c \in Calls, Start(c)
      PROVE  Ages(runs, runs') /\ runs' \in Seq(RunRecords)
  <2> DEFINE started == [state |-> "running", exitCode |-> 0, source |-> calls[c].source]
  <2>1. runs' = Append(runs, started)
    BY <1>5 DEF Start
  <2>2. started \in RunRecords
    BY <1>5 DEF Start, Tells, RunRecords
  <2> HIDE DEF started
  <2> QED BY <2>1, <2>2 DEF Ages
<1> QED
  BY <1>1, <1>3, <1>4, <1>5
     DEF ConsoleNext, Edit, GrowsOld, GitChanges, GitStatus, Bind, Waited, ProcessStatus, Checkpoint, Info,
         RecordGitStatus, RecordProcessOperation, RecordVerification, RecordCheckpoint, Recorded

(* What a call is answered is true of the runs when it is answered.        *)
LEMMA CallsTell ==
  ASSUME ConsoleInv, ConsoleNext
  PROVE  \A c \in Calls : Tells(calls'[c], runs')
<1> USE DEF ConsoleInv, ConsoleTypeOK
<1>0. Ages(runs, runs') /\ runs' \in Seq(RunRecords)
  BY RunsAge
<1>1. \A c \in Calls : calls'[c] = calls[c] => Tells(calls'[c], runs')
  BY <1>0, TellsStill
<1>2. \A c \in Calls : calls'[c] = None => Tells(calls'[c], runs')
  BY DEF Tells, None
<1>3. ASSUME NEW c \in Calls, NEW told, Tells(told, runs'), calls' = [calls EXCEPT ![c] = told]
      PROVE  \A d \in Calls : Tells(calls'[d], runs')
  BY <1>1, <1>3
<1>4. CASE UNCHANGED calls
  BY <1>1, <1>4
<1>5. ASSUME NEW c \in Calls, Recorded(c)
      PROVE  \A d \in Calls : Tells(calls'[d], runs')
  BY <1>1, <1>2, <1>5 DEF Recorded
<1>6. ASSUME NEW c \in Calls, GitChanges(c) \/ GitStatus(c) \/ Bind(c) \/ Checkpoint(c) \/ Info(c)
      PROVE  \A d \in Calls : Tells(calls'[d], runs')
  <2>1. PICK told : calls' = [calls EXCEPT ![c] = told] /\ told.kind \in {"git", "bound", "checkpoint", "info"}
                    /\ (told.kind = "bound" => told.source = source)
    BY <1>6 DEF GitChanges, GitStatus, Bind, Checkpoint, Info, Answered
  <2>2. Tells(told, runs')
    BY <2>1 DEF Tells
  <2> QED BY <1>3, <2>1, <2>2
<1>7. ASSUME NEW c \in Calls, Start(c)
      PROVE  \A d \in Calls : Tells(calls'[d], runs')
  <2> DEFINE started == [state |-> "running", exitCode |-> 0, source |-> calls[c].source]
  <2>1. runs' = Append(runs, started)
    BY <1>7 DEF Start
  <2>2. started \in RunRecords
    BY <1>7 DEF Start, Tells, RunRecords
  <2>3. Len(runs) + 1 \in DOMAIN runs' /\ runs'[Len(runs) + 1] = started
    <3> HIDE DEF started
    <3> QED BY <2>1, <2>2
  <2>4. PICK told : /\ calls' = [calls EXCEPT ![c] = told]
                    /\ \/ told = Verifying(c, Len(runs) + 1)
                       \/ told = [kind |-> "waiting", run |-> Len(runs) + 1, source |-> calls[c].source]
    BY <1>7 DEF Start
  <2>5. Tells(told, runs')
    BY <2>2, <2>3, <2>4 DEF Tells, Verifying, Agrees
  <2> QED BY <1>3, <2>4, <2>5
<1>8. ASSUME NEW c \in Calls, Waited(c)
      PROVE  \A d \in Calls : Tells(calls'[d], runs')
  <2> DEFINE told == [kind |-> "verify", run |-> calls[c].run, operation |-> runs[calls[c].run], source |-> calls[c].source]
  <2>1. calls' = [calls EXCEPT ![c] = told] /\ runs' = runs
    BY <1>8 DEF Waited
  <2>2. Tells(told, runs')
    BY <1>8, <2>1 DEF Waited, Tells, Agrees
  <2> QED BY <1>3, <2>1, <2>2
<1>9. ASSUME NEW c \in Calls, ProcessStatus(c) \/ ProcessCancel(c)
      PROVE  \A d \in Calls : Tells(calls'[d], runs')
  <2>1. PICK i \in DOMAIN runs : calls' = [calls EXCEPT ![c] = [kind |-> "process", run |-> i, operation |-> runs'[i]]]
    BY <1>9 DEF ProcessStatus, ProcessCancel, Answered
  <2>2. i \in DOMAIN runs' /\ runs'[i] \in RunRecords
    BY <1>0, <2>1 DEF Ages
  <2>3. Tells([kind |-> "process", run |-> i, operation |-> runs'[i]], runs')
    BY <2>2 DEF Tells, Agrees
  <2> QED BY <1>3, <2>1, <2>3
<1> QED
  BY <1>4, <1>5, <1>6, <1>7, <1>8, <1>9
     DEF ConsoleNext, Edit, RunEnds, GrowsOld, RecordGitStatus, RecordProcessOperation, RecordVerification, RecordCheckpoint

(* A record takes one call's answer into the maps, and nothing else does.  *)
LEMMA ShownStays ==
  ASSUME ConsoleInv, ConsoleNext
  PROVE  ShownHasHappened'
<1> USE DEF ConsoleInv, ConsoleTypeOK
<1>0. Ages(runs, runs') /\ runs' \in Seq(RunRecords)
  BY RunsAge
<1>1. ASSUME UNCHANGED <<shown.process, shown.verification>>
      PROVE  ShownHasHappened'
  <2>1. Tells(shown.verification, runs')
    BY <1>0, TellsStill DEF ShownHasHappened
  <2> QED BY <1>0, <1>1, <2>1 DEF ShownHasHappened, Ages
<1>2. ASSUME NEW c \in Calls, calls[c].kind \in {"process", "verify"}, UNCHANGED runs,
             shown'.process = WithProcess(shown.process, calls[c].run, StateIn(calls[c])),
             shown'.verification \in {shown.verification, calls[c]}
      PROVE  ShownHasHappened'
  <2>1. Tells(calls[c], runs) /\ Tells(shown.verification, runs)
    BY DEF ShownHasHappened
  <2>2. DOMAIN shown'.process = DOMAIN runs
    BY <1>2 DEF WithProcess
  <2>3. ASSUME NEW i \in DOMAIN shown'.process, shown'.process[i] \in Ended
        PROVE  runs'[i].state = shown'.process[i]
    BY <1>2, <2>1, <2>2, <2>3 DEF WithProcess, StateIn, AsAnswered, Tells, Agrees, ShownHasHappened, Ended
  <2> QED BY <1>2, <2>1, <2>2, <2>3 DEF ShownHasHappened
<1>3. ASSUME NEW c \in Calls, RecordProcessOperation(c) \/ RecordVerification(c)
      PROVE  ShownHasHappened'
  BY <1>2, <1>3 DEF RecordProcessOperation, RecordVerification, Recorded
<1> QED
  BY <1>1, <1>3
     DEF ConsoleNext, Edit, RunEnds, GrowsOld, GitChanges, GitStatus, Bind, Start, Waited, ProcessStatus, ProcessCancel,
         Checkpoint, Info, RecordGitStatus, RecordCheckpoint

LEMMA ConsoleTypeStep ==
  ASSUME ConsoleInv, ConsoleNext
  PROVE  ConsoleTypeOK'
<1> USE DEF ConsoleInv, ConsoleTypeOK
<1>1. runs' \in Seq(RunRecords)
  BY RunsAge
<1>2. source' \in Sources /\ edits' \in 0..MaxEdits
  <2>1. CASE Edit
    BY <2>1, EditsAssumption DEF Edit, Sources
  <2> QED
    BY <2>1 DEF ConsoleNext, RunEnds, GrowsOld, GitChanges, GitStatus, Bind, Start, Waited, ProcessStatus, ProcessCancel,
         Checkpoint, Info, RecordGitStatus, RecordProcessOperation, RecordVerification, RecordCheckpoint, Recorded
<1>3. DOMAIN calls' = Calls
  BY DEF ConsoleNext, Edit, RunEnds, GrowsOld, GitChanges, GitStatus, Bind, Start, Waited, ProcessStatus, ProcessCancel,
         Checkpoint, Info, RecordGitStatus, RecordProcessOperation, RecordVerification, RecordCheckpoint, Recorded, Answered
<1>4. /\ DOMAIN shown' = {"git", "aged", "process", "verification", "objective"}
      /\ shown'.git.kind \in {"none", "git"} /\ (shown'.git.kind = "none" => shown'.git = None)
      /\ shown'.verification = None \/ shown'.verification.kind = "verify"
  BY ZenonT(60) DEF ConsoleNext, Edit, RunEnds, GrowsOld, GitChanges, GitStatus, Bind, Start, Waited, ProcessStatus, ProcessCancel,
         Checkpoint, Info, RecordGitStatus, RecordProcessOperation, RecordVerification, RecordCheckpoint, Recorded
<1> QED BY <1>1, <1>2, <1>3, <1>4

(* The console may lag, it never runs ahead: what it shows ended has ended *)
(* that way, and a dirty workspace it does not ask to verify has a run     *)
(* that passed on exactly the source state last seen; however many calls   *)
(* overlap and however late each is recorded.                              *)
THEOREM TheConsoleLags == ConsoleSpec => []ConsoleNeverRunsAhead
<1>1. ConsoleInit => ConsoleInv
  <2> SUFFICES ASSUME ConsoleInit PROVE ConsoleInv
    OBVIOUS
  <2>1. ConsoleTypeOK
    BY EditsAssumption DEF ConsoleInit, ConsoleTypeOK, None, Sources
  <2>2. Tells(None, runs)
    BY DEF Tells, None
  <2> QED BY <2>1, <2>2 DEF ConsoleInit, ConsoleInv, ShownHasHappened
<1>2. ConsoleInv /\ [ConsoleNext]_consoleVars => ConsoleInv'
  <2>1. CASE ConsoleNext
    BY <2>1, ConsoleTypeStep, CallsTell, ShownStays DEF ConsoleInv
  <2>2. CASE UNCHANGED consoleVars
    BY <2>2 DEF consoleVars, ConsoleInv, ConsoleTypeOK, ShownHasHappened
  <2> QED BY <2>1, <2>2
<1>3. ConsoleInv => ConsoleNeverRunsAhead
  <2> SUFFICES ASSUME ConsoleInv, Dirty, "verify-current-source" \notin NextActionHints
               PROVE  LET i == shown.verification.run IN
                        /\ runs[i].state = "completed" /\ runs[i].exitCode = 0
                        /\ ~shown.aged /\ runs[i].source = shown.git.source
    BY DEF ConsoleInv, ShownHasHappened, ConsoleNeverRunsAhead
  <2>1. HasFreshVerification
    BY DEF NextActionHints
  <2>2. SourceFreshness(shown.verification.source) = "fresh"
    BY <2>1 DEF HasFreshVerification, VerificationFreshness
  <2>3. ~shown.aged /\ shown.git.source = shown.verification.source
    BY <2>2 DEF SourceFreshness, SameSource, BothAgree
  <2>4. shown.verification.kind = "verify" /\ Tells(shown.verification, runs)
    BY <2>1 DEF HasFreshVerification, ConsoleInv, ConsoleTypeOK, ShownHasHappened
  <2>5. shown.verification.operation = runs[shown.verification.run]
    BY <2>1, <2>4 DEF HasFreshVerification, Tells, Agrees, Ended
  <2> QED BY <2>1, <2>3, <2>4, <2>5 DEF HasFreshVerification, Tells
<1> QED
  BY <1>1, <1>2, <1>3, PTL DEF ConsoleSpec

-----------------------------------------------------------------------------
(* verify.list and verify.run: Verification.                               *)

Derived == {"choose", "source", "start"}
Deriving == {"tree", "config", "manifests"}

(* What has been read is each from some state of the files since the call  *)
(* began, and what has been derived follows from what has been read.       *)
LocksRead    == \E p \in during : verify.locks = p.locks
TreeRead     == \E p \in during : verify.found = Manifests(p)
ConfigRead   == \/ verify.config = {}
                \/ \E p \in during : p.config \notin {NoConfig, BadConfig} /\ verify.config = p.config
PackagesRead == \A d \in DOMAIN verify.packages :
                  \E p \in during : d \in DOMAIN p.packages /\ verify.packages[d] = p.packages[d]
RecipesDerived ==
  /\ DOMAIN verify.packages = Scoped(verify.found, "package", verify.target)
  /\ \E installed \in {{}, Managers \union {"cargo"}} :
       verify.recipes = Recipes(verify.found, verify.packages, verify.locks, verify.config, policy, installed, verify.target)

Lists   == verify.at = "answered" /\ verify.op = "list" /\ verify.answer = "ok"
Running == verify.at \in {"source", "start"} \/ (verify.at = "answered" /\ verify.op = "run" /\ verify.answer = "ok")

VerifyTypeOK ==
  /\ DOMAIN verify = DOMAIN NoVerify
  /\ project \in Projects
  /\ verify.at \in {"idle", "answered"} \union Deriving \union Derived
  /\ verify.op \in {"none", "list", "run"}
  /\ verify.target \in {NoTarget} \union Dirs
  /\ during \subseteq Projects
  /\ verify.at # "answered" => verify.answer = "none"
  /\ verify.at = "idle" <=> verify.op = "none"
  /\ verify.at # "idle" => project \in during

VerifyInv ==
  /\ VerifyTypeOK
  /\ verify.at # "idle" => LocksRead
  /\ verify.at \in {"config", "manifests"} \union Derived \/ Lists \/ Running => TreeRead
  /\ verify.at \in {"tree", "config"} => verify.packages = <<>>
  /\ verify.at = "manifests" =>
       DOMAIN verify.packages \union verify.left = Scoped(verify.found, "package", verify.target)
  /\ verify.at \in {"manifests"} \union Derived \/ Lists \/ Running => ConfigRead /\ PackagesRead
  /\ verify.at \in Derived => verify.op = "run"
  /\ verify.at \in Derived \/ Lists \/ Running => RecipesDerived
  /\ Running => verify.recipe \in verify.recipes /\ verify.recipe.status = "allowed"

(* A project's files change one at a time and remain a project.            *)
LEMMA ProjectStays ==
  ASSUME VerifyTypeOK, ProjectChanges
  PROVE  project' \in Projects
<1>1. /\ project.packages \in UNION {[ds -> Managers \union {"none"}] : ds \in SUBSET Dirs}
      /\ DOMAIN project = {"packages", "cargo", "locks", "config"}
      /\ project.cargo \in SUBSET Dirs /\ project.locks \in SUBSET Managers /\ project.config \in Configs
  BY DEF VerifyTypeOK, Projects
<1>2. /\ DOMAIN project.packages \subseteq Dirs
      /\ project.packages \in [DOMAIN project.packages -> Managers \union {"none"}]
  BY <1>1
<1>3. ASSUME NEW locks \in SUBSET Managers, project' = [project EXCEPT !.locks = locks]
      PROVE  project' \in Projects
  BY <1>3 DEF Projects, VerifyTypeOK
<1>4. ASSUME NEW config \in Configs, project' = [project EXCEPT !.config = config]
      PROVE  project' \in Projects
  BY <1>4 DEF Projects, VerifyTypeOK
<1>5. ASSUME NEW cargo \in SUBSET Dirs, project' = [project EXCEPT !.cargo = cargo]
      PROVE  project' \in Projects
  BY <1>5 DEF Projects, VerifyTypeOK
<1>6. ASSUME NEW packages \in UNION {[ds -> Managers \union {"none"}] : ds \in SUBSET Dirs},
             project' = [project EXCEPT !.packages = packages]
      PROVE  project' \in Projects
  BY <1>6 DEF Projects, VerifyTypeOK
<1>7. ASSUME NEW d \in Dirs
      PROVE  WithoutManifest(project.packages, d) \in UNION {[ds -> Managers \union {"none"}] : ds \in SUBSET Dirs}
  <2>1. WithoutManifest(project.packages, d) \in [DOMAIN project.packages \ {d} -> Managers \union {"none"}]
    BY <1>2 DEF WithoutManifest, Restrict
  <2>2. DOMAIN project.packages \ {d} \in SUBSET Dirs
    BY <1>2
  <2> QED BY <2>1, <2>2
<1>8. ASSUME NEW d \in Dirs, NEW n \in Managers
      PROVE  WithManifest(project.packages, d, n) \in UNION {[ds -> Managers \union {"none"}] : ds \in SUBSET Dirs}
  <2>1. WithManifest(project.packages, d, n) \in [DOMAIN project.packages \union {d} -> Managers \union {"none"}]
    BY <1>2 DEF WithManifest
  <2>2. DOMAIN project.packages \union {d} \in SUBSET Dirs
    BY <1>2
  <2> QED BY <2>1, <2>2
<1> QED
  BY <1>3, <1>4, <1>5, <1>6, <1>7, <1>8 DEF ProjectChanges

LEMMA VerifyTypeStep ==
  ASSUME VerifyTypeOK, VerifyNext
  PROVE  VerifyTypeOK'
<1> USE DEF Deriving, Derived
<1>1. CASE ProjectChanges
  <2>1. project' \in Projects
    BY <1>1, ProjectStays
  <2>2. during' = during \union {project'} /\ UNCHANGED verify
    BY <1>1 DEF ProjectChanges
  <2> QED BY <2>1, <2>2 DEF VerifyTypeOK
<1>2. CASE CallVerify
  BY <1>2 DEF CallVerify, VerifyTypeOK, NoVerify
<1>3. CASE ForgetVerify
  BY <1>3 DEF ForgetVerify, VerifyTypeOK, NoVerify
<1>4. CASE Tree \/ ReadConfig \/ \E d \in Dirs : ReadManifest(d)
  BY <1>4 DEF Tree, ReadConfig, ReadManifest, Failed, Goes, VerifyTypeOK, NoVerify
<1>5. CASE Derive
  BY <1>5 DEF Derive, Goes, VerifyTypeOK, NoVerify
<1>6. CASE Choose \/ TakeSourceState \/ StartProcess
  BY <1>6 DEF Choose, TakeSourceState, StartProcess, Failed, Goes, VerifyTypeOK, NoVerify
<1> QED
  BY <1>1, <1>2, <1>3, <1>4, <1>5, <1>6 DEF VerifyNext, VerifyStep

LEMMA VerifyStays ==
  ASSUME VerifyInv, VerifyNext
  PROVE  VerifyInv'
<1>0. VerifyTypeOK /\ VerifyTypeOK'
  BY VerifyTypeStep DEF VerifyInv
<1> USE DEF Deriving, Derived, Lists, Running
<1>1. CASE ProjectChanges
  <2>1. during \subseteq during' /\ UNCHANGED <<verify, policy>>
    BY <1>1 DEF ProjectChanges
  <2>2. (LocksRead => LocksRead') /\ (TreeRead => TreeRead') /\ (ConfigRead => ConfigRead') /\ (PackagesRead => PackagesRead')
    BY <2>1 DEF LocksRead, TreeRead, ConfigRead, PackagesRead
  <2>3. RecipesDerived => RecipesDerived'
    BY <2>1 DEF RecipesDerived
  <2> QED BY <1>0, <2>1, <2>2, <2>3 DEF VerifyInv
<1>2. CASE CallVerify
  <2>1. verify'.at = "tree" /\ verify'.locks = project.locks /\ verify'.packages = <<>> /\ during' = {project}
    BY <1>2 DEF CallVerify, NoVerify
  <2>2. LocksRead'
    BY <2>1 DEF LocksRead
  <2> QED BY <1>0, <2>1, <2>2 DEF VerifyInv
<1>3. CASE ForgetVerify
  <2>1. verify'.at = "idle"
    BY <1>3 DEF ForgetVerify, NoVerify
  <2> QED BY <1>0, <2>1 DEF VerifyInv
<1>4. ASSUME NEW code, code \notin {"none", "ok"}, Failed(code), UNCHANGED during, verify.at # "idle"
      PROVE  VerifyInv'
  <2>1. verify'.at = "answered" /\ verify'.answer = code /\ verify'.locks = verify.locks
    BY <1>0, <1>4 DEF Failed, VerifyTypeOK, NoVerify
  <2>2. LocksRead'
    BY <1>4, <2>1 DEF LocksRead, VerifyInv
  <2> QED BY <1>0, <1>4, <2>1, <2>2 DEF VerifyInv
<1>5. CASE Tree
  <2>1. CASE Failed("VERIFICATION_DISCOVERY_INVALID")
    BY <1>4, <1>5, <2>1 DEF Tree
  <2>2. CASE verify' = [Goes("config") EXCEPT !.found = Manifests(project)]
    <3>1. /\ verify'.at = "config" /\ verify'.locks = verify.locks /\ verify'.packages = <<>>
          /\ verify'.found = Manifests(project) /\ UNCHANGED during /\ project \in during
      BY <1>0, <1>5, <2>2 DEF Tree, Goes, VerifyInv, VerifyTypeOK, NoVerify
    <3>2. LocksRead' /\ TreeRead'
      BY <1>5, <3>1 DEF Tree, LocksRead, TreeRead, VerifyInv
    <3> QED BY <1>0, <3>1, <3>2 DEF VerifyInv
  <2> QED BY <1>5, <2>1, <2>2 DEF Tree
<1>6. CASE ReadConfig
  <2>1. CASE Failed("VERIFICATION_DISCOVERY_INVALID")
    BY <1>4, <1>6, <2>1 DEF ReadConfig
  <2>2. CASE /\ project.config # BadConfig
             /\ verify' = [Goes("manifests") EXCEPT !.config = IF project.config = NoConfig THEN {} ELSE project.config,
                                                    !.left = Scoped(verify.found, "package", verify.target)]
    <3>1. /\ verify'.at = "manifests" /\ verify'.locks = verify.locks /\ verify'.packages = <<>>
          /\ verify'.found = verify.found /\ verify'.target = verify.target
          /\ verify'.config = IF project.config = NoConfig THEN {} ELSE project.config
          /\ verify'.left = Scoped(verify.found, "package", verify.target)
          /\ UNCHANGED during /\ project \in during
      BY <1>0, <1>6, <2>2 DEF ReadConfig, Goes, VerifyInv, VerifyTypeOK, NoVerify
    <3>2. LocksRead' /\ TreeRead'
      BY <1>6, <3>1 DEF ReadConfig, LocksRead, TreeRead, VerifyInv
    <3>3. ConfigRead' /\ PackagesRead'
      BY <2>2, <3>1 DEF ConfigRead, PackagesRead
    <3> QED BY <1>0, <3>1, <3>2, <3>3 DEF VerifyInv
  <2> QED BY <1>6, <2>1, <2>2 DEF ReadConfig
<1>7. ASSUME NEW d \in Dirs, ReadManifest(d)
      PROVE  VerifyInv'
  <2>1. CASE Failed("VERIFICATION_DISCOVERY_INVALID")
    BY <1>4, <1>7, <2>1 DEF ReadManifest
  <2>2. CASE /\ d \in DOMAIN project.packages
             /\ verify' = [verify EXCEPT !.left = verify.left \ {d},
                                        !.packages = WithManifest(verify.packages, d, project.packages[d])]
    <3>1. /\ verify'.at = "manifests" /\ verify'.locks = verify.locks /\ verify'.config = verify.config
          /\ verify'.found = verify.found /\ verify'.target = verify.target
          /\ verify'.left = verify.left \ {d}
          /\ verify'.packages = WithManifest(verify.packages, d, project.packages[d])
          /\ UNCHANGED during /\ project \in during
      BY <1>0, <1>7, <2>2 DEF ReadManifest, VerifyTypeOK, NoVerify
    <3>2. LocksRead' /\ TreeRead' /\ ConfigRead'
      BY <1>7, <3>1 DEF ReadManifest, LocksRead, TreeRead, ConfigRead, VerifyInv
    <3>3. PackagesRead'
      BY <1>7, <2>2, <3>1 DEF ReadManifest, WithManifest, PackagesRead, VerifyInv
    <3>4. DOMAIN verify'.packages \union verify'.left = Scoped(verify'.found, "package", verify'.target)
      BY <1>7, <3>1 DEF ReadManifest, WithManifest, VerifyInv
    <3> QED BY <1>0, <3>1, <3>2, <3>3, <3>4 DEF VerifyInv
  <2> QED BY <1>7, <2>1, <2>2 DEF ReadManifest
<1>8. CASE Derive
  <2>1. PICK installed \in {{}, Managers \union {"cargo"}} :
          verify' = [Goes(IF verify.op = "list" THEN "answered" ELSE "choose") EXCEPT
                       !.recipes = Recipes(verify.found, verify.packages, verify.locks, verify.config, policy, installed, verify.target),
                       !.answer = IF verify.op = "list" THEN "ok" ELSE "none"]
    BY <1>8 DEF Derive
  <2>2. /\ verify'.recipes = Recipes(verify.found, verify.packages, verify.locks, verify.config, policy, installed, verify.target)
        /\ verify'.at = IF verify.op = "list" THEN "answered" ELSE "choose"
        /\ UNCHANGED <<verify.found, verify.packages, verify.locks, verify.config, verify.target, verify.op, policy, during>>
    BY <1>0, <1>8, <2>1 DEF Derive, Goes, VerifyTypeOK, NoVerify
  <2>3. LocksRead' /\ TreeRead' /\ ConfigRead' /\ PackagesRead'
    BY <1>8, <2>2 DEF Derive, LocksRead, TreeRead, ConfigRead, PackagesRead, VerifyInv
  <2>4. RecipesDerived'
    BY <1>8, <2>2 DEF Derive, RecipesDerived, VerifyInv
  <2>5. verify.op \in {"list", "run"}
    BY <1>0, <1>8 DEF Derive, VerifyTypeOK
  <2> QED BY <1>0, <2>2, <2>3, <2>4, <2>5 DEF VerifyInv
<1>9. CASE Choose \/ TakeSourceState \/ StartProcess
  <2>1. CASE \E code \in {"VERIFICATION_NOT_FOUND", "VERIFICATION_NOT_ALLOWED", "SOURCE_STATE_UNAVAILABLE", "PROCESS_FAILED"} : Failed(code)
    BY <1>4, <1>9, <2>1 DEF Choose, TakeSourceState, StartProcess
  <2>2. CASE ~\E code \in {"VERIFICATION_NOT_FOUND", "VERIFICATION_NOT_ALLOWED", "SOURCE_STATE_UNAVAILABLE", "PROCESS_FAILED"} : Failed(code)
    <3>1. /\ verify.at \in Derived
          /\ UNCHANGED <<verify.found, verify.packages, verify.locks, verify.config, verify.target, verify.op, verify.recipes, policy, during>>
          /\ \/ verify'.at \in {"source", "start"}
             \/ verify'.at = "answered" /\ verify'.answer = "ok"
      BY <1>0, <1>9, <2>2 DEF Choose, TakeSourceState, StartProcess, Goes, VerifyTypeOK, NoVerify
    <3>2. LocksRead' /\ TreeRead' /\ ConfigRead' /\ PackagesRead' /\ RecipesDerived'
      BY <3>1 DEF LocksRead, TreeRead, ConfigRead, PackagesRead, RecipesDerived, VerifyInv
    <3>3. verify'.recipe \in verify'.recipes /\ verify'.recipe.status = "allowed"
      BY <1>0, <1>9, <2>2, <3>1
         DEF Choose, TakeSourceState, StartProcess, Goes, Startable, AllowedOnly, VerifyInv, VerifyTypeOK, NoVerify
    <3>4. verify'.op = "run"
      BY <3>1 DEF VerifyInv
    <3> QED BY <1>0, <3>1, <3>2, <3>3, <3>4 DEF VerifyInv
  <2> QED BY <2>1, <2>2
<1> QED
  BY <1>1, <1>2, <1>3, <1>5, <1>6, <1>7, <1>8, <1>9 DEF VerifyNext, VerifyStep

(* A package manager that is resolved is the one package.json names, if it *)
(* names one.                                                              *)
LEMMA ManagerIsNamed ==
  ASSUME NEW named \in Managers \union {"none"}, NEW locks, NEW root,
         named # "none"
  PROVE  /\ Resolve(named, locks) \in {named, "conflict"}
         /\ ResolveNested(named, locks, root) \in {named, "conflict"}
<1>1. named \notin {"none", "unknown", "conflict"}
  BY ManagerAssumption
<1>2. Resolve(named, locks) \in {named, "conflict"}
  <2>1. CASE locks \subseteq {named}
    BY <1>1, <2>1 DEF Resolve
  <2>2. CASE ~(locks \subseteq {named})
    BY <1>1, <2>2 DEF Resolve
  <2> QED BY <2>1, <2>2
<1> QED BY <1>1, <1>2 DEF ResolveNested

(* The three sources of a recipe, and what an allowed one says.            *)
LEMMA RecipeComesFrom ==
  ASSUME NEW found, NEW packages, NEW locks, NEW config, NEW pol, NEW installed, NEW target,
         NEW r \in Recipes(found, packages, locks, config, pol, installed, target)
  PROVE  \/ /\ r.kind = "package" /\ r.name = "test" /\ r.dir \in Scoped(found, "package", target)
            /\ r = PackageRecipe(r.dir, ManagerOf(r.dir, Scoped(found, "package", target), packages, locks), pol, installed)
         \/ /\ r.kind = "cargo" /\ r.name \in {"test", "check", "fmt-check"} /\ r.dir \in Scoped(found, "cargo", target)
            /\ r.name = "fmt-check" => r.dir = <<>>
            /\ r = Recipe("cargo", r.dir, r.name, "cargo", pol, installed)
         \/ \E c \in config : r = Recipe("config", <<>>, c.key, c.exe, pol, installed)
<1>1. CASE r \in PackageRecipes(Scoped(found, "package", target), packages, locks, pol, installed)
  <2>1. PICK dir \in Scoped(found, "package", target) :
          r = PackageRecipe(dir, ManagerOf(dir, Scoped(found, "package", target), packages, locks), pol, installed)
    BY <1>1 DEF PackageRecipes
  <2>2. r.kind = "package" /\ r.name = "test" /\ r.dir = dir
    BY <2>1 DEF PackageRecipe, Recipe
  <2> QED BY <2>1, <2>2
<1>2. CASE r \in CargoRecipes(Scoped(found, "cargo", target), pol, installed)
  <2>1. PICK dir \in Scoped(found, "cargo", target), name \in {"test", "check", "fmt-check"} :
          (name = "fmt-check" => dir = <<>>) /\ r = Recipe("cargo", dir, name, "cargo", pol, installed)
    BY <1>2 DEF CargoRecipes
  <2>2. r.kind = "cargo" /\ r.name = name /\ r.dir = dir
    BY <2>1 DEF Recipe
  <2> QED BY <2>1, <2>2
<1>3. CASE r \in ConfiguredRecipes(config, pol, installed)
  BY <1>3 DEF ConfiguredRecipes
<1> QED
  BY <1>1, <1>2, <1>3 DEF Recipes

LEMMA CargoRecipesAre ==
  ASSUME NEW dirs, NEW dir \in dirs, NEW name \in {"test", "check", "fmt-check"}, NEW pol, NEW installed,
         name = "fmt-check" => dir = <<>>
  PROVE  Recipe("cargo", dir, name, "cargo", pol, installed) \in CargoRecipes(dirs, pol, installed)
<1>1. CASE name \in {"test", "check"}
  BY <1>1 DEF CargoRecipes
<1>2. CASE name = "fmt-check"
  <2> DEFINE root == dirs \intersect {<<>>}
  <2>1. dir \in root
    BY <1>2
  <2>2. Recipe("cargo", dir, name, "cargo", pol, installed)
          \in {Recipe("cargo", d, "fmt-check", "cargo", pol, installed) : d \in root}
    BY <1>2, <2>1
  <2> QED BY <2>2 DEF CargoRecipes
<1> QED BY <1>1, <1>2

LEMMA AllowedIsAllowed ==
  ASSUME NEW kind, NEW dir, NEW name, NEW exe, NEW pol, NEW installed,
         Recipe(kind, dir, name, exe, pol, installed).status = "allowed"
  PROVE  pol.process /\ (pol.dynamic \/ exe \in pol.names) /\ exe \in installed
BY DEF Recipe, Availability

LEMMA RunIsThere ==
  ASSUME VerifyInv, Running
  PROVE  LET r == verify.recipe IN
         /\ policy.process /\ (policy.dynamic \/ r.exe \in policy.names)
         /\ {q \in verify.recipes : q.kind = r.kind /\ q.dir = r.dir /\ q.name = r.name} = {r}
         /\ \E p \in during :
              CASE r.kind = "package" -> r.dir \in DOMAIN p.packages /\ p.packages[r.dir] \in {r.exe, "none"}
                [] r.kind = "cargo"   -> r.dir \in p.cargo
                [] OTHER              -> p.config \notin {NoConfig, BadConfig} /\ [key |-> r.name, exe |-> r.exe] \in p.config
<1> DEFINE r == verify.recipe
<1>0. /\ VerifyTypeOK /\ TreeRead /\ ConfigRead /\ PackagesRead /\ RecipesDerived
      /\ r \in verify.recipes /\ r.status = "allowed"
  BY DEF VerifyInv
<1>1. PICK installed : verify.recipes =
        Recipes(verify.found, verify.packages, verify.locks, verify.config, policy, installed, verify.target)
  BY <1>0 DEF RecipesDerived
<1>2. \A c, d \in verify.config : c.key = d.key => c = d
  BY <1>0, ConfigAssumption DEF ConfigRead, VerifyTypeOK, Projects
<1>3. ASSUME NEW q \in verify.recipes, q.kind = r.kind, q.dir = r.dir, q.name = r.name
      PROVE  q = r
  <2>1. CASE r.kind = "package"
    BY <1>0, <1>1, <1>3, <2>1, RecipeComesFrom DEF Recipe
  <2>2. CASE r.kind = "cargo"
    BY <1>0, <1>1, <1>3, <2>2, RecipeComesFrom DEF Recipe
  <2>3. CASE r.kind \notin {"package", "cargo"}
    <3>1. PICK c \in verify.config : r = Recipe("config", <<>>, c.key, c.exe, policy, installed)
      BY <1>0, <1>1, <2>3, RecipeComesFrom
    <3>2. PICK d \in verify.config : q = Recipe("config", <<>>, d.key, d.exe, policy, installed)
      BY <1>1, <1>3, <2>3, RecipeComesFrom
    <3>3. c.key = d.key
      BY <1>3, <3>1, <3>2 DEF Recipe
    <3> QED BY <1>2, <3>1, <3>2, <3>3
  <2> QED BY <2>1, <2>2, <2>3
<1>4. CASE r.kind = "package"
  <2>1. /\ r.dir \in Scoped(verify.found, "package", verify.target)
        /\ r = PackageRecipe(r.dir, ManagerOf(r.dir, Scoped(verify.found, "package", verify.target), verify.packages, verify.locks),
                             policy, installed)
    BY <1>0, <1>1, <1>4, RecipeComesFrom DEF Recipe
  <2> DEFINE manager == ManagerOf(r.dir, Scoped(verify.found, "package", verify.target), verify.packages, verify.locks)
  <2>2. Resolved(manager) /\ r = Recipe("package", r.dir, "test", manager, policy, installed) /\ r.exe = manager
    <3> HIDE DEF r
    <3>1. Resolved(manager)
      BY <1>0, <2>1 DEF PackageRecipe
    <3> QED BY <2>1, <3>1 DEF PackageRecipe, Recipe
  <2>3. r.dir \in DOMAIN verify.packages
    BY <1>0, <2>1 DEF RecipesDerived
  <2>4. PICK p \in during : r.dir \in DOMAIN p.packages /\ verify.packages[r.dir] = p.packages[r.dir]
    BY <1>0, <2>3 DEF PackagesRead
  <2>5. p.packages[r.dir] \in Managers \union {"none"}
    BY <1>0, <2>4 DEF VerifyTypeOK, Projects
  <2>6. manager \in {Resolve(verify.packages[r.dir], verify.locks),
                     ResolveNested(verify.packages[r.dir], verify.locks,
                                   RootManager(Scoped(verify.found, "package", verify.target), verify.packages, verify.locks))}
    BY <2>1 DEF ManagerOf, RootManager
  <2>7. p.packages[r.dir] # "none" => manager = p.packages[r.dir]
    BY <2>2, <2>4, <2>5, <2>6, ManagerIsNamed DEF Resolved
  <2>8. policy.process /\ (policy.dynamic \/ r.exe \in policy.names)
    <3> HIDE DEF r, manager
    <3> QED BY <1>0, <2>2, AllowedIsAllowed
  <2> QED BY <1>0, <1>3, <1>4, <2>2, <2>4, <2>5, <2>7, <2>8
<1>5. CASE r.kind = "cargo"
  <2>1. r.dir \in Scoped(verify.found, "cargo", verify.target) /\ r = Recipe("cargo", r.dir, r.name, "cargo", policy, installed)
    BY <1>0, <1>1, <1>5, RecipeComesFrom DEF Recipe
  <2>2. r.exe = "cargo"
    <3> HIDE DEF r
    <3> QED BY <2>1 DEF Recipe
  <2>3. policy.process /\ (policy.dynamic \/ r.exe \in policy.names)
    <3> HIDE DEF r
    <3> QED BY <1>0, <2>1, <2>2, AllowedIsAllowed
  <2>4. \E p \in during : r.dir \in p.cargo
    BY <1>0, <2>1 DEF Scoped, TreeRead, Manifests
  <2> QED BY <1>0, <1>3, <1>5, <2>3, <2>4
<1>6. CASE r.kind \notin {"package", "cargo"}
  <2>1. PICK c \in verify.config : r = Recipe("config", <<>>, c.key, c.exe, policy, installed)
    BY <1>0, <1>1, <1>6, RecipeComesFrom
  <2>2. r.name = c.key /\ r.exe = c.exe
    <3> HIDE DEF r
    <3> QED BY <2>1 DEF Recipe
  <2>3. policy.process /\ (policy.dynamic \/ r.exe \in policy.names)
    <3> HIDE DEF r
    <3> QED BY <1>0, <2>1, <2>2, AllowedIsAllowed
  <2>4. PICK p \in during : p.config \notin {NoConfig, BadConfig} /\ verify.config = p.config
    BY <1>0, <2>1 DEF ConfigRead
  <2>5. c = [key |-> c.key, exe |-> c.exe]
    BY <1>0, <2>1, <2>4, ConfigAssumption DEF VerifyTypeOK, Projects
  <2>6. [key |-> r.name, exe |-> r.exe] \in p.config
    BY <2>1, <2>2, <2>4, <2>5
  <2> QED BY <1>0, <1>3, <1>6, <2>3, <2>4, <2>6
<1> QED BY <1>4, <1>5, <1>6

(* Narrowing a list to a target leaves out recipes and changes none.       *)
LEMMA ListIsPartOfAll ==
  ASSUME VerifyInv, Lists, during = {project}
  PROVE  LET all == Recipes(Manifests(project), project.packages, project.locks, verify.config, policy,
                            Managers \union {"cargo"}, NoTarget)
         IN \A r \in verify.recipes : r.status = "allowed" => r \in all
<1>0. /\ VerifyTypeOK /\ RecipesDerived /\ verify.at # "idle"
      /\ verify.locks = project.locks /\ verify.found = Manifests(project)
      /\ \A d \in DOMAIN verify.packages : d \in DOMAIN project.packages /\ verify.packages[d] = project.packages[d]
  BY DEF VerifyInv, Lists, LocksRead, TreeRead, PackagesRead
<1> DEFINE near(kind) == Scoped(verify.found, kind, verify.target)
           whole(kind) == Scoped(Manifests(project), kind, NoTarget)
           all == Recipes(Manifests(project), project.packages, project.locks, verify.config, policy,
                          Managers \union {"cargo"}, NoTarget)
<1>1. PICK installed \in {{}, Managers \union {"cargo"}} : verify.recipes =
        Recipes(verify.found, verify.packages, verify.locks, verify.config, policy, installed, verify.target)
  BY <1>0 DEF RecipesDerived
<1>2. SUFFICES ASSUME NEW r \in verify.recipes, r.status = "allowed" PROVE r \in all
  OBVIOUS
<1>3. \A kind : near(kind) \subseteq whole(kind)
  BY <1>0 DEF Scoped
<1>4. \A kind, dir, name, exe : r = Recipe(kind, dir, name, exe, policy, installed) =>
        r = Recipe(kind, dir, name, exe, policy, Managers \union {"cargo"})
  <2> SUFFICES ASSUME NEW kind, NEW dir, NEW name, NEW exe, r = Recipe(kind, dir, name, exe, policy, installed)
               PROVE  installed = Managers \union {"cargo"}
    OBVIOUS
  <2>1. exe \in installed
    BY <1>2, AllowedIsAllowed
  <2> QED BY <1>1, <2>1
<1>5. CASE r.kind = "package" /\ r.dir \in near("package")
           /\ r = PackageRecipe(r.dir, ManagerOf(r.dir, near("package"), verify.packages, verify.locks), policy, installed)
  <2>1. <<>> \in near("package") <=> <<>> \in whole("package")
    <3>1. CASE verify.target = NoTarget
      BY <1>0, <3>1
    <3>2. CASE verify.target # NoTarget
      <4>1. "package" \in ActiveKinds(verify.found, verify.target)
        BY <1>5, <3>2 DEF Scoped
      <4>2. verify.target \in Seq(STRING)
        BY <1>0, <3>2, DirAssumption DEF VerifyTypeOK
      <4>3. Around(<<>>, verify.target)
        BY <4>2 DEF Around, IsPrefix
      <4> QED BY <1>0, <4>1, <4>3 DEF Scoped
    <3> QED BY <3>1, <3>2
  <2>2. near("package") = DOMAIN verify.packages
    BY <1>0 DEF RecipesDerived
  <2>3. ManagerOf(r.dir, near("package"), verify.packages, verify.locks)
          = ManagerOf(r.dir, whole("package"), project.packages, project.locks)
    BY <1>0, <1>5, <2>1, <2>2 DEF ManagerOf, RootManager
  <2> DEFINE manager == ManagerOf(r.dir, whole("package"), project.packages, project.locks)
  <2>4. r = PackageRecipe(r.dir, manager, policy, installed)
    BY <1>5, <2>3
  <2>5. r = PackageRecipe(r.dir, manager, policy, Managers \union {"cargo"})
    <3> HIDE DEF manager
    <3>1. Resolved(manager)
      BY <1>2, <2>4 DEF PackageRecipe
    <3> QED BY <1>4, <2>4, <3>1 DEF PackageRecipe
  <2>6. r.dir \in whole("package")
    BY <1>3, <1>5
  <2> HIDE DEF whole, near
  <2>7. r \in PackageRecipes(whole("package"), project.packages, project.locks, policy, Managers \union {"cargo"})
    BY <2>5, <2>6 DEF PackageRecipes
  <2> QED BY <2>7 DEF Recipes, whole
<1>6. CASE r.kind = "cargo" /\ r.dir \in near("cargo") /\ r.name \in {"test", "check", "fmt-check"}
           /\ (r.name = "fmt-check" => r.dir = <<>>) /\ r = Recipe("cargo", r.dir, r.name, "cargo", policy, installed)
  <2>1. r = Recipe("cargo", r.dir, r.name, "cargo", policy, Managers \union {"cargo"})
    BY <1>4, <1>6
  <2>2. r.dir \in whole("cargo")
    BY <1>3, <1>6
  <2> HIDE DEF whole, near
  <2>3. r \in CargoRecipes(whole("cargo"), policy, Managers \union {"cargo"})
    BY <1>6, <2>1, <2>2, CargoRecipesAre
  <2> QED BY <2>3 DEF Recipes, whole
<1>7. CASE \E c \in verify.config : r = Recipe("config", <<>>, c.key, c.exe, policy, installed)
  <2>1. r \in ConfiguredRecipes(verify.config, policy, Managers \union {"cargo"})
    BY <1>4, <1>7 DEF ConfiguredRecipes
  <2> QED BY <2>1 DEF Recipes
<1> QED
  BY <1>1, <1>5, <1>6, <1>7, RecipeComesFrom

(* What verify.run starts is one recipe, allowed by the policy, written in *)
(* a file that was there during the call; what a narrowed list shows, the  *)
(* full list shows: for any directories, managers, configurations and      *)
(* policies, however often the files change between the reads.             *)
THEOREM VerifyRunsWhatItSaw == VerifySpec => []VerifyRunsWhatIsThere
<1>1. VerifyInit => VerifyInv
  BY DEF VerifyInit, VerifyInv, VerifyTypeOK, NoVerify, Deriving, Derived, Lists, Running
<1>2. VerifyInv /\ [VerifyNext]_verifyVars => VerifyInv'
  <2>1. CASE VerifyNext
    BY <2>1, VerifyStays
  <2>2. CASE UNCHANGED verifyVars
    BY <2>2 DEF verifyVars, VerifyInv, VerifyTypeOK, LocksRead, TreeRead, ConfigRead, PackagesRead, RecipesDerived, Lists, Running
  <2> QED BY <2>1, <2>2
<1>3. VerifyInv => VerifyRunsWhatIsThere
  <2> SUFFICES ASSUME VerifyInv PROVE VerifyRunsWhatIsThere
    OBVIOUS
  <2>1. /\ verify.op = "run" /\ (verify.at \in {"source", "start"} \/ verify.answer = "ok") => Running
        /\ verify.op = "list" /\ verify.answer = "ok" => Lists
    BY DEF VerifyInv, VerifyTypeOK, Running, Lists
  <2> QED BY <2>1, RunIsThere, ListIsPartOfAll DEF VerifyRunsWhatIsThere
<1> QED
  BY <1>1, <1>2, <1>3, PTL DEF VerifySpec

=============================================================================
