----------------------------- MODULE DevConsole -----------------------------
(***************************************************************************)
(* ConsoleStateStore and the tools that feed it: the developer console     *)
(* shows what tool calls happened to answer, nothing is read for it.  Each *)
(* call takes its answer from the server at one time and records it at a   *)
(* later one, and calls overlap; files, runs and the continuity checkpoint *)
(* go on changing.                                                         *)
(***************************************************************************)
EXTENDS Naturals, FiniteSets, Sequences

CONSTANTS
  Calls,     \* tool calls under way together
  MaxEdits,  \* bound: how often the files or the commit change
  MaxRuns    \* bound: runs of the one verification recipe

ASSUME EditsAssumption == MaxEdits \in Nat

VARIABLES
  source,      \* the workspace's source state: headOid and changesFingerprint
  runs,        \* the operations verify.run started, in order
  checkpoint,  \* whether there is a continuity checkpoint, and its status
  edits,       \* changes so far
  calls,       \* each call's answer, until it is recorded
  shown        \* what the console's maps hold

consoleVars == <<source, runs, checkpoint, edits, calls, shown>>

None == [kind |-> "none"]
Ended == {"completed", "cancelled"}
Sources == [headOid : 0..MaxEdits, changes : 0..MaxEdits]

ConsoleInit ==
  /\ source = [headOid |-> 0, changes |-> 0]
  /\ runs = <<>> /\ checkpoint = "none" /\ edits = 0
  /\ calls = [c \in Calls |-> None]
  /\ shown = [git |-> None, aged |-> FALSE, process |-> <<>>, verification |-> None, objective |-> "none"]

(* ------------------------------------------------------------- the server *)
Edit ==
  /\ edits < MaxEdits /\ edits' = edits + 1
  /\ \E part \in {"headOid", "changes"} : source' = [source EXCEPT ![part] = edits + 1]
  /\ UNCHANGED <<runs, checkpoint, calls, shown>>
RunEnds ==
  /\ \E i \in DOMAIN runs : /\ runs[i].state = "running"
                            /\ \E exit \in {0, 1} : runs' = [runs EXCEPT ![i].state = "completed", ![i].exitCode = exit]
  /\ UNCHANGED <<source, checkpoint, edits, calls, shown>>

(* ------------------------------------------ what each tool call answers *)
Answered(c, value) == calls[c] = None /\ calls' = [calls EXCEPT ![c] = value]

(* git.changes says which source state it saw; git.status does not.        *)
NotSaid == [headOid |-> 0, changes |-> 0]
GitChanges(c) ==
  /\ Answered(c, [kind |-> "git", known |-> TRUE, source |-> source, dirty |-> source.changes # 0])
  /\ UNCHANGED <<source, runs, checkpoint, edits, shown>>
GitStatus(c) ==
  /\ Answered(c, [kind |-> "git", known |-> FALSE, source |-> NotSaid, dirty |-> source.changes # 0])
  /\ UNCHANGED <<source, runs, checkpoint, edits, shown>>

(* verify.run: the source state is bound, then the run is started; in the  *)
(* background it is answered at once, else when it has ended.              *)
Bind(c) ==
  /\ Answered(c, [kind |-> "bound", source |-> source])
  /\ UNCHANGED <<source, runs, checkpoint, edits, shown>>
Verifying(c, i) == [kind |-> "verify", run |-> i, operation |-> runs'[i], source |-> calls[c].source]
Start(c) ==
  LET started == [state |-> "running", exitCode |-> 0, source |-> calls[c].source] IN
  /\ calls[c].kind = "bound" /\ Len(runs) < MaxRuns
  /\ runs' = Append(runs, started)
  /\ \E background \in BOOLEAN :
       calls' = [calls EXCEPT ![c] = IF background THEN Verifying(c, Len(runs) + 1)
                                     ELSE [kind |-> "waiting", run |-> Len(runs) + 1, source |-> calls[c].source]]
  /\ UNCHANGED <<source, checkpoint, edits, shown>>
Waited(c) ==
  /\ calls[c].kind = "waiting" /\ runs[calls[c].run].state \in Ended
  /\ calls' = [calls EXCEPT ![c] = [kind |-> "verify", run |-> calls[c].run, operation |-> runs[calls[c].run], source |-> calls[c].source]]
  /\ UNCHANGED <<source, runs, checkpoint, edits, shown>>

ProcessStatus(c) ==
  /\ \E i \in DOMAIN runs : Answered(c, [kind |-> "process", run |-> i, operation |-> runs[i]])
  /\ UNCHANGED <<source, runs, checkpoint, edits, shown>>

(* process.cancel answers what became of the operation: it may have ended  *)
(* by itself, or still be running when the grace periods are over.         *)
ProcessCancel(c) ==
  /\ \E i \in DOMAIN runs, dies \in BOOLEAN :
       /\ runs' = IF dies /\ runs[i].state = "running" THEN [runs EXCEPT ![i].state = "cancelled"] ELSE runs
       /\ Answered(c, [kind |-> "process", run |-> i, operation |-> runs'[i]])
  /\ UNCHANGED <<source, checkpoint, edits, shown>>

(* workspace.checkpoint, workspace.info and the resume of context.build.   *)
Checkpoint(c) ==
  /\ \E status \in {"none", "active", "blocked"} :
       /\ checkpoint' = status
       /\ Answered(c, [kind |-> "checkpoint", status |-> status])
  /\ UNCHANGED <<source, runs, edits, shown>>
Info(c) ==
  /\ Answered(c, [kind |-> "info", status |-> checkpoint])
  /\ UNCHANGED <<source, runs, checkpoint, edits, shown>>

(* ------------------------------------------------------------ the records *)
Recorded(c) == calls' = [calls EXCEPT ![c] = None] /\ UNCHANGED <<source, runs, checkpoint, edits>>

RecordGitStatus(c) ==
  /\ calls[c].kind = "git"
  /\ shown' = [shown EXCEPT !.git = calls[c], !.aged = FALSE]
  /\ Recorded(c)

(* recordProcessOperation: by operation, whatever was recorded before.     *)
WithProcess(process, run, state) == [i \in 1..Len(runs) |-> IF i = run THEN state ELSE IF i \in DOMAIN process THEN process[i] ELSE "none"]
AsAnswered(call)  == call.operation.state
AsAsked(call)     == IF call.kind = "process" THEN "cancelled" ELSE call.operation.state    \* mutant: cancel is taken at its word
StateIn(call) == AsAnswered(call)
RecordProcessOperation(c) ==
  /\ calls[c].kind = "process"
  /\ shown' = [shown EXCEPT !.process = WithProcess(@, calls[c].run, StateIn(calls[c]))]
  /\ Recorded(c)
RecordVerification(c) ==
  /\ calls[c].kind = "verify"
  /\ shown' = [shown EXCEPT !.process = WithProcess(@, calls[c].run, StateIn(calls[c])), !.verification = calls[c]]
  /\ Recorded(c)

(* Info without a checkpoint leaves the objective that is shown.           *)
RecordCheckpoint(c) ==
  /\ calls[c].kind \in {"checkpoint", "info"}
  /\ shown' = IF calls[c].kind = "info" /\ calls[c].status = "none" THEN shown ELSE [shown EXCEPT !.objective = calls[c].status]
  /\ Recorded(c)

(* CONSOLE_GIT_FRESH_MS pass without another look at the repository.       *)
GrowsOld ==
  /\ shown.git # None /\ shown' = [shown EXCEPT !.aged = TRUE]
  /\ UNCHANGED <<source, runs, checkpoint, edits, calls>>

ConsoleNext ==
  \/ Edit \/ RunEnds \/ GrowsOld
  \/ \E c \in Calls : \/ GitChanges(c) \/ GitStatus(c) \/ Bind(c) \/ Start(c) \/ Waited(c) \/ ProcessStatus(c) \/ ProcessCancel(c)
                      \/ Checkpoint(c) \/ Info(c)
                      \/ RecordGitStatus(c) \/ RecordProcessOperation(c) \/ RecordVerification(c) \/ RecordCheckpoint(c)
ConsoleSpec == ConsoleInit /\ [][ConsoleNext]_consoleVars

(* ----------------------------------------------------------- the snapshot *)
(* sourceFreshness: what evidence is worth, against the repository as it   *)
(* was last seen.                                                          *)
BothAgree(current, evidence) == current = evidence
HeadsAgree(current, evidence) == current.headOid = evidence.headOid    \* mutant: uncommitted changes do not count
SameSource(current, evidence) == BothAgree(current, evidence)
SourceFreshness(evidence) ==
  IF shown.git = None \/ shown.aged \/ ~shown.git.known THEN "unknown"
  ELSE IF SameSource(shown.git.source, evidence) THEN "fresh" ELSE "stale"

(* verificationItems and what nextActionHints makes of them.               *)
VerificationFreshness == IF shown.verification = None THEN "unknown" ELSE SourceFreshness(shown.verification.source)
HasFreshVerification ==
  /\ shown.verification # None
  /\ shown.verification.operation.state = "completed" /\ shown.verification.operation.exitCode = 0
  /\ VerificationFreshness = "fresh"
Dirty == shown.git # None /\ shown.git.dirty
NextActionHints ==
  (IF shown.objective = "blocked" THEN {"resolve-blocker"} ELSE {})
  \union (IF \E i \in DOMAIN shown.process : shown.process[i] = "running" THEN {"inspect-active-execution"} ELSE {})
  \union (IF (Dirty /\ ~HasFreshVerification) \/ VerificationFreshness = "stale" THEN {"verify-current-source"} ELSE {})

(* The console may lag, it never runs ahead: an operation it shows ended   *)
(* has ended that way; and a dirty workspace it does not ask to verify has *)
(* a run that passed, was started for exactly the source state the         *)
(* repository was last seen in, and that look is not yet old (state.ts     *)
(* recordProcessOperation, sourceFreshness, nextActionHints).              *)
ConsoleNeverRunsAhead ==
  /\ \A i \in DOMAIN shown.process : shown.process[i] \in Ended => runs[i].state = shown.process[i]
  /\ Dirty /\ "verify-current-source" \notin NextActionHints =>
       LET i == shown.verification.run IN
       /\ runs[i].state = "completed" /\ runs[i].exitCode = 0
       /\ ~shown.aged /\ runs[i].source = shown.git.source
=============================================================================
