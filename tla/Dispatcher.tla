----------------------------- MODULE Dispatcher -----------------------------
(***************************************************************************)
(* The requests of the Rust dispatcher that work in a workspace: the file  *)
(* operations, which run to their end under the mutex of the workspace     *)
(* registry, and the Git operations, which take the mutex only to look at  *)
(* the phase and to duplicate the root descriptor and then run a list of   *)
(* sandboxed commands with no lock held.  Every request is a task of its   *)
(* own; the phases of the workspaces and their policies move meanwhile.    *)
(*                                                                         *)
(* process.run and its relatives are in ProcessRuntime, the sink behind    *)
(* `audit' in AuditSink, the phases in WorkspaceLifecycle.                 *)
(***************************************************************************)
EXTENDS Naturals, Sequences

CONSTANTS
  Requests,   \* request ids; one task each
  Caps,       \* workspace capabilities
  NoRequest

ASSUME NoRequestAssumption == NoRequest \notin Requests

VARIABLES
  phase,        \* WorkspacePhase of each capability, "gone" once unregistered
  policy,       \* what its effective policy grants
  lock,         \* the request that holds the registry mutex, or NoRequest
  audit,        \* the sink's sticky health
  kind,         \* the method family of a request
  target,       \* the capability it names
  pc,           \* its progress
  command,      \* the command of its list it is at
  child,        \* its sandboxed Git child
  executions,   \* requests with a record in the ExecutionRegistry
  decided,      \* requests whose decision is in the audit log
  outcome,      \* the outcome in the audit log
  result        \* what its last piece of work ended with

workspaceVars == <<phase, policy>>
requestVars   == <<kind, target>>
gitVars       == <<command, child, executions>>
vars == <<workspaceVars, lock, audit, requestVars, pc, gitVars, decided, outcome, result>>

-----------------------------------------------------------------------------
(* The request families and the Git commands they run                      *)

FileKinds == {"read", "write"}
GitKinds  == {"inspect", "history", "checkpointPatch", "mutate", "worktree", "remote"}
Kinds     == FileKinds \union GitKinds

Grants == {"write", "trusted", "network"}

(* What the policy has to grant: mutation_allowed for a file, the tests that *)
(* follow clone_ready_policy for Git.                                      *)
Needs(k) == CASE k = "write"                 -> {"write"}
              [] k \in {"mutate", "worktree"} -> {"write", "trusted"}
              [] k = "remote"                -> Grants
              [] OTHER                       -> {}

(* Git mutations read the policy before they record a decision.            *)
AsksFirst(k) == k \in {"mutate", "worktree", "remote"}

(* "probe" stands for the untimed configuration probe, "show" and "check" for *)
(* untimed read-only commands, "query" for timed read-only ones, "change"  *)
(* for timed commands on a writable mount.                                 *)
CommandsOf(k) == CASE k = "inspect"         -> <<"probe", "show">>
                   [] k = "history"         -> <<"query", "query">>
                   [] k = "checkpointPatch" -> <<"probe", "check", "check">>
                   [] k = "mutate"          -> <<"probe", "change">>
                   [] k = "worktree"        -> <<"probe", "check", "change", "check">>
                   [] k = "remote"          -> <<"probe", "query", "change", "change">>
                   [] OTHER                 -> <<>>

Mode(r)   == CommandsOf(kind[r])[command[r]]
IsLast(r) == command[r] = Len(CommandsOf(kind[r]))

OnlyQueriesTimed(mode) == mode = "query"
Timed(mode) == mode \in {"query", "change"}

(* A command of git.status, git.diff, a local or a remote mutation that exits *)
(* with an error is an answer; elsewhere it is an error.                    *)
IsAnAnswer(k, mode) == mode = "show" \/ (mode = "change" /\ k # "worktree")

-----------------------------------------------------------------------------
Answers == {"ok", "error", "auditUnavailable"}
Stages  == {"idle", "received", "permitted", "decided", "inside", "launching",
            "launched", "header", "capturing", "reporting", "failing"} \union Answers

TypeOK ==
  /\ phase \in [Caps -> {"opening", "ready", "closing", "gone"}]
  /\ policy \in [Caps -> SUBSET Grants]
  /\ lock \in Requests \union {NoRequest}
  /\ audit \in {"healthy", "broken"}
  /\ kind \in [Requests -> Kinds]
  /\ target \in [Requests -> Caps]
  /\ pc \in [Requests -> Stages]
  /\ command \in [Requests -> 1 .. 4]
  /\ child \in [Requests -> {"none", "running", "exitedOk", "exitedBad", "reaped"}]
  /\ executions \subseteq Requests
  /\ decided \subseteq Requests
  /\ outcome \in [Requests -> {"none", "success", "failed"}]
  /\ result \in [Requests -> {"none", "ok", "bad"}]

Init ==
  /\ phase = [c \in Caps |-> "opening"]
  /\ policy = [c \in Caps |-> Grants]
  /\ lock = NoRequest
  /\ audit = "healthy"
  /\ kind \in [Requests -> Kinds]
  /\ target \in [Requests -> Caps]
  /\ pc = [r \in Requests |-> "idle"]
  /\ command = [r \in Requests |-> 1]
  /\ child = [r \in Requests |-> "none"]
  /\ executions = {}
  /\ decided = {}
  /\ outcome = [r \in Requests |-> "none"]
  /\ result = [r \in Requests |-> "none"]

-----------------------------------------------------------------------------
(* The workspaces and the sink, moved by requests of other modules          *)

SetPhase(c, p) ==
  /\ lock = NoRequest
  /\ phase' = [phase EXCEPT ![c] = p]
  /\ UNCHANGED <<policy, lock, audit, requestVars, pc, gitVars, decided, outcome, result>>

Activate(c)   == phase[c] = "opening" /\ SetPhase(c, "ready")
BeginClose(c) == phase[c] = "ready" /\ SetPhase(c, "closing")
Unregister(c) == phase[c] \in {"opening", "closing"} /\ SetPhase(c, "gone")

NarrowableWhenReady(c) == phase[c] \in {"opening", "ready"}

(* restrict_policy_with serves a workspace that is still opening.          *)
Narrowable(c) == phase[c] = "opening"

RestrictPolicy(c) ==
  /\ lock = NoRequest /\ Narrowable(c)
  /\ \E granted \in SUBSET policy[c] : policy' = [policy EXCEPT ![c] = granted]
  /\ UNCHANGED <<phase, lock, audit, requestVars, pc, gitVars, decided, outcome, result>>

AuditBreaks ==
  /\ audit = "healthy"
  /\ audit' = "broken"
  /\ UNCHANGED <<workspaceVars, lock, requestVars, pc, gitVars, decided, outcome, result>>

-----------------------------------------------------------------------------
(* Admission                                                               *)

Move(r, from, to) == pc[r] = from /\ pc' = [pc EXCEPT ![r] = to]

Receive(r) ==
  /\ Move(r, "idle", "received")
  /\ UNCHANGED <<workspaceVars, lock, audit, requestVars, gitVars, decided, outcome, result>>

Ready(r)   == phase[target[r]] = "ready"
Granted(r) == Needs(kind[r]) \subseteq policy[target[r]]

(* The unaudited look at the policy that opens a Git mutation; a remote    *)
(* mutation may also be refused here for the names it was given.           *)
AskPolicy(r) ==
  /\ AsksFirst(kind[r]) /\ lock = NoRequest
  /\ \/ Ready(r) /\ Granted(r) /\ Move(r, "received", "permitted")
     \/ (kind[r] = "remote" \/ ~(Ready(r) /\ Granted(r))) /\ Move(r, "received", "error")
  /\ UNCHANGED <<workspaceVars, lock, audit, requestVars, gitVars, decided, outcome, result>>

(* The durable decision that precedes every effect.                        *)
Decide(r) ==
  /\ Move(r, IF AsksFirst(kind[r]) THEN "permitted" ELSE "received",
             IF audit = "healthy" THEN "decided" ELSE "auditUnavailable")
  /\ decided' = IF audit = "healthy" THEN decided \union {r} ELSE decided
  /\ UNCHANGED <<workspaceVars, lock, audit, requestVars, gitVars, outcome, result>>

-----------------------------------------------------------------------------
(* File operations: the closure of audited_workspace_operation             *)

LetGo(r) == NoRequest

(* The guard of the registry mutex lives until the closure has returned.   *)
HeldBy(r) == r

Enter(r) ==
  /\ kind[r] \in FileKinds /\ lock = NoRequest
  /\ IF Ready(r) /\ Granted(r)
     THEN Move(r, "decided", "inside") /\ lock' = HeldBy(r)
     ELSE Move(r, "decided", "failing") /\ lock' = lock
  /\ UNCHANGED <<workspaceVars, audit, requestVars, gitVars, decided, outcome, result>>

Leave(r) ==
  /\ \/ Move(r, "inside", "reporting") /\ result' = [result EXCEPT ![r] = "ok"]
     \/ Move(r, "inside", "failing") /\ result' = [result EXCEPT ![r] = "bad"]
  /\ lock' = NoRequest
  /\ UNCHANGED <<workspaceVars, audit, requestVars, gitVars, decided, outcome>>

-----------------------------------------------------------------------------
(* Git operations: root descriptor, then one sandboxed command after another *)

(* duplicate_ready_root looks at the phase a last time; the policy was read *)
(* before, and nothing is looked at again.                                 *)
DuplicateRoot(r) ==
  /\ kind[r] \in GitKinds /\ lock = NoRequest
  /\ Move(r, "decided", IF Ready(r) THEN "launching" ELSE "failing")
  /\ UNCHANGED <<workspaceVars, lock, audit, requestVars, gitVars, decided, outcome, result>>

(* The two patches of git.checkpoint_patch share a writer, opened for the  *)
(* first of them, and each is preceded by a header.                        *)
StagedPatch(r)   == kind[r] = "checkpointPatch" /\ command[r] = 2
WorktreePatch(r) == kind[r] = "checkpointPatch" /\ command[r] = 3

(* Discovery of the sandbox, its start and the registration of the child.  *)
Launch(r) ==
  /\ \/ /\ Move(r, "launching", IF WorktreePatch(r) THEN "capturing" ELSE "launched")
        /\ child' = [child EXCEPT ![r] = "running"]
        /\ executions' = executions \union {r}
     \/ /\ Move(r, "launching", "failing")
        /\ UNCHANGED <<child, executions>>
  /\ UNCHANGED <<workspaceVars, lock, audit, requestVars, command, decided, outcome, result>>

StillRegistered(r) == executions

(* remove_execution                                                        *)
Deregistered(r) == executions \ {r}

(* Kills and reaps the process group, and takes the record back.           *)
Terminate(r) ==
  /\ child' = [child EXCEPT ![r] = "reaped"]
  /\ executions' = Deregistered(r)

CreateSpool(r) ==
  /\ \/ /\ Move(r, "launched", IF StagedPatch(r) THEN "header" ELSE "capturing")
        /\ UNCHANGED <<child, executions>>
     \/ Move(r, "launched", "failing") /\ Terminate(r)
  /\ UNCHANGED <<workspaceVars, lock, audit, requestVars, command, decided, outcome, result>>

(* The staged header that cannot be written is the one early return that   *)
(* leaves the record in place and the child to whatever ends it: with its  *)
(* handle goes the thread it was started from, which takes the child with  *)
(* it (ChildExits; bubblewrap.rs:376-394), unreaped.                       *)
WriteHeader(r) ==
  /\ Move(r, "header", "capturing") \/ Move(r, "header", "failing")
  /\ UNCHANGED <<workspaceVars, lock, audit, requestVars, gitVars, decided, outcome, result>>

(* "exitedOk" is an exit the caller goes on with: 0, or a probe's 1 with an *)
(* empty output.                                                           *)
ChildExits(r) ==
  /\ child[r] = "running"
  /\ \E exit \in {"exitedOk", "exitedBad"} : child' = [child EXCEPT ![r] = exit]
  /\ UNCHANGED <<workspaceVars, lock, audit, requestVars, pc, command, executions, decided,
                 outcome, result>>

AfterExit(r) == IF child[r] = "exitedOk"
                THEN IF IsLast(r) THEN "reporting" ELSE "launching"
                ELSE IF IsAnAnswer(kind[r], Mode(r)) THEN "reporting" ELSE "failing"

(* Both pipes at their end, the child reaped and its output understood; the *)
(* artifact's last sync or the parser may fail.                            *)
Capture(r) ==
  /\ child[r] \in {"exitedOk", "exitedBad"}
  /\ \E next \in {AfterExit(r), "failing"} : Move(r, "capturing", next)
  /\ Terminate(r)
  /\ command' = IF pc'[r] = "launching" THEN [command EXCEPT ![r] = @ + 1] ELSE command
  /\ result' = [result EXCEPT ![r] = IF child[r] = "exitedOk" /\ pc'[r] # "failing"
                                     THEN "ok" ELSE "bad"]
  /\ UNCHANGED <<workspaceVars, lock, audit, requestVars, decided, outcome>>

Stop(r, next) ==
  /\ Move(r, "capturing", next)
  /\ Terminate(r)
  /\ result' = [result EXCEPT ![r] = "bad"]
  /\ UNCHANGED <<workspaceVars, lock, audit, requestVars, command, decided, outcome>>

(* A pipe, the spool or wait() fails, or a query exceeds its output limit.  *)
CaptureFails(r) == Stop(r, "failing")

TimesOut(r) == pc[r] = "capturing" /\ Timed(Mode(r)) /\ child[r] = "running" /\ Stop(r, "failing")

(* A mutation whose output is cut off is killed and counts as exit status 1. *)
Overflows(r) ==
  /\ pc[r] = "capturing" /\ Mode(r) = "change" /\ child[r] = "running"
  /\ Stop(r, IF IsAnAnswer(kind[r], "change") THEN "reporting" ELSE "failing")

-----------------------------------------------------------------------------
(* The outcome and the answer                                              *)

SuccessAnyway(r) == "success"

OutcomeOf(r) == IF result[r] = "ok" THEN "success" ELSE "failed"

Answer(r, from, answer, recorded) ==
  /\ Move(r, from, IF audit = "healthy" THEN answer ELSE "auditUnavailable")
  /\ outcome' = IF audit = "healthy" THEN [outcome EXCEPT ![r] = recorded] ELSE outcome
  /\ UNCHANGED <<workspaceVars, lock, audit, requestVars, gitVars, decided, result>>

Report(r) == Answer(r, "reporting", "ok", OutcomeOf(r))
Fail(r)   == Answer(r, "failing", "error", "failed")

-----------------------------------------------------------------------------
TaskStep(r) ==
  \/ AskPolicy(r) \/ Decide(r) \/ Enter(r) \/ Leave(r) \/ DuplicateRoot(r) \/ Launch(r)
  \/ CreateSpool(r) \/ WriteHeader(r) \/ Capture(r) \/ Report(r) \/ Fail(r)

Next ==
  \/ AuditBreaks
  \/ \E c \in Caps : Activate(c) \/ BeginClose(c) \/ Unregister(c) \/ RestrictPolicy(c)
  \/ \E r \in Requests : \/ Receive(r) \/ TaskStep(r) \/ ChildExits(r)
                         \/ TimesOut(r) \/ Overflows(r) \/ CaptureFails(r)

(* Tasks are scheduled, deadlines fire, and a local command without a      *)
(* deadline ends by itself; one with a deadline need not, and no workspace *)
(* has to be opened or closed.                                             *)
Fairness ==
  \A r \in Requests :
    /\ WF_vars(TaskStep(r))
    /\ WF_vars(TimesOut(r))
    /\ WF_vars(pc[r] = "capturing" /\ Mode(r) \in {"probe", "show", "check"} /\ ChildExits(r))

Safety == Init /\ [][Next]_vars
Spec   == Safety /\ Fairness

-----------------------------------------------------------------------------
Answered(r) == pc[r] \in Answers

(* Once begin_close has been answered no file operation is at work in the  *)
(* workspace: phase check and operation are under one hold of the registry *)
(* mutex (dispatcher.rs:1769, registry.rs:516).                            *)
FileWorkStopsAtClose == \A r \in Requests : pc[r] = "inside" => Ready(r)

(* Whatever changes the workspace was granted by the policy the runtime    *)
(* holds for it at that moment, although a Git mutation read it several    *)
(* sections of the mutex before (dispatcher.rs:2053, registry.rs:468).     *)
Changing(r) == \/ pc[r] = "inside" /\ kind[r] = "write"
               \/ pc[r] \in {"launched", "capturing"} /\ Mode(r) = "change"

ChangesAreGranted == \A r \in Requests : Changing(r) => Granted(r)

(* Every way out of a Git command reaps its child and removes its record,  *)
(* and a living child is on record, for all but the exit of                *)
(* run_git_checkpoint_patch that WriteHeader describes (git.rs:2218-2306). *)
GitLeavesNothing ==
  \A r \in Requests :
    /\ child[r] \notin {"none", "reaped"} => r \in executions
    /\ Answered(r) /\ ~StagedPatch(r) => child[r] \in {"none", "reaped"} /\ r \notin executions

(* The log tells what happened: work only after its decision, a success    *)
(* recorded only for work that ended well, and no answer but               *)
(* AUDIT_UNAVAILABLE for a decided request without its outcome             *)
(* (dispatcher.rs:1741-1796, 2138-2157, 3523-3535).                        *)
LogTellsTheTruth ==
  \A r \in Requests :
    /\ result[r] # "none" \/ child[r] # "none" => r \in decided
    /\ outcome[r] = "success" => result[r] = "ok"
    /\ pc[r] = "ok" => outcome[r] # "none" /\ (outcome[r] = "failed" => result[r] = "bad")
    /\ pc[r] = "error" /\ r \in decided => outcome[r] = "failed"

(* Every request that was received is answered: no lock is kept, and the   *)
(* commands that may take long have deadlines (git.rs:34, git_history.rs:30). *)
EveryRequestEnds == \A r \in Requests : pc[r] = "received" ~> Answered(r)
=============================================================================
