----------------------------- MODULE ToolSurface -----------------------------
(***************************************************************************)
(* The MCP tools: what registerKodegptTools (mcp-server/src/tools.ts)      *)
(* tells the client of each (its annotations), which methods its handler   *)
(* calls in which order (createKodegptToolContext, NativeCapabilityService,*)
(* WorkspaceManager), and what becomes of a result that arrives late, not  *)
(* at all, or not in the form its schema wants.  The workspace may be      *)
(* closed between any two steps, and a browser session may turn out to     *)
(* show another page than the one it was opened for: it is closed then.    *)
(***************************************************************************)
EXTENDS Naturals, Sequences, SequencesExt

VARIABLES
  ready,   \* the workspace is READY
  profile, \* its effective profile
  use      \* the tool call

toolVars == <<ready, profile, use>>

-----------------------------------------------------------------------------
(* annotations.ts.                                                         *)
CaptureIsReading == {"ReadOnly", "CiRead", "GitHubRead", "BrowserRead", "BrowserCapture"}    \* mutant
ReadOnlyHints    == {"ReadOnly", "CiRead", "GitHubRead", "BrowserRead"}
Hints(h) ==
  [readOnly    |-> h \in ReadOnlyHints,
   destructive |-> h \in {"Lifecycle", "MutatingFile", "LocalGit", "CiCancel", "GitHubMerge", "RemoteGit",
                          "ProcessRun", "ProcessCancel", "BrowserInteraction"},
   openWorld   |-> h \in {"CiRead", "CiMutation", "CiCancel", "GitHubRead", "GitHubCreate", "GitHubMerge", "GitFetch",
                          "RemoteGit", "ProcessRun", "BrowserSession", "BrowserCapture", "BrowserInteraction", "BrowserRead"}]

(* The methods.                                                            *)
FileMethods      == {"readFile", "pathIdentity", "treeBounded", "searchBounded"}
FileChanges      == {"writeFile", "editFile", "commitPatchFile"}
GitReads         == {"gitStatus", "gitDiff", "gitCheckpoint", "gitCheckpointPatch", "gitHistory",
                     "inspectGitRepositoryIdentity", "auditRemoteCi"}
GitLocalChanges  == {"gitStage", "gitCommit", "gitBranchCreate", "gitBranchSwitch", "gitBranchDelete",
                     "gitWorktreeCreate", "gitWorktreeRemove"}
GitRemoteChanges == {"gitFetch", "gitPull", "gitPush"}
ProcessMethods   == {"inspectExecutable", "processStatus", "processCancel", "runProcess", "runVerificationProcess"}
WorkspaceMethods == {"listWorkspaces", "listTrustedWorkspaces", "workspaceInfo", "requireReady", "openWorkspace",
                     "trustWorkspace", "untrustWorkspace", "closeWorkspace", "checkpointWorkspace"}
SessionMethods   == {"openSession", "readSession", "actSession", "captureSession", "releaseSession", "probe", "artifactRead"}
RemoteMethods    == {"ciRead", "ciRerun", "ciDispatch", "ciCancel", "githubRead", "githubCreate", "githubMerge"}
LocalMethods     == {"skillCatalog", "system"}

(* What a method does besides reading: it changes a file, the index, trust,*)
(* a session or a process, takes away what was there, lets a program run,  *)
(* or asks a remote service.                                               *)
Changing == FileChanges \union GitLocalChanges \union GitRemoteChanges
              \union {"processCancel", "openWorkspace", "trustWorkspace", "untrustWorkspace", "closeWorkspace",
                      "checkpointWorkspace", "openSession", "actSession", "captureSession", "releaseSession"}
              \union (RemoteMethods \ {"ciRead", "githubRead"})
Removing == FileChanges \union {"processCancel", "untrustWorkspace", "closeWorkspace", "actSession", "ciCancel"}
Running  == {"runProcess", "runVerificationProcess"}
Asking   == GitRemoteChanges \union RemoteMethods \union {"actSession"}

(* What each is called when a tool has done it.                            *)
Does == [changes |-> Changing, removes |-> Removing, runs |-> Running, remote |-> Asking]
Effects(method) == {effect \in DOMAIN Does : method \in Does[effect]}

(* Methods that first look whether the session still shows its preview     *)
(* (#requireLiveSession, openPreview) or has left its origin (inspect).    *)
SessionUsers      == {"openSession", "readSession", "actSession", "captureSession"}
UsesSession(tool) == ToSet(tool.plan) \intersect SessionUsers # {}

(* Methods that ask for a READY workspace when they are called.            *)
NeedsReady == FileMethods \union FileChanges \union GitReads \union GitLocalChanges \union GitRemoteChanges
                \union ProcessMethods \union {"workspaceInfo", "requireReady", "checkpointWorkspace", "closeWorkspace"}

-----------------------------------------------------------------------------
(* A tool: name, annotations, how errors are told, the methods it calls.   *)
T(name, hints, errors, plan) == [name |-> name, hints |-> hints, errors |-> errors, plan |-> plan]

ConsoleAndArtifacts == {
  T("console.state",          "ReadOnly",           "plain", <<"listWorkspaces", "system">>),
  T("artifact.read",          "ReadOnly",           "plain", <<"artifactRead">>)}

BrowserTools == {
  T("browser.openPreview",     "BrowserSession",     "browser", <<"processStatus", "probe", "openSession">>),
  T("browser.inspect",         "BrowserRead",        "browser", <<"processStatus", "probe", "readSession">>),
  T("browser.click",           "BrowserInteraction", "browser", <<"processStatus", "probe", "actSession">>),
  T("browser.type",            "BrowserInteraction", "browser", <<"processStatus", "probe", "actSession">>),
  T("browser.screenshot",      "BrowserCapture",     "browser", <<"processStatus", "probe", "captureSession">>),
  T("browser.console",         "BrowserRead",        "browser", <<"processStatus", "probe", "readSession">>),
  T("browser.networkFailures", "BrowserRead",        "browser", <<"processStatus", "probe", "readSession">>)}

VisualTools == {
  T("visual.captureMatrix", "BrowserCapture", "visual", <<"readSession", "captureSession", "captureSession", "captureSession">>),
  T("visual.compare",       "BrowserCapture", "visual", <<"artifactRead", "captureSession", "artifactRead">>)}

CiPlan(asks) == <<"inspectGitRepositoryIdentity", "auditRemoteCi", asks, "auditRemoteCi">>
CiTools == {
  T(name, "CiRead", "capability", CiPlan("ciRead")) :
     name \in {"ci.repository", "ci.status", "ci.runs", "ci.run", "ci.failure"}}
  \union {
  T("ci.rerun",    "CiMutation", "capability", CiPlan("ciRerun")),
  T("ci.cancel",   "CiCancel",   "capability", CiPlan("ciCancel")),
  T("ci.dispatch", "CiMutation", "capability", CiPlan("ciDispatch"))}

GitHubTools == {
  T(name, "GitHubRead", "capability", <<"githubRead">>) :
     name \in {"github.repository.inspect", "github.pr.feedback.inspect", "github.pr.inspect", "github.pr.list",
               "github.issue.inspect", "github.issue.list"}}
  \union {
  T("github.pr.create",         "GitHubCreate", "capability", <<"githubCreate">>),
  T("github.pr.feedback.reply", "GitHubCreate", "capability", <<"githubRead", "githubCreate">>),
  T("github.pr.merge",          "GitHubMerge",  "capability", <<"githubMerge">>)}

WorkspaceTools == {
  T("workspace.list",       "ReadOnly",  "plain", <<"listWorkspaces">>),
  T("trust.list",           "ReadOnly",  "plain", <<"listTrustedWorkspaces">>),
  T("workspace.open",       "Lifecycle", "plain", <<"openWorkspace">>),
  T("workspace.trust",      "Lifecycle", "plain", <<"trustWorkspace">>),
  T("workspace.untrust",    "Lifecycle", "plain", <<"untrustWorkspace">>),
  T("workspace.close",      "Lifecycle", "plain", <<"closeWorkspace", "releaseSession", "releaseSession">>),
  T("workspace.checkpoint", "Lifecycle", "checkpoint", <<"gitCheckpoint", "checkpointWorkspace">>),
  T("workspace.info",       "ReadOnly",  "plain", <<"workspaceInfo">>)}

InspectionTools == {
  T("workspace.inspect", "ReadOnly", "capability", <<"treeBounded", "readFile">>),
  T("code.search",       "ReadOnly", "capability", <<"searchBounded", "readFile">>),
  T("code.impact",       "ReadOnly", "capability", <<"treeBounded", "searchBounded", "readFile">>),
  T("context.build",     "ReadOnly", "capability", <<"treeBounded", "gitCheckpoint", "searchBounded", "readFile">>)}

(* context.build with the intent "resume" goes on (composeResumeSynthesis).*)
ResumeTool ==
  T("context.build resume", "ReadOnly", "capability",
    <<"treeBounded", "gitCheckpoint", "workspaceInfo", "gitHistory", "processStatus", "probe", "ciRead", "githubRead", "artifactRead">>)

FileTools == {
  T("file.edit",  "MutatingFile", "plain", <<"editFile">>),
  T("file.patch", "MutatingFile", "capability", <<"pathIdentity", "readFile", "commitPatchFile">>),
  T("file.read",  "ReadOnly",     "plain", <<"readFile">>),
  T("file.tree",  "ReadOnly",     "plain", <<"treeBounded">>),
  T("file.write", "MutatingFile", "plain", <<"writeFile">>)}

GitTools == {
  T("git.changes", "ReadOnly", "capability", <<"gitCheckpoint", "gitCheckpointPatch">>),
  T("git.diff",    "ReadOnly", "plain", <<"gitDiff">>),
  T("git.status",  "ReadOnly", "plain", <<"gitStatus">>)}
  \union {T(name, "ReadOnly", "capability", <<"gitHistory">>) :
            name \in {"git.log", "git.show", "git.range", "git.diffHistory"}}

GitChangeTools == {
  T("git.stage",          "LocalGit", "capability", <<"gitStage">>),
  T("git.commit",         "LocalGit", "capability", <<"gitCommit">>),
  T("git.branchCreate",   "LocalGit", "capability", <<"gitBranchCreate">>),
  T("git.branchSwitch",   "LocalGit", "capability", <<"gitBranchSwitch">>),
  T("git.branchDelete",   "LocalGit", "capability", <<"gitBranchDelete">>),
  T("git.worktreeCreate", "LocalGit", "capability", <<"gitWorktreeCreate">>),
  T("git.worktreeRemove", "LocalGit", "capability", <<"gitWorktreeRemove">>),
  T("git.fetch", "GitFetch",  "capability", <<"gitFetch">>),
  T("git.pull",  "RemoteGit", "capability", <<"gitPull">>),
  T("git.push",  "RemoteGit", "capability", <<"gitPush">>)}

ProcessTools == {
  T("verify.list",    "ReadOnly",      "capability", <<"pathIdentity", "treeBounded", "readFile", "inspectExecutable">>),
  T("verify.run",     "ProcessRun",    "capability",
    <<"pathIdentity", "treeBounded", "readFile", "inspectExecutable", "gitCheckpoint", "runVerificationProcess">>),
  T("process.run",    "ProcessRun",    "plain", <<"runProcess">>),
  T("process.status", "ReadOnly",      "plain", <<"processStatus">>),
  T("process.cancel", "ProcessCancel", "plain", <<"processCancel">>)}

PreviewTools == {
  T("preview.start",   "ProcessRun",    "preview", <<"runProcess", "processStatus", "probe">>),
  T("preview.inspect", "ReadOnly",      "preview", <<"processStatus", "probe">>),
  T("preview.stop",    "ProcessCancel", "preview", <<"releaseSession", "processStatus", "processCancel">>)}

ProfileAndSkillTools == {
  T("profile.current", "ReadOnly", "plain", <<"requireReady">>),
  T("profile.inspect", "ReadOnly", "plain", <<"system">>),
  T("skill.list",      "ReadOnly", "skill", <<"skillCatalog">>),
  T("skill.inspect",   "ReadOnly", "skill", <<"skillCatalog", "requireReady", "inspectExecutable">>),
  T("skill.load",      "ReadOnly", "skill", <<"skillCatalog">>)}

SystemTools == {
  T("system.capabilities", "ReadOnly", "plain", <<"system">>),
  T("system.discover",     "ReadOnly", "plain", <<"workspaceInfo", "skillCatalog", "inspectExecutable">>),
  T("system.health",       "ReadOnly", "plain", <<"system">>)}

Tools == ConsoleAndArtifacts \union BrowserTools \union VisualTools \union CiTools \union GitHubTools
           \union WorkspaceTools \union InspectionTools \union {ResumeTool} \union FileTools \union GitTools
           \union GitChangeTools \union ProcessTools \union PreviewTools \union ProfileAndSkillTools \union SystemTools

(* Results that are parsed by a schema before they are returned.           *)
CheckedInspections == {"workspace.inspect", "code.search", "code.impact", "context.build"}
CheckedGitResults  == {"git.changes", "git.log", "git.show", "git.range", "git.diffHistory", "file.patch"}
CheckedChanges     == {t.name : t \in GitChangeTools}
CheckedRuns        == {"verify.list", "verify.run"}
CheckedRemote      == {t.name : t \in CiTools \union GitHubTools}
CheckedVisual      == {"visual.captureMatrix", "visual.compare"}
CheckedWorkspace   == {"workspace.checkpoint", "workspace.info"}
CheckedResume      == {"context.build resume"}
Checked(tool) == tool.name \in CheckedInspections \union CheckedGitResults \union CheckedChanges \union CheckedRuns
                                \union CheckedRemote \union CheckedVisual \union CheckedWorkspace \union CheckedResume

(* Methods whose reply is looked at field by field by WorkspaceManager: a  *)
(* reply of another form is an error, whatever the runtime has done.       *)
FileReplies       == FileMethods \union FileChanges
CheckpointReplies == {"gitCheckpoint", "gitCheckpointPatch", "gitStatus", "gitDiff"}
HistoryReplies    == {"gitHistory"}
IdentityReplies   == {"inspectGitRepositoryIdentity", "auditRemoteCi"}
OperationReplies  == ProcessMethods \union GitLocalChanges \union GitRemoteChanges
MayBeLost(method) == method \in FileReplies \union CheckpointReplies \union HistoryReplies \union IdentityReplies
                                  \union OperationReplies \union WorkspaceMethods \union SessionMethods
                                  \union RemoteMethods

-----------------------------------------------------------------------------
Idle == [at |-> "idle", tool |-> SystemTools, step |-> 0, did |-> {}, changedWhen |-> {}, recorded |-> FALSE, says |-> "none"]

ToolInit == ready = TRUE /\ profile \in {"observe", "develop", "trusted"} /\ use = Idle

(* requireTrusted, requireTrustedRemote; writing and running are for the   *)
(* runtime to refuse.                                                      *)
TrustedOnly(method) == method \in GitLocalChanges \union GitRemoteChanges => profile = "trusted"
FileGate(method)    == method \in FileChanges => profile # "observe"
ProcessGate(method) == method \in {"runProcess", "runVerificationProcess"} => profile # "observe"
Authorized(method)  == TrustedOnly(method) /\ FileGate(method) /\ ProcessGate(method)

(* What the error that ends a call says: that it was refused, or that it   *)
(* failed and more may have happened.  The browser tools have one answer   *)
(* (BROWSER_PREVIEW_NOT_READY) for a workspace that is closed and for a    *)
(* session they have closed.                                               *)
GitChanging(tool) == ToSet(tool.plan) \intersect (GitLocalChanges \union GitRemoteChanges) # {}
Says(tool, why) ==
  CASE why \in {"input", "unavailable"}                                         -> "refused"
    [] why = "not_ready" /\ (tool.errors \in {"plain", "preview"} \/ GitChanging(tool)) -> "refused"
    [] why = "denied" /\ (tool.errors \in {"plain", "preview"} \/ GitChanging(tool)) -> "refused"
    [] OTHER                                                                     -> "failed"

Ends(says) == use' = [use EXCEPT !.at = "answered", !.says = says]

(* The arguments must fit the input schema; then the handler runs.         *)
UseTool ==
  /\ use.at = "idle"
  /\ \E tool \in Tools :
       \/ use' = [Idle EXCEPT !.at = "calling", !.tool = tool, !.step = 1]
       \/ use' = [Idle EXCEPT !.at = "answered", !.tool = tool, !.says = Says(tool, "input")]
  /\ UNCHANGED <<ready, profile>>

Method == use.tool.plan[use.step]
Admitted(method) == (method \in NeedsReady => ready) /\ Authorized(method)

(* The method has done its work; its reply is good, or it is lost, or it   *)
(* is not what the manager expects.                                        *)
DoStep ==
  /\ use.at = "calling" /\ use.step <= Len(use.tool.plan) /\ Admitted(Method)
  /\ LET did == [use EXCEPT !.did = @ \union Effects(Method),
                            !.changedWhen = IF Effects(Method) = {} THEN @ ELSE @ \union {<<Method, profile>>}]
     IN \/ use' = [did EXCEPT !.step = @ + 1]
        \/ MayBeLost(Method) /\ use' = [did EXCEPT !.at = "answered", !.says = Says(use.tool, "lost")]
  /\ ready' = IF Method = "closeWorkspace" THEN FALSE ELSE ready
  /\ UNCHANGED profile

StepRefused ==
  /\ use.at = "calling" /\ use.step <= Len(use.tool.plan)
  /\ \E why \in {"not_ready", "denied", "failed"} :
       /\ why = "not_ready" => Method \in NeedsReady /\ ~ready
       /\ why = "denied" => ~Authorized(Method)
       /\ Ends(Says(use.tool, why))
  /\ UNCHANGED <<ready, profile>>

(* The preview has another URL than the session was opened for, or its page*)
(* has left the origin: the session and its browser are closed, whatever   *)
(* the tool, and the call fails.                                           *)
SessionLost ==
  /\ use.at = "calling" /\ use.step <= Len(use.tool.plan) /\ Method \in SessionUsers
  /\ use' = [use EXCEPT !.did = @ \union {"closes"}, !.at = "answered", !.says = Says(use.tool, "lost")]
  /\ UNCHANGED <<ready, profile>>

(* A shorter way through the handler: a mode that does not change anything,*)
(* a search that needs no file.                                            *)
Skips(tool) == tool.name \in {"file.patch", "git.changes", "workspace.checkpoint", "code.search", "workspace.inspect", "context.build",
                              "context.build resume", "verify.list", "skill.inspect", "system.discover", "preview.stop"}
SkipStep ==
  /\ use.at = "calling" /\ use.step <= Len(use.tool.plan) /\ Skips(use.tool)
  /\ Method \notin {"releaseSession", "checkpointWorkspace"}
  /\ use' = [use EXCEPT !.step = @ + 1]
  /\ UNCHANGED <<ready, profile>>

(* The result is parsed by its schema and only then shown to the console.  *)
Result ==
  /\ use.at = "calling" /\ use.step > Len(use.tool.plan)
  /\ \/ use' = [use EXCEPT !.at = "answered", !.says = "ok", !.recorded = TRUE]
     \/ Checked(use.tool) /\ Ends(Says(use.tool, "invalid"))
  /\ UNCHANGED <<ready, profile>>

AgainIdle == use.at = "answered" /\ use' = Idle /\ UNCHANGED <<ready, profile>>

(* Another call closes the workspace, or opens it under another profile.   *)
OthersLifecycle ==
  /\ \/ ready /\ ready' = FALSE /\ UNCHANGED profile
     \/ ~ready /\ ready' = TRUE /\ profile' \in {"observe", "develop", "trusted"}
  /\ UNCHANGED use

ToolNext == UseTool \/ DoStep \/ StepRefused \/ SessionLost \/ SkipStep \/ Result \/ AgainIdle \/ OthersLifecycle

ToolSpec == ToolInit /\ [][ToolNext]_toolVars

-----------------------------------------------------------------------------
(* Whatever a tool has done by the time it answers, it is not more than    *)
(* its annotations say: a read-only tool has changed and run nothing, only *)
(* a destructive one has taken something away or run a program, and only   *)
(* an open-world one has asked a remote service - with two exceptions.     *)
(* context.build for a resume asks remote services; and a tool that uses a *)
(* browser session, a read-only one too (browser.inspect, browser.console, *)
(* browser.networkFailures), may have closed that session, but then it has *)
(* failed, has not said that it was refused, and has shown no result.      *)
(* Refused means that nothing was changed or closed, unless the tool ends a*)
(* preview or closes a workspace; and what needs the trusted profile was   *)
(* done under it.                                                          *)
ToolsKeepTheirWord ==
  use.at # "idle" =>
    LET hints == Hints(use.tool.hints) IN
      /\ hints.readOnly => use.did \intersect {"changes", "removes", "runs"} = {}
      /\ ~hints.destructive => use.did \intersect {"removes", "runs"} = {}
      /\ ~hints.openWorld => "remote" \notin use.did \/ use.tool = ResumeTool
      /\ "closes" \in use.did => UsesSession(use.tool) /\ use.says = "failed" /\ ~use.recorded
      /\ use.says = "refused" => "changes" \notin use.did \/ use.tool.name \in {"preview.stop", "workspace.close"}
      /\ \A done \in use.changedWhen : done[1] \in GitLocalChanges \union GitRemoteChanges => done[2] = "trusted"
      /\ use.recorded => use.says = "ok"
=============================================================================
