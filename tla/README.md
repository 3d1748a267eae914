# KodeGPT in TLA+

KodeGPT is a local coding service: a Node server (MCP tools, CLI, managers) that
owns a sandboxed Rust runtime process and talks to it over framed JSON on the
child's stdin and stdout. This directory holds TLA+ models of it, small instances
TLC checks, and proofs that TLAPS checks for every value of the constants. Paths
below are relative to the repository.

Contents: [1 Inventory](#1-inventory), [2 What is modelled](#2-what-is-modelled),
[3 Runs](#3-runs), [4 Fairness](#4-fairness), [5 Deviations found](#5-deviations-found),
[6 Proofs](#6-proofs), [7 Limits](#7-limits), [8 What is left](#8-what-is-left).

To check a run: `tlc -config MCStores.cfg MCStores`. To check a proof:
`tlapm StoreProofs.tla`.

## 1 Inventory

    MCP host --HTTP/stdio--> mcp-server --> managers (core, capabilities, skills)
    CLI -----------------------------------> the same stores, other processes
                                 managers --> KernelClient ==frames==> runtime (Rust)
    runtime: main loop --task per request--> dispatcher --> registry | operations
                                             | Git | spool | audit --> bubblewrap

### Runtime (crates/)

| Component | State | Operations | What is hard | What makes it correct |
| --- | --- | --- | --- | --- |
| Main loop (`runtime/src/main.rs`) | tasks, writer channel, stdin at its end | read a frame, spawn a task, write an answer, drain | answers in any order; death with answers in the pipe | every accepted request is answered while the client lives |
| Dispatcher (`runtime/src/dispatcher.rs`) | none of its own; `Arc<Mutex>` of everything below | about eighty methods, each: decision record, work, outcome record, answer | the registry mutex is held for file work, released for Git and process work | work only for a Ready workspace and a granting policy; the log is truthful |
| Workspace registry (`workspace-io/src/registry.rs`) | context per capability: phase, root descriptor, policy | register, restrict, activate, begin_close, cancel_executions, unregister | phases move while tasks of the same workspace run | no overlap of roots; Opening → Ready → Closing → gone only |
| Workspace I/O (`workspace-io/src/read.rs`, `write.rs`, `openat.rs`) | files under a retained root | read, tree, search, write, edit, commit_patch_file | the tree is changed by others; a write is a temporary file, two identity checks and a rename | a file is replaced whole, against the version the caller saw |
| Process operations (`runtime/src/process.rs`) | record per operation, ExecutionRegistry, worker thread, child | run (fore- and background), status, cancel, cancel_workspace | request, worker, canceller, closer and child all race | nothing is forgotten; cancellation decides |
| Git (`runtime/src/git.rs`, `git_history.rs`) | child, execution record, artifact per command | some thirty methods of one to five commands; the checkpoint of a worktree | deadline, output limit, spool failure, exit: each its own way out; files change under the checkpoint | child reaped and record removed on every way out; equal source states mean equal files |
| Raw spool (`runtime/src/spool.rs`) | artifact files, active set, maintenance lock | create with retention, write, finish, read, start-up | creates reserve room for each other's live writers; restart forgets them | aggregate cap; no live file removed; the lock is returned |
| Audit sink (`runtime/src/audit.rs`) | open file, byte count, sticky health, rotated files | append, rotate, read back | crash or failure between two renames; several processes on one state root | decision on disk before effect; retained files are a suffix |
| Sandbox (`sandbox/`) | none | build bubblewrap arguments, spawn | end of life of the child | a dropped handle kills the child |
| Frames (`protocol/`, `packages/protocol`) | decoder buffer | encode, decode incrementally | chunk boundaries, length limits on both sides | what one side encodes the other decodes |

### Server and CLI (packages/, apps/)

| Component | State | Operations | What is hard | What makes it correct |
| --- | --- | --- | --- | --- |
| Kernel client (`core/src/kernel-client.ts`) | pending map, state, exit promise | request, response, poison, stop | answer, write error, exit, timer and stop in any order | nobody waits for a runtime known to be gone; an orderly stop is silent |
| Workspace manager (`core/src/workspace-manager.ts`) | workspace id → capability, state, root, trust id | open, close, trust, untrust, forwarding, checkpoints | calls interleave at each await; a request abandoned at its deadline is executed late | READY is backed by Ready; closed is gone; a failed open leaves nothing |
| Trust store (`trust/`) | one JSON document | trust, untrust, requireTrusted, list | read-modify-rename by server and CLI with no lock | a document is whole; an untrusted id stays removed |
| Profiles and policy (`profiles/`, `crates/policy`) | presets, project profile | resolve, restrict | the same comparison twice, in TypeScript and Rust | authority never exceeds the ceiling; shown is enforced |
| Checkpoint store (`core/src/workspace-checkpoint-store.ts`) | continuity document and a chain of promises per trust id | upsert with revision, clear, purge, milestones | a failure or crash at each await, untrust in between | milestones are the latest displaced checkpoints without a gap; the next caller always gets in |
| Registries (developer environments, skill sources, provider instances, credential) | one JSON document each | bootstrap, sync, add, remove, replace, rotate | several processes change copies of one document | no document is written that the next call refuses |
| Connector authentication (`auth/`, `mcp-server/src/http.ts`) | verifier document, requests in flight | check a request, rotate | rotation by another process during a check | only a token current since the request came, presented in one place |
| Preview, browser, visual (`core/src/preview-manager.ts`, `browser-manager.ts`, `visual-verification.ts`) | previews, reserved slots, sessions, browsers | start, stop, open, act, capture, release at close | each awaits the runtime, a port or a browser | limits hold; an offered session has its browser; a matrix restores the page |
| Provider gateway (`capabilities/src/provider-gateway`) | admitted instances, calls in flight | execute; the operator's admit, enable, approve, remove with rollback | release of the provider or a command against a call in flight | no effect without decision and current admission; a mutation is sent once and told as it was |
| Remote CI (`capabilities/src/remote-ci`) | none durable; budget per call | status with long poll, failure, rerun, cancel, dispatch | the remote changes between look and look | PASS covers every run; a change that was made is not told as refused |
| File patch (`capabilities/src/patch.ts`, `write.rs`) | plans of a call | check, apply file by file | others write between preflight and commit; a reply is lost | what is reported applied is applied; a post-image means what the diff says |
| Verification (`capabilities/src/verification.ts`) | none | list, run | recipes come from files that change while they are read | what runs is one recipe that was there and is allowed |
| Resume context (`mcp-server/src/resume-context.ts`) | none | synthesis of checkpoint, Git relation and evidence | all three move while it is built | a quiet resume tells the truth about fresh, stale, superseded |
| Skills (`skills/`) | sources, catalog, pins | add, remove, list, load, pin, unpin | documents replaced while a catalog reads; two processes in one directory of pins | a loaded skill is one that was there, whole; a pin survives |
| MCP tools (`mcp-server/src/tools.ts`) | none | more than seventy tools | the workspace closes between two methods; a result fails its schema | a tool does no more than its annotations say |
| Developer console (`dev-console/src/state.ts`) | what calls answered | record, snapshot with hints | answers recorded in another order than given | it may lag and never runs ahead |
| Context bundle, code search, inspection (`capabilities/src`) | none | read, rank, cut to a budget | – | – |
| Artifacts (`artifacts/`), discovery | none | validation and forwarding | – | – |
| CLI (`apps/cli`) | service metadata, releases, tunnel child | start, service install/upgrade/rollback, expose | crash between the steps of an installation; two children supervised | the installed release is always runnable |

`PROJECT.json` lists each of these with its status, and every hazard with the
line at which it bites and the properties that watch it.

## 2 What is modelled

A critical section of the Rust code (one hold of a mutex) is one action, and a
step between two awaits of the server is one action; everything between two of
them may be interleaved with every other actor. Identifiers that the code
draws at random (operation, execution, artifact, trust, capability ids) are
never issued twice, so each stands for the one call that made it. "The audit
sink" appears in most modules as the sticky bit `audit`, which breaks at any
moment and is the abstraction of AuditSink by its clients.

### The runtime

**ProcessRuntime** (`process.rs`, `dispatcher.rs`, `registry.rs`). `run`,
`worker`, `req` are program counters of the run request, of the worker thread of
`run_process` and of cancellation requests; `record`, `cancelRequested`,
`executions`, `writer` are the maps behind the mutexes; `child` is what the
kernel knows. `RunRequest(o)`, `Worker(o)`, `Cancelling(r)` gather the steps of
each actor. The workspace goes through its phases as other requests move it.
Output previews and exit codes other than zero or not are left out. **ProcessOperation** is
the promise to clients: an id runs until it is final and an accepted
cancellation decides how. ProcessRuntime implements it:
`Operation == INSTANCE ProcessOperation WITH ...` maps the abstract records to the
concrete maps, its safety is `ImplementsOperation` and its fairness
`CancelledOperationsEnd`.

**RawSpool** (`spool.rs`). `create` is the progress of a create call and of
the writer it returns, `holder` the maintenance lock, `snapshot` the clone of
the active set that pruning works on. Sizes are counted in units and time in
ticks; the caps are scaled down with them.

**AuditSink** (`audit.rs`). A file is a sequence of pieces, one for each append,
whole or torn; `name` says which file stands behind `audit.jsonl` and its
numbered successors. A rotation is its single renames, and a process may fail or
end between them and start again on what it finds.

**Dispatcher** (`dispatcher.rs`, `git.rs`, `git_history.rs`). The file methods run
wholly under the registry mutex (`audited_workspace_operation`). A Git method
is one of six families (inspect, history, checkpointPatch, mutate, worktree,
remote), each a list of commands whose `Mode` says what a command may do and
whether it has a deadline; every command is launched, registered, given an
artifact, captured and taken down along each of its ways out. Arguments and the
parsing of output are data: a command that answers and one that refuses are
told apart, no more.

**SourceState** (`git.rs`, `path_identity.rs`, `workspace-manager.ts`, `git-changes.ts`). A path has a
content in HEAD, index and worktree. `Status` takes the records, `Attach(r)` hashes
one file (its metadata and its content are two looks, of which one is kept), `Validate` is the manager's check of the reply, `Bind` keeps the state as
evidence; `during` remembers what each path was while the scan ran.

**KernelClient** (`kernel-client.ts`, `main.rs`). An action is one callback of
the event loop. `stdin`, `tasks`, `stdout` are the runtime's side: frames not
yet read, requests served, answers not yet received. `Garbage` stands for
anything that poisons the client: a bad frame, a bad envelope, a hello payload
that `hello()` refuses. **RuntimeService** is the abstract specification: requests that are sent, served and
answered, a service that is open until it fails or is stopped. Client and runtime together
implement it; a request is "sent" while its frame is in `stdin` and "served" from then on, and also
while a running runtime works on it although its caller was given up (which therefore may not happen).

### Workspaces and what belongs to them

**WorkspaceLifecycle** (`workspace-manager.ts`, `registry.rs`). `ws` is the
manager's map (a deleted entry is "closed" or "failed"), `ctx` the registry's.
A call is `openPc`, `closePc` or a record of `un`; a close request may be
answered, refused, abandoned at the deadline and then still executed (`stray`).
An open's request takes effect together with its continuation, there is one
open call per id, and a trust-store call is one step, because TrustStore takes
it apart. Policy is left to WorkspacePolicy.

**WorkspacePolicy** (`presets.ts`, `resolve-profile.ts`, `crates/policy`,
`registry.rs`). A policy is a record of the fields the handlers authorise with.
`ManagerEscalates` and `RuntimeEscalates` are the two
comparisons, `NoMore` the order by what the handlers allow. Besides the manager's
`Open` there is an unchecked caller that sends the runtime any restriction
in any order.

**TrustStore** (`workspace-trust-store.ts`). A call is read, change, open of a
temporary file, write, rename, directory sync and clean-up, with a failure or
the death of its process at each.

**CheckpointStore** (`workspace-checkpoint-store.ts` and the manager's checkpoint
calls). `queue` is the chain of promises of one trust id; a call waits in it, loads
the file, decides, renames a new file over it or removes it. `lineage` is the history
of revisions since the file was made. A text is its weight. **CheckpointRegister** is the abstract
specification, a register that is compared and set: a call is asked, takes effect at one moment (the rename or the
removal), succeeds or fails, is answered. The mapping hides the queue, the loads and the decisions.

**Registries** (`developer-environment-store.ts`, `source-store.ts`,
`provider-gateway/registry.ts`, `credential-store.ts`). A document is a set of entries, each an id
and the key that must be unique beside it; `kind` says which registry, and `Parses` is
its parser. A call reads, changes its copy and renames, beside others that do the same.

**PreviewBrowser** (`preview-manager.ts`, `browser-manager.ts`, `visual-verification.ts`).
Previews, sessions and browsers are the three maps; a call is a record with the step it
awaits. Slots are reserved before and given back after the await of a start.

### Capabilities, tools and skills

**FilePatch** (`patch.ts`, `write.rs`). A file is a sequence of lines and stands for its digest; that a
last line may lack its newline is left out. `Call` checks the parsed patch, `FileIdentity` and `ReadFile`
plan one file, `CheckFile` compares its digest with the one planned on and `ReplaceFile` renames or unlinks in a
later step. `WriteFile` is whoever takes the registry lock and so stays out of the time between the two;
`OutsideWrite` is an editor, a child process or another server, who does not, and `raced` remembers that one did.
`ApplyHunks` is the code's loop with its cursor and its running delta; `Means`, by which
the property judges it, is the definition of a unified diff: the two sides of each hunk at the places its
header names, and nothing else changed.

**Verification** (`verification.ts`). Recipes are recomputed on each call from
manifests, lock files and configuration that `ProjectChanges` may change between two reads.

**RemoteCi** (`remote-ci/service.ts`, `github-adapter.ts`). One call, step by step, and
`ProviderMoves`. `since` has every state of a run since the call began.

**ProviderGateway** (`service.ts`, `operator-service.ts`, `lifecycle.ts`, `registry.ts`).
`exec` is a semantic call, `operator` the commands in processes of their own, `record`
the instance in the registry, `inventory` and the identity what the provider really is.

**ResumeContext** (`resume-context.ts`). The order of its looks: state, checkpoint,
at most two questions to Git, one look per reference of evidence; `bounds` are the states the previews and CI
runs that were looked up belong to. `parent` is the tree of commits, `Ancestors` what Git answers from.

**SkillCatalog** (`catalog.ts`, `source-manager.ts`, `source-runtime.ts`,
`workspace-source.ts`). One call of list, load or pin while `Others` edit, remove, pin,
unpin and close; the directory of a source may be missing from the start. `during` keeps the worlds there
have been since the call began, and an answer is judged by them (`WasThere`, `ListIsComplete`). With a workspace named, `Look` lists its sources again before each read; the pins are
listed (`SelectPinned`, `ListPins`) and loaded (`LoadPinned`, `LoadListed`) in separate steps, and `unpinned` are those
removed since the call began. **SkillPins** (`pin-store.ts`) has the steps of the pin store itself,
by several processes on one directory, with death at any of them.

**ToolSurface** (`tools.ts`, `native-capability-service.ts`, `workspace-manager.ts`). A
tool is its annotations and its plan of methods; a method belongs to the sets of those that change, remove,
run or ask a remote, by what the runtime or the remote does for it, and `Effects` reads these sets. A step may be refused, lose its answer, or meet a workspace
that was closed; a method that looks at a browser session may find that it shows another page, and release it (`SessionLost`); a result may fail its schema and is recorded only after it.

**ConnectorAccess** (`http.ts`, `http-trust.ts`, `bearer-auth.ts`, `credential-store.ts`).
What may be wrong with a request is a set of faults, its credentials are the header and
the query values; `rotate` is a read and a rename of another process.

**DevConsole** (`dev-console/src/state.ts`, `tools.ts`). A call takes its answer at one
step and records it at a later one.

### Instances and proofs

Most of these components share no state with each other, and what they share (the audit
bit, the phase of the workspace) each has in itself. An MC module therefore holds several
of them side by side with a variable `part` that is chosen in the initial state: only
the chosen one moves, the others have one initial state, so the state spaces add up and do
not multiply. Those whose properties are proved are extended, so that a theorem and a run speak of
the same definition; the others are instances with their constants given in the INSTANCE.

| MC module | Extends | Instances | Proofs |
| --- | --- | --- | --- |
| MCProcessRuntime | ProcessRuntime (with ProcessOperation), Verification, DevConsole | – | ProcessRuntimeProofs |
| MCWorkspaceLifecycle | WorkspaceLifecycle | ProcessRuntime, for liveness | WorkspaceLifecycleProofs |
| MCStores | RawSpool, SkillPins, TrustStore, AuditSink | – | StoreProofs, SkillPinsProofs |
| MCServer | KernelClient (with RuntimeService), ConnectorAccess, CheckpointStore (with CheckpointRegister), ToolSurface | – | ServerProofs |
| MCWorkspaceFiles | Dispatcher, SourceState, FilePatch | – | WorkspaceFilesProofs |
| MCCapabilities | WorkspacePolicy, Registries, PreviewBrowser, RemoteCi, ProviderGateway, ResumeContext, SkillCatalog | – | WorkspacePolicyProofs, CapabilityProofs, SkillPinsProofs |
| MCTrustStore, MCPreviewBrowser | TrustStore, PreviewBrowser | – | – |

## 3 Runs

State counts are distinct states.

**MCProcessRuntime** (5.2 M). *Processes*: two operations of one workspace, one
cancellation request of either kind, every failure of spawn, spool, audit and capture, and
the phases of the workspace in between. `NothingOutlivesItsOwner`: whoever may
hold a live child, an open spool writer or a registered execution still exists.
`CancelIsDecisive`: flag and final state are written by different threads, and
the flag wins. `SnapshotIsCovered`: `workspace.cancel_executions` answers ok
only when all it found is final or flagged. `ImplementsOperation`: refinement
of ProcessOperation. Two operations are what it takes for a snapshot to be cancelled one
by one with an operation ending in between; operations share nothing but the
phase, the policy and the audit bit. *Verify*: a root and one package directory, two package
managers, three configurations and one edit at any step; one edit is enough to make any two
reads disagree. *Console*: two calls, one edit of the source and one run, so that two records
of one operation, or of two source states, can be taken in one order and recorded in the other.

**MCWorkspaceLifecycle** (0.43 M). Two open calls of the same root, one of them
closed up to twice, and an untrust, with audit failures and deadlines.
`SidesAgree` is five invariants that tie the manager's map to the registry's: READY is backed
by Ready, Ready roots are disjoint, closed is gone, a failed open leaves nothing, an
untrust closes the workspaces it found. `EveryCallEnds` is
the liveness of open, close and untrust. Two workspaces make the races for a
root; the second close makes the retry after an incomplete one. *Processes*: one operation and
two requests under fairness. `OperationsWindUp`: the child of a final operation dies, also on
the paths that return with a live child, because the sandbox handle is dropped; and a
cancelled operation ends, although `cancel` itself gives up after two grace periods.

**MCStores** (0.81 M). *Spool*: three artifacts, a source cap of 2 in an aggregate of 4,
clock to 2, one restart. The third create is the one that does not fit; a clock of 2 with a time
to live of 2 makes an artifact expire and makes two artifacts of different ages.
*Audit*: one runtime, three requests, a limit of two records per file, two retained rotations, two
lives. Six files allow every shift of the rotation; the second life starts from every
half-done rotation. `AuditIsKept` is the decision before the effect, the retained files as a suffix
of what was appended, and the bound on them. *Trust*: two roots, two ids, three calls one after
another, each failing or dying at any step; three calls are trust, untrust and one that reads or
changes what is left. `DocumentIsKept` is: the document is whole, an untrust is durable, a call
changes only what it names. *Pins*: two processes, two versions of a skill, three calls; two pins
race for one name and the third call removes or loads what they made.

**MCServer** (0.17 M). *Client*: four requests, one piece of garbage, a crash, a kill
and one `stop()`; four requests can stand one each in the four places (stdin,
tasks, pipe, answered). `WaitingIsForAnAnswer`: a request waits as long as its answer may come, and no longer.
`ImplementsService`: refinement of RuntimeService, in which an orderly stop is never reported as an unexpected end.
`CallersSettle`: stop ends, a death is reported, and checkpoint calls come to an end (the fairness of the abstract
register follows from that of the store).
*Connector*: one request at a time, every combination of faults and credentials, three
tokens, so that one is current, one rotated away and one being written. *Tools*: every tool on a
workspace that is closed and opened under other profiles, each use of a browser session with one that was lost. *Checkpoints*: two calls of any kind, bodies on both
sides of each limit, one milestone kept, three revisions, crashes and reopening. `ImplementsRegister`: refinement of
CheckpointRegister, from each of the files a root may start with. Two calls are what it takes for a comparison to be made on a
revision that another call replaces.

**MCWorkspaceFiles** (0.69 M). *Requests*: two requests of one workspace, a file.write beside
every family and three pairs of Git families, with the workspace narrowed, activated, closed and
removed. A third request adds no new kind of meeting: the mutex is held by one and asked for by another.
*Patches*: seven patches (two files out of order, hunks that overlap, are misplaced or empty, a file
named twice, counts that are wrong) by two overlapping calls on files of up to two lines, with one write by another,
inside the lock or outside it; one write is enough to fall between any two looks, and the second call writes as well.
*Sources*: two paths, three contents of which one is too large to hash, one commit and two edits at
any step of two scans.

**MCCapabilities** (5.4 M). *Policy*: one workspace, every ceiling, every project
profile over one listed tool, one unlisted tool (a shell) and one variable,
and every restriction by the unchecked caller. Workspaces share nothing but the
ceiling, and the comparisons treat names alike but for the shells, so one name of
each kind is enough. *Registries*: each kind, two processes, three roots, two entries at most (one
below the limit and at it). *Previews*: two calls (interchangeable: symmetry), a limit of one
preview and one session, two starts, two browsers, a matrix of one viewport. *CI*: two
runs, a page of one, so that a run can be on the next page; two looks, three moves. *Gateway*: one
call, one operator, one move of the provider at any step. *Resume*: three commits, which make an ancestor, a
descendant and a rewritten history; four moves; a preview and a CI run of each state there may be. *Catalog*: a
registered and a workspace source, two versions of which both may be pinned, two moves of others at any step: a pin that is
selected and one that replaces it.

Six more runs state a claim of the documentation that the code does not keep;
they are described in section 5.

Each property is paired in `PROJECT.json` with a plausible bug, a changed
definition in the module (`LeaveChild`, `FlagAnyRecord`, `LockIgnored`, ...) under which its run
fails. A type invariant is proved where it is listed under section 6.

`CHECK_DEADLOCK FALSE` stands in most configurations with its reason: the bounded
system may stop once every call was made.

## 4 Fairness

Only what the code's schedulers give is assumed, always weak fairness.

- *ProcessRuntime*: tokio tasks and worker threads are scheduled; a child sent
  SIGKILL dies. Children need not exit, and nobody has to cancel.
- *WorkspaceLifecycle*: promises of open and untrust settle, since the runtime
  answers each request (which the properties of AuditSink, Dispatcher and KernelClient show of
  their parts); the deadline of close is a timer. A close request need not be
  answered.
- *RawSpool*: a create that has the lock runs on (it is synchronous); writers promise nothing.
- *AuditSink*: an append in a living process runs on; a process need not live.
- *KernelClient*: events are delivered and the kill timer fires; a killed
  process ends. The runtime may serve a request for ever.
- *Dispatcher*: tasks are scheduled, deadlines fire, and local read-only Git commands that
  have no deadline (probe, show, check) end by themselves. Commands with a deadline may hang.
- *CheckpointStore*: what a call awaits (its place in the chain, the file system, the audit)
  ends, with or without success. Nobody has to call. That a caller of the register then makes progress
  (`Register!Fairness`) is checked, not assumed.

The other modules are checked for safety only: their calls await a remote, a browser
or a user who need not answer.

## 5 Deviations found

With a run that shows the counterexample:

1. **A process.run can outlive its workspace** (`MCProcessRuntimeClose`,
   `CloseCancelsOperations`). The Ready phase is read at dispatcher.rs:3163-3188
   and the record inserted at process.rs:401 without another look, so
   begin_close, cancel_executions and unregister fit in between. The roadmap
   audit (2026-08-18, line 37) lists workspace-close cancellation as provided.
2. **Some incomplete closes cannot be retried** (`MCWorkspaceLifecycleRetry`,
   `CloseCanBeRetried`). `unregister` executed after its deadline removes
   the capability; each retry then fails in begin_close and the workspace stays
   CLOSING (execution tracker, line 276; workspace-manager.test.ts:1865).
3. **An acknowledged untrust can be undone** (`MCTrustStoreConcurrent`,
   `UntrustIsDurable` without the restriction to one call at a time). A `trust` that read the
   document earlier writes the removed record back (design 2026-08-15, line 182).
4. **Some states of a repository have no checkpoint** (`MCSourceState`,
   `EveryStateHasACheckpoint`). After `git rm --cached f` with f left in place Git reports the path
   twice, and the manager refuses a checkpoint that names a path twice
   (workspace-manager.ts:1869): git.changes, and what takes a source state first, fail
   (chatgpt.md:54).
5. **One preview can have two browsers** (`MCPreviewBrowser`, `OneBrowserPerPreview`).
   `openPreview` awaits the launch between its look and the registration
   (browser-manager.ts:314); the first browser is then closed by nobody (design 2026-08-18, line 57).
6. **A mutation that happened can be told as failed** (`MCProviderGateway`,
   `UnprovenMutationIsUnknown`). A response the transport refuses for its size or status is not
   counted as received (service.ts:133; design 2026-08-19, line 72).

In words, where a model shows the behaviour and no property forbids it:

- A workspace whose open read the trust record while `untrust` awaited
  `trust.list` becomes READY under the removed record (workspace-manager.ts:746).
- A torn append followed by a restart makes the next decision's line unreadable
  (audit.rs:442): the sink is healthy again but does not start a new line.
- Two runtimes on one state root grow the log beyond the rotation size, since each
  counts its own bytes (audit.rs:428). MCStores runs with one process;
  `Processes` may be given two to see it.
- A second concurrent `stop()` closes the client before the exit event, which then
  rejects nothing (kernel-client.ts:262). The tree has one caller each.
- When the header of a staged patch cannot be written (git.rs:1687),
  `run_git_checkpoint_patch` returns with the child registered and not reaped: the
  thread it was started from ends with its handle and takes the child with it
  (bubblewrap.rs:376-394, `--die-with-parent`), but the execution record stays until the
  runtime ends. `GitLeavesNothing` names this exit as its exception.
- `workspace.cancel_executions` does not reach Git children (dispatcher.rs:2968):
  one launched before begin_close goes on while and after the workspace is closed, a commit
  or push included.
- After a clear the next checkpoint has revision 1 again, so a caller that saw the revision 1 of before is accepted
  (workspace-checkpoint-store.ts:193): the register compares revisions, not what was seen under them.
- An upsert of the same trust that waits in the queue behind the purge of an untrust writes a checkpoint under the trust
  id that is being removed (workspace-manager.ts:757). Ids are not issued again, so nobody reads it.
- A lost update between two processes on one registry: the later rename wins, as in the trust
  store (developer-environment-store.ts:239). `RegistryIsAccepted` says the winner can be read.
- An operator's command that fails after its write puts back the record it read first, over what
  another command wrote meanwhile (operator-service.ts:273).
- The console may show an older status that was recorded late (dev-console state.ts:202).
- A checkpoint saved after the observation of a resume is called superseded although no history was
  replaced (resume-context.ts:116).
- verify.run takes its source state before the process starts; files may change in between
  (verification.ts:217).
- file.patch looks at the digest of a file and then replaces it: update renames over whatever is there by then, delete
  unlinks it (write.rs:256-261, 289-290). What an editor or a child process writes in between is lost; calls of
  this runtime are kept out by the registry lock. `PatchTellsTheTruth` excepts such writes (`raced`) and nothing else.
- The tools browser.inspect, browser.console and browser.networkFailures carry `readOnlyHint`, yet they end the
  session, and close its browser, when it has left its origin or its preview has another URL
  (browser-manager.ts:418-421, 606-608). `ToolsKeepTheirWord` says that only users of sessions do, and that the call then fails.
- CI evidence is called fresh by the head alone (resume-context.ts:344-349), so it is fresh over a worktree with changes
  that the run has not seen; a preview is compared with head and changes.
- A load without a fingerprint selects the latest pin and then loads it: when that one is unpinned in between, the answer
  is SKILL_NOT_FOUND although another version stayed pinned (catalog.ts:603-611). In the same way a list fails
  as a whole when a pin it has listed is removed (catalog.ts:136-146), and either may answer SKILL_PIN_INVALID when it reads
  while a removal is under way (pin-store.ts:144-218). `NotFoundWasMissing` excepts a load or list during which a pin was removed.
- A workspace that is closed during a scoped skill call ends it with SKILL_WORKSPACE_MISMATCH, also while it reads a
  registered source (source-manager.ts:201-205).
- Two concurrent `listSources` of one workspace delete each other's bindings
  (workspace-source.ts:40); SkillCatalog has one call at a time and does not show it.

## 6 Proofs

All for any number of operations, requests, workspaces, artifacts, processes, calls and any caps,
from the ASSUMEs of the modules. These say what the code gives: sentinels are not members of their sets,
functions have their types, presets name known tools, caps are natural numbers (positive and ordered
where the code's are), what is kept in one document is finite, a parsed
patch and the references of a checkpoint have the types of their parsers, a registered source is not one of a workspace, no package manager is called
"unknown", and rustup's toolchain directory is not where Node is installed (were it so,
`ensureBootstrap` could register one root under both labels). All are safety, over the
specification without fairness. For each the table of `PROJECT.json` names the property of a run, and the
theorem states that very definition.

### Processes (ProcessRuntimeProofs)

- *ProcessRuntime.* IInv = TypeOK ∧ Owned. `NothingOutlivesItsOwner` is not
  inductive: the step that hands the child from the request to its worker needs
  to know which stage of the request goes with which stage of worker, record and child
  (`Stages`). With it follow NothingIsForgotten, RunningIsServed,
  FinalIsOutOfTheRegistry, CancellationDecides and, step by step, the
  Refinement of ProcessOperation. SnapshotsAreCovered adds `Covered`: each operation a
  cancellation found is yet to be looked at, final or flagged, and a flag or a final state stays.
- *DevConsole.* ConsoleInv: what each call may say is true of the runs there are (`Tells`), and what is shown has
  happened. The lemma behind it is that runs only get more and older (`Ages`), and that whatever is told of
  them stays told truly as they age. TheConsoleLags follows for any number of calls.
- *Verification.* VerifyInv has one part per look (lock files, tree, configuration, packages): what a call has read is
  what some moment since it began held, and recipes are derived from these readings alone.
  VerifyRunsWhatItSaw follows: what is started is the one recipe of its name, allowed by the policy, and
  stood in a manifest or configuration that was there during the call.

### Workspaces and policy (WorkspaceLifecycleProofs, WorkspacePolicyProofs)

- *WorkspaceLifecycle.* IInv = TypeOK ∧ WorkspaceInv ∧ DisjointInv ∧ UntrustInv.
  WorkspaceInv says, for each step of open (`OpenAt`), each state shown (`ShownAt`) and each step of close
  (`CloseAt`), in which phases the registry's context may be. `SidesAgree` is not inductive
  because of the requests that were abandoned and are executed later: WorkspaceInv says they exist only for workspaces that
  are CLOSING or closed, so that a late begin_close or unregister cannot meet a READY one. UntrustInv says that an
  untrust waits for at most one close and that what it has dealt with is closed. BothSidesAgree is the result.
- *WorkspacePolicy.* The lemmas are about the comparison: it is
  irreflexive, its negation transitive, and a policy that is no escalation
  authorises no more. IInv says that each stored policy is below the preset of
  its ceiling (`Below`); `Resolved` adds what the manager knows between resolving and
  activating. From them: AuthorityOnlyNarrows (even for a caller that bypasses the
  manager), NoDisagreement, ShownPolicyIsEnforced, ReadyPolicyNeverChanges.

### Stores (StoreProofs, SkillPinsProofs, ServerProofs)

- *RawSpool.* SpoolInv = TypeOK ∧ LockInv ∧ ActiveIsKept. LockInv says who holds the
  maintenance lock at which step, and that the clone of the active set covers
  the live writers while pruning goes on: writers may end meanwhile, but none is added
  without the lock. LiveFilesAreKept and RetentionJustified follow. QuotaIsKept is the aggregate cap: `Bytes` of
  what is present, with a full cap reserved for each writer that is live. `Sum` is a fold over a finite set, so its laws (what a
  removal, a union or a larger term does to it) come first, by well-founded induction on the sets ordered by inclusion.
  QuotaInv adds that whoever has passed the lock is counted as active before its file grows.
- *TrustStore.* StoreStaysWhole (no reader meets a torn document) holds for calls side by side. The rest of
  `DocumentIsKept` holds one call at a time, as section 5 shows, and is proved of `Sequential`: TrustInv adds that an id in the
  document was issued (IssuedInv) and that what the call is about to rename is the document with the change it was asked
  for (ChangeInv), so that nothing else is lost and an untrust stays done.
- *AuditSink.* EffectsAreAudited holds for any number of processes, although their rotations destroy each other's files: RecordInv
  speaks of what was appended, and HolderInv of who holds the mutex of its sink. OneProcessKeepsTheAudit is
  `AuditIsKept` under its stated hypothesis of one process. LogInv adds OwnerInv (which name is free at which step of the
  rotation), OrderInv (the names hold ever older files, no lost file is newer than a kept one) and GapInv: an ended life
  leaves at most one gap among the names, which is why counting them bounds the files. With two processes
  each counts its own bytes and none of the three holds.
- *SkillPins.* `RunOK` says what each step knows of its own temporary directory, `AloneOK` that while a
  pin runs that no unpin of its version has met, nobody removes what it is about. A removal that has begun is in
  `disturbed` until one has finished and no other is under way. PinnedSkillsSurvive follows for any number
  of processes, versions and calls, deaths included.
- *SkillCatalog.* CatalogInv judges a call by the worlds it has lived through: what discovery did not find was missing in one
  (FoundInv), what is being read was readable in one (BuildInv), what a list has, or still has to build, includes every skill that stayed as
  it was (ListInv), a pin that was selected was pinned in one and is now, or is in `unpinned` (LoadInv), and a list
  has loaded, or still has to load, every pin that stayed (EachInv). CatalogIsTrue follows for any sources, versions and moves.
- *CheckpointStore.* CheckpointInv: who is inside the chain of one trust id waits in it once, only its head has read or
  written, and what the head has read is still there (SerialInv); no lineage outlives its file (LineageInv).
  MilestonesAreFaithful follows. AskedInv adds what the manager has settled before a call enters the queue and what a loaded call
  has compared. It makes each rename or removal a change of the register on the revision expected, and every other step a step of
  that caller's request or a stutter: CheckpointsAreComparedAndSet is the refinement of CheckpointRegister, failures and crashes included.
- *Registries.* RegistryInv: the document and the copy of every caller parse, and their ids were generated before. Two facts carry
  it: a key occurs once exactly when the set of keys has as many elements as the document (a surjection between finite sets),
  and the replacement of a bootstrap entry leaves no second entry with its root, since any other
  owner of the root stops it. RegistriesStayAccepted holds for any number of processes that
  overwrite one another (CapabilityProofs).

### Client and connector (ServerProofs)

- *KernelClient.* SilentInv relates the client's state, the report and the
  stops; AccountedInv says pending is exactly who waits. NobodyIsLeftWaiting assumes one
  caller of stop() (its statement says so), OrderlyStopsAreSilent any number. Underway: while the client runs or ends
  its runtime, a request is on its way, in service or answered in the pipe, at one of the three and once, and is in pending. The
  lemmas under it say what an appended frame adds to the pipe and what a chunk leaves of it (FramesAppended, FramesLeft).
  ComingAnswersAreAwaited follows for any number of stops, RequestsWaitForAnswers with NobodyIsLeftWaiting.
- *RuntimeService.* ClientKeepsService is the refinement, for any number of requests and stops. Underway is not enough: `Wanted` adds
  what holds of a client that is gone or closed as well, that a running runtime has nothing whose caller was given up, and that an
  unavailable client has no request left that a late chunk could answer. A poisoning is then `Fail` with the
  answers of the chunk that came before it.
- *ConnectorAccess.* CheckedInv: while a request is checked, the current token is among
  those it may enter on (`since`), and its token is the one it presented, in the one place allowed.
  OnlyCurrentTokensEnter follows.
- *ToolSurface.* The table has no parameters, but calls, closes, refusals and losses go on for ever. ToolsAreSound goes through the table
  once: no method of a tool's plan has an effect its annotations deny (`Sound`); for most tools because
  all but the last method only read. UseInv then says of the call under way that what it has done is within the methods of its plan, and
  that what it has changed, it changed before the step it is at, and that a session it has ended was one it uses, as its last
  step. ToolsDoWhatTheySay follows.

### Files, Git and evidence (WorkspaceFilesProofs)

- *Dispatcher.* IInv has one part per resource: InsideInv (the mutex),
  CommandInv (the place in the list of commands), PermitInv (a mutation under way
  was granted and the policy of a Ready workspace is not narrowed any more), ChildInv (child and execution
  record stage by stage), LogInv (decision, outcome, answer). CloseStopsFileWork, OnlyGrantedChanges,
  GitCleansUp and LogIsTruthful are each a part of it.
- *SourceState.* A record is about the commit of the moment `git status` ran, which need not be the present one. SourceInv therefore
  asks for some history of HEAD under which ScanInv and EvidenceInv hold, and a commit extends that history.
  FreshEvidenceIsAboutTheseFiles: for evidence that a later scan finds fresh, each path had a content in common
  during the two scans.
- *FilePatch.* Two parts. That `ApplyHunks` computes what the diff means is a chain of lemmas, one per loop: the recursive functions of
  the model are unfolded by induction on numbers, LineApplies and HunkApplies say what one line and one hunk add to what was put out, LinesApply and
  HunksApply say it of the first n (what is copied, where the cursor is, that the new start of each hunk is the old one shifted by
  the running delta), and HunksMean reads `Means` off the end; PathOrder says that the ranks of the paths sort the plans.
  PatchInv then follows the calls: what is still to be read is well formed and names no path twice (FilesAhead), and what was replaced, and what of
  it was reported, are beginnings of the sorted plans (StartOfPlans), the first longer than the second by at most the file at which
  the call stopped. LookInv is about the file between look and replacement: it is still the one that was read, or somebody outside
  the lock has `raced`; one call at a time is between them. PatchIsTrue holds for any patches, any lines and any number of overlapping calls.

### Capabilities (CapabilityProofs)

- *RemoteCi.* CallInv follows one call: the plan of what is left to ask (PlanInv), what an observation has seen of the runs
  when all passed or one failed (SeenInv), what is about to be told (ToldInv), that a mutation made is settled,
  answered as made or as unknown (EffectInv). CiIsTrue follows for any number of runs and pages.
- *ProviderGateway.* ExecInv names, for each place of a call, what it has already looked at (record, identity, decision, inventory),
  and SinceInv that these were there since it began. CommandInv says what an operator who has been alone may find in the
  record, before and after the write. GatewayIsTrue follows for any number of operators.
- *PreviewBrowser.* PreviewInv: slots and records never exceed the limit (a call in `reserved` or `ran` holds one, by
  counting); a launched browser that is not yet registered shows the preview it was launched for (SessionsInv), without which a
  registration could offer another's page; who ran alone still does (AloneInv); and a matrix has one picture per two steps and
  its browser shows the viewport of the last resize (MatrixInv). PreviewsStaySound follows.
- *ResumeContext.* `Ancestors` is a recursive function on the tree of commits; that it exists for any tree whose parents are older than
  their children is shown by induction on numbers (AncestorsUpTo), and with it that every commit is its own ancestor. ResumeCallOK says
  what a call in which nothing moved has read and been told at each of its looks. ObservedOK says of each observation, in whatever
  moves, that it compares the state its subject is bound to with the one the call observed. QuietResumeIsTrue follows for any number of commits.

Each invariant was checked with TLC on the instance of its module first.

Where an argument needs induction, it is stated for a set instead of a predicate: a set of numbers that has 0 and
each successor of its members has every number (NumberInduction), a set of sets that has each set whose proper
subsets it has, has every finite set (SubsetInduction). Both follow from the library's well-foundedness.

### Only model-checked

Liveness, since fairness and ENABLED are beyond the prover: `EveryCallEnds`, `OperationsWindUp`, `LockIsReleased`,
`RequestsAreAnswered`, `CallersSettle`, `EveryRequestEnds`. Every invariant and every action property a passing run checks is
also a theorem.

## 7 Limits

- Data: arguments, paths, wording, output parsing, previews, exact times and sizes.
- Power loss and what a file system may reorder without a sync; poisoned Rust
  mutexes (a panic in a critical section); reuse of process ids.
- Node's treatment of an unhandled stream 'error' event after a write to a dead
  child (kernel-client.ts:221).
- RawSpool: the refusal of an id that exists already, bounded reads.
- Dispatcher: `skill_source.*`, the audit relays (trust, checkpoint, ci, provider),
  the second record of verify.run, process.inspect_executable.
- RemoteCi, ResumeContext, SkillCatalog, ToolSurface: one call at a time; the world moves beside it.
- What runs outside the tree (bubblewrap, Git, systemd, zrok, GitHub, browsers) is modelled by how the
  code uses it: it answers, refuses, hangs or dies.

Not modelled:

- *Frames*: a pure decoder of length-prefixed frames with a unit test per boundary. KernelClient starts
  from whole frames and garbage.
- *Sandbox*: the construction of arguments, without state. That a dropped handle kills is in ProcessRuntime.
- *Context bundle, code search, inspection, public actions, discovery*: read-only ranking, truncation and
  description; nothing interleaves but the files themselves.
- *Artifact store*: validation in front of artifact methods.
- *Images* (`visual-png.ts`): their comparison is arithmetic on pixels.
- *CLI start, service, expose*: wiring, and commands to systemd and zrok whose effects are outside the
  tree. The stores they use are modelled.
- *Scripts and packaging*: build-time checks.

## 8 What is left

- Compositions: untrust with TrustStore's steps and the purge of CheckpointStore in one module
  instead of one step each; two concurrent calls in SkillCatalog with the bindings of workspace sources.
- Abstract specifications beside ProcessOperation, CheckpointRegister and RuntimeService: a durable map for TrustStore and
  the registries.
- The CLI's service installation (crash between its steps), if the behaviour of systemd is taken as external.

The project keeps to a dozen runs and forty properties, so that all of it is checked in some twenty
minutes.
