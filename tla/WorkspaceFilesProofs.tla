------------------------ MODULE WorkspaceFilesProofs ------------------------
(***************************************************************************)
(* Work on the files of a workspace: the dispatcher's safety for any       *)
(* number of requests and workspaces, what fresh evidence is worth for any *)
(* files and contents, and what file.patch makes of any patches and files. *)
(***************************************************************************)
EXTENDS Dispatcher, SourceState, FilePatch, SequenceTheorems, FiniteSetTheorems, FunctionTheorems, TLAPS

GitStages == {"launching", "launched", "header", "capturing"}
Undecided == {"idle", "received", "permitted"}
Open      == {"running", "exitedOk", "exitedBad"}

(* A file operation at work holds the mutex of a workspace that is ready.  *)
InsideInv ==
  \A r \in Requests :
    pc[r] = "inside" => /\ kind[r] \in FileKinds /\ lock = r
                        /\ Ready(r) /\ Granted(r)

(* A Git request starts at the first command of its list and stays within  *)
(* the list.                                                               *)
CommandInv ==
  \A r \in Requests :
    /\ pc[r] \in Undecided \union {"decided"} => command[r] = 1
    /\ pc[r] \in GitStages => kind[r] \in GitKinds /\ command[r] <= Len(CommandsOf(kind[r]))

(* Permission, once given, stands: a workspace that was ready is never     *)
(* narrowed again.                                                         *)
PermitInv ==
  \A r \in Requests :
    AsksFirst(kind[r]) /\ pc[r] \in {"permitted", "decided"} \union GitStages
      => Granted(r) /\ phase[target[r]] # "opening"

(* A child that is not reaped is on record and, but for the lost header,   *)
(* belongs to a request that is still at it.                               *)
ChildInv ==
  \A r \in Requests :
    /\ child[r] \in Open <=> r \in executions
    /\ pc[r] \in {"launched", "header", "capturing"} => child[r] \in Open
    /\ pc[r] = "header" => StagedPatch(r)
    /\ child[r] \in Open => \/ pc[r] \in {"launched", "header", "capturing"}
                            \/ StagedPatch(r) /\ pc[r] \in {"failing"} \union Answers

LogInv ==
  \A r \in Requests :
    /\ pc[r] \in Undecided => r \notin decided
    /\ pc[r] \notin Undecided \union {"error", "auditUnavailable"} => r \in decided
    /\ result[r] # "none" \/ child[r] # "none" => r \in decided
    /\ pc[r] \in {"reporting", "ok"} => result[r] # "none"
    /\ pc[r] \notin Answers => outcome[r] = "none"
    /\ outcome[r] = "success" => result[r] = "ok"
    /\ pc[r] = "ok" => outcome[r] # "none" /\ (outcome[r] = "failed" => result[r] = "bad")
    /\ pc[r] = "error" /\ r \in decided => outcome[r] = "failed"

IInv == TypeOK /\ InsideInv /\ CommandInv /\ PermitInv /\ ChildInv /\ LogInv

-----------------------------------------------------------------------------
(* Facts about the lists of commands: at most four each, and one that      *)
(* changes the workspace only in a family that asks for permission first.  *)
LEMMA CommandLists ==
  ASSUME NEW k \in Kinds
  PROVE  /\ Len(CommandsOf(k)) \in 0 .. 4
         /\ k \in GitKinds => Len(CommandsOf(k)) # 0
         /\ \A i \in 1 .. Len(CommandsOf(k)) : CommandsOf(k)[i] = "change" => AsksFirst(k)
<1> USE DEF Kinds, FileKinds, GitKinds, AsksFirst
<1>1. CASE k \in FileKinds
  <2>1. CommandsOf(k) = << >>
    BY <1>1, Zenon DEF CommandsOf
  <2> QED
    BY <1>1, <2>1
<1>2. CASE k = "inspect"
  <2>1. CommandsOf(k) = <<"probe", "show">>
    BY <1>2, Zenon DEF CommandsOf
  <2> QED
    BY <1>2, <2>1
<1>3. CASE k = "history"
  <2>1. CommandsOf(k) = <<"query", "query">>
    BY <1>3, Zenon DEF CommandsOf
  <2> QED
    BY <1>3, <2>1
<1>4. CASE k = "checkpointPatch"
  <2>1. CommandsOf(k) = <<"probe", "check", "check">>
    BY <1>4, Zenon DEF CommandsOf
  <2> QED
    BY <1>4, <2>1
<1>5. CASE k = "mutate"
  <2>1. CommandsOf(k) = <<"probe", "change">>
    BY <1>5, Zenon DEF CommandsOf
  <2> QED
    BY <1>5, <2>1
<1>6. CASE k = "worktree"
  <2>1. CommandsOf(k) = <<"probe", "check", "change", "check">>
    BY <1>6, Zenon DEF CommandsOf
  <2> QED
    BY <1>6, <2>1
<1>7. CASE k = "remote"
  <2>1. CommandsOf(k) = <<"probe", "query", "change", "change">>
    BY <1>7, Zenon DEF CommandsOf
  <2> QED
    BY <1>7, <2>1
<1> QED
  BY <1>1, <1>2, <1>3, <1>4, <1>5, <1>6, <1>7

-----------------------------------------------------------------------------
(* Typing, which needs that a request stays within its list of commands.   *)
LEMMA TypeInit == Init => TypeOK
  BY DEF Init, TypeOK, Stages, Answers

LEMMA TypeStep == TypeOK /\ CommandInv /\ [Next]_vars => TypeOK'
<1> SUFFICES ASSUME TypeOK, CommandInv, [Next]_vars
             PROVE  TypeOK'
  OBVIOUS
<1> USE DEF TypeOK, Stages, Answers, Move, requestVars, workspaceVars, gitVars
<1>1. CASE UNCHANGED vars
  BY <1>1 DEF vars
<1>2. CASE AuditBreaks
  BY <1>2 DEF AuditBreaks
<1>3. ASSUME NEW c \in Caps, Activate(c) \/ BeginClose(c) \/ Unregister(c)
      PROVE  TypeOK'
  BY <1>3 DEF Activate, BeginClose, Unregister, SetPhase
<1>4. ASSUME NEW c \in Caps, RestrictPolicy(c)
      PROVE  TypeOK'
  <2>1. PICK granted \in SUBSET policy[c] : policy' = [policy EXCEPT ![c] = granted]
    BY <1>4 DEF RestrictPolicy
  <2>2. granted \in SUBSET Grants
    BY <2>1
  <2> QED
    BY <1>4, <2>1, <2>2 DEF RestrictPolicy
<1>5. ASSUME NEW r \in Requests, Receive(r) \/ AskPolicy(r) \/ Decide(r)
      PROVE  TypeOK'
  BY <1>5 DEF Receive, AskPolicy, Decide
<1>6. ASSUME NEW r \in Requests, Enter(r) \/ Leave(r)
      PROVE  TypeOK'
  BY <1>6 DEF Enter, Leave, HeldBy
<1>7. ASSUME NEW r \in Requests, DuplicateRoot(r) \/ Launch(r) \/ CreateSpool(r) \/ WriteHeader(r)
      PROVE  TypeOK'
  BY <1>7 DEF DuplicateRoot, Launch, CreateSpool, WriteHeader, Terminate, Deregistered
<1>8. ASSUME NEW r \in Requests, ChildExits(r) \/ CaptureFails(r) \/ TimesOut(r) \/ Overflows(r)
      PROVE  TypeOK'
  BY <1>8 DEF ChildExits, CaptureFails, TimesOut, Overflows, Stop, Terminate, Deregistered
<1>9. ASSUME NEW r \in Requests, Capture(r)
      PROVE  TypeOK'
  <2>1. pc' = [pc EXCEPT ![r] = AfterExit(r)] \/ pc' = [pc EXCEPT ![r] = "failing"]
    BY <1>9 DEF Capture
  <2>2. AfterExit(r) \in {"reporting", "launching", "failing"}
    BY DEF AfterExit
  <2>3. AfterExit(r) = "launching" => command[r] + 1 \in 1 .. 4
    <3>1. PICK n \in 0 .. 4 : n = Len(CommandsOf(kind[r]))
      BY CommandLists
    <3>2. command[r] <= n
      BY <1>9, <3>1 DEF Capture, CommandInv, GitStages
    <3>3. command[r] \in 1 .. 4
      OBVIOUS
    <3>4. AfterExit(r) = "launching" => command[r] # n
      BY <3>1 DEF AfterExit, IsLast
    <3> QED
      BY <3>2, <3>3, <3>4
  <2>4. command' \in [Requests -> 1 .. 4]
    BY <1>9, <2>1, <2>3 DEF Capture
  <2> QED
    BY <1>9, <2>1, <2>2, <2>4 DEF Capture, Terminate, Deregistered
<1>10. ASSUME NEW r \in Requests, Report(r) \/ Fail(r)
       PROVE  TypeOK'
  BY <1>10 DEF Report, Fail, Answer, OutcomeOf
<1> QED
  BY <1>1, <1>2, <1>3, <1>4, <1>5, <1>6, <1>7, <1>8, <1>9, <1>10 DEF Next, TaskStep

-----------------------------------------------------------------------------
(* The parts of the invariant                                              *)
LEMMA InvInit == Init => IInv
  BY NoRequestAssumption, TypeInit
  DEF Init, IInv, InsideInv, CommandInv, PermitInv, ChildInv, LogInv, GitStages, Undecided,
      Open, Answers

LEMMA InsideStep == TypeOK /\ InsideInv /\ [Next]_vars => InsideInv'
<1> SUFFICES ASSUME TypeOK, InsideInv, [Next]_vars
             PROVE  InsideInv'
  OBVIOUS
<1> USE NoRequestAssumption
    DEF TypeOK, InsideInv, Ready, Granted, Move, requestVars, workspaceVars
<1>1. CASE UNCHANGED vars
  BY <1>1 DEF vars
<1>2. CASE AuditBreaks
  BY <1>2 DEF AuditBreaks
<1>3. ASSUME NEW c \in Caps, \/ Activate(c) \/ BeginClose(c) \/ Unregister(c)
                             \/ RestrictPolicy(c)
      PROVE  InsideInv'
  BY <1>3 DEF Activate, BeginClose, Unregister, SetPhase, RestrictPolicy
<1>4. ASSUME NEW r \in Requests, \/ Receive(r) \/ AskPolicy(r) \/ Decide(r)
                                \/ DuplicateRoot(r) \/ Launch(r) \/ CreateSpool(r)
                                \/ WriteHeader(r) \/ ChildExits(r) \/ Report(r) \/ Fail(r)
      PROVE  InsideInv'
  BY <1>4 DEF Receive, AskPolicy, Decide, DuplicateRoot, Launch, CreateSpool, WriteHeader,
              ChildExits, Report, Fail, Answer
<1>5. ASSUME NEW r \in Requests, Enter(r)
      PROVE  InsideInv'
  BY <1>5 DEF Enter, HeldBy
<1>6. ASSUME NEW r \in Requests, Leave(r)
      PROVE  InsideInv'
  BY <1>6 DEF Leave
<1>7. ASSUME NEW r \in Requests, Capture(r) \/ CaptureFails(r) \/ TimesOut(r) \/ Overflows(r)
      PROVE  InsideInv'
  BY <1>7 DEF Capture, AfterExit, CaptureFails, TimesOut, Overflows, Stop
<1> QED
  BY <1>1, <1>2, <1>3, <1>4, <1>5, <1>6, <1>7 DEF Next, TaskStep

LEMMA CommandStep == TypeOK /\ CommandInv /\ [Next]_vars => CommandInv'
<1> SUFFICES ASSUME TypeOK, CommandInv, [Next]_vars
             PROVE  CommandInv'
  OBVIOUS
<1> USE DEF TypeOK, CommandInv, GitStages, Undecided, Move, requestVars
<1>1. CASE UNCHANGED vars
  BY <1>1 DEF vars, gitVars
<1>2. CASE AuditBreaks \/ \E c \in Caps : Activate(c) \/ BeginClose(c) \/ Unregister(c)
                                          \/ RestrictPolicy(c)
  BY <1>2 DEF AuditBreaks, Activate, BeginClose, Unregister, SetPhase, RestrictPolicy, gitVars
<1>3. ASSUME NEW r \in Requests, \/ Receive(r) \/ AskPolicy(r) \/ Decide(r) \/ Enter(r)
                                \/ Leave(r) \/ ChildExits(r) \/ Report(r) \/ Fail(r)
                                \/ CaptureFails(r) \/ TimesOut(r) \/ Overflows(r)
      PROVE  CommandInv'
  BY <1>3 DEF Receive, AskPolicy, Decide, Enter, Leave, ChildExits, Report, Fail, Answer,
              CaptureFails, TimesOut, Overflows, Stop, gitVars
<1>4. ASSUME NEW r \in Requests, DuplicateRoot(r)
      PROVE  CommandInv'
  BY <1>4, CommandLists DEF DuplicateRoot, gitVars
<1>5. ASSUME NEW r \in Requests, Launch(r) \/ CreateSpool(r) \/ WriteHeader(r)
      PROVE  CommandInv'
  BY <1>5 DEF Launch, CreateSpool, WriteHeader, gitVars
<1>6. ASSUME NEW r \in Requests, Capture(r)
      PROVE  CommandInv'
  BY <1>6, CommandLists DEF Capture, AfterExit, IsLast
<1> QED
  BY <1>1, <1>2, <1>3, <1>4, <1>5, <1>6 DEF Next, TaskStep

LEMMA PermitStep == TypeOK /\ PermitInv /\ [Next]_vars => PermitInv'
<1> SUFFICES ASSUME TypeOK, PermitInv, [Next]_vars
             PROVE  PermitInv'
  OBVIOUS
<1> USE DEF TypeOK, PermitInv, GitStages, Ready, Granted, Move, requestVars, workspaceVars
<1>1. CASE UNCHANGED vars
  BY <1>1 DEF vars
<1>2. CASE AuditBreaks
  BY <1>2 DEF AuditBreaks
<1>3. ASSUME NEW c \in Caps, Activate(c) \/ BeginClose(c) \/ Unregister(c)
      PROVE  PermitInv'
  BY <1>3 DEF Activate, BeginClose, Unregister, SetPhase
<1>4. ASSUME NEW c \in Caps, RestrictPolicy(c)
      PROVE  PermitInv'
  BY <1>4 DEF RestrictPolicy, Narrowable
<1>5. ASSUME NEW r \in Requests, AskPolicy(r)
      PROVE  PermitInv'
  BY <1>5 DEF AskPolicy
<1>6. ASSUME NEW r \in Requests, Decide(r)
      PROVE  PermitInv'
  BY <1>6 DEF Decide
<1>7. ASSUME NEW r \in Requests, \/ Receive(r) \/ Enter(r) \/ Leave(r) \/ DuplicateRoot(r)
                                \/ Launch(r) \/ CreateSpool(r) \/ WriteHeader(r)
                                \/ ChildExits(r) \/ Report(r) \/ Fail(r)
      PROVE  PermitInv'
  BY <1>7 DEF Receive, Enter, Leave, DuplicateRoot, Launch, CreateSpool, WriteHeader,
              ChildExits, Report, Fail, Answer
<1>8. ASSUME NEW r \in Requests, Capture(r) \/ CaptureFails(r) \/ TimesOut(r) \/ Overflows(r)
      PROVE  PermitInv'
  BY <1>8 DEF Capture, AfterExit, CaptureFails, TimesOut, Overflows, Stop
<1> QED
  BY <1>1, <1>2, <1>3, <1>4, <1>5, <1>6, <1>7, <1>8 DEF Next, TaskStep

LEMMA ChildStep == TypeOK /\ ChildInv /\ [Next]_vars => ChildInv'
<1> SUFFICES ASSUME TypeOK, ChildInv, [Next]_vars
             PROVE  ChildInv'
  OBVIOUS
<1> USE DEF TypeOK, ChildInv, Open, Answers, StagedPatch, Move, requestVars
<1>1. CASE UNCHANGED vars
  BY <1>1 DEF vars, gitVars
<1>2. CASE AuditBreaks \/ \E c \in Caps : Activate(c) \/ BeginClose(c) \/ Unregister(c)
                                          \/ RestrictPolicy(c)
  BY <1>2 DEF AuditBreaks, Activate, BeginClose, Unregister, SetPhase, RestrictPolicy, gitVars
<1>3. ASSUME NEW r \in Requests, \/ Receive(r) \/ AskPolicy(r) \/ Decide(r) \/ Enter(r)
                                \/ Leave(r) \/ DuplicateRoot(r)
      PROVE  ChildInv'
  BY <1>3 DEF Receive, AskPolicy, Decide, Enter, Leave, DuplicateRoot, gitVars
<1>4. ASSUME NEW r \in Requests, Launch(r)
      PROVE  ChildInv'
  BY <1>4 DEF Launch
<1>5. ASSUME NEW r \in Requests, CreateSpool(r)
      PROVE  ChildInv'
  BY <1>5 DEF CreateSpool, Terminate, Deregistered
<1>6. ASSUME NEW r \in Requests, WriteHeader(r)
      PROVE  ChildInv'
  BY <1>6 DEF WriteHeader, gitVars
<1>7. ASSUME NEW r \in Requests, ChildExits(r)
      PROVE  ChildInv'
  BY <1>7 DEF ChildExits
<1>8. ASSUME NEW r \in Requests, Capture(r)
      PROVE  ChildInv'
  BY <1>8 DEF Capture, AfterExit, Terminate, Deregistered
<1>9. ASSUME NEW r \in Requests, CaptureFails(r) \/ TimesOut(r) \/ Overflows(r)
      PROVE  ChildInv'
  BY <1>9 DEF CaptureFails, TimesOut, Overflows, Stop, Terminate, Deregistered
<1>10. ASSUME NEW r \in Requests, Report(r) \/ Fail(r)
       PROVE  ChildInv'
  BY <1>10 DEF Report, Fail, Answer, gitVars
<1> QED
  BY <1>1, <1>2, <1>3, <1>4, <1>5, <1>6, <1>7, <1>8, <1>9, <1>10 DEF Next, TaskStep

LEMMA LogStep == TypeOK /\ ChildInv /\ LogInv /\ [Next]_vars => LogInv'
<1> SUFFICES ASSUME TypeOK, ChildInv, LogInv, [Next]_vars
             PROVE  LogInv'
  OBVIOUS
<1> USE DEF TypeOK, LogInv, Undecided, Answers, Move, requestVars
<1>1. CASE UNCHANGED vars
  BY <1>1 DEF vars, gitVars
<1>2. CASE AuditBreaks \/ \E c \in Caps : Activate(c) \/ BeginClose(c) \/ Unregister(c)
                                          \/ RestrictPolicy(c)
  BY <1>2 DEF AuditBreaks, Activate, BeginClose, Unregister, SetPhase, RestrictPolicy, gitVars
<1>3. ASSUME NEW r \in Requests, Receive(r) \/ AskPolicy(r) \/ DuplicateRoot(r)
      PROVE  LogInv'
  BY <1>3 DEF Receive, AskPolicy, DuplicateRoot, gitVars
<1>4. ASSUME NEW r \in Requests, Decide(r)
      PROVE  LogInv'
  BY <1>4 DEF Decide, gitVars
<1>5. ASSUME NEW r \in Requests, Enter(r) \/ Leave(r)
      PROVE  LogInv'
  BY <1>5 DEF Enter, Leave, gitVars
<1>6. ASSUME NEW r \in Requests, Launch(r) \/ CreateSpool(r) \/ WriteHeader(r)
      PROVE  LogInv'
  BY <1>6 DEF Launch, CreateSpool, WriteHeader, Terminate, gitVars
<1>7. ASSUME NEW r \in Requests, ChildExits(r)
      PROVE  LogInv'
  BY <1>7 DEF ChildExits
<1>8. ASSUME NEW r \in Requests, Capture(r)
      PROVE  LogInv'
  BY <1>8 DEF Capture, AfterExit, Terminate
<1>9. ASSUME NEW r \in Requests, CaptureFails(r) \/ TimesOut(r) \/ Overflows(r)
      PROVE  LogInv'
  BY <1>9 DEF CaptureFails, TimesOut, Overflows, Stop, Terminate
<1>10. ASSUME NEW r \in Requests, Report(r) \/ Fail(r)
       PROVE  LogInv'
  BY <1>10 DEF Report, Fail, Answer, OutcomeOf, gitVars
<1> QED
  BY <1>1, <1>2, <1>3, <1>4, <1>5, <1>6, <1>7, <1>8, <1>9, <1>10 DEF Next, TaskStep

THEOREM Inductive == Safety => []IInv
<1>1. Init => IInv
  BY InvInit
<1>2. IInv /\ [Next]_vars => IInv'
  BY TypeStep, InsideStep, CommandStep, PermitStep, ChildStep, LogStep DEF IInv
<1> QED
  BY <1>1, <1>2, PTL DEF Safety

-----------------------------------------------------------------------------
(* The typing of the dispatcher's state.                                   *)
THEOREM DispatcherTypeCorrect == Safety => []TypeOK
<1>1. IInv => TypeOK
  BY DEF IInv
<1> QED
  BY <1>1, Inductive, PTL

(* However many tasks there are, no file operation is at work in a         *)
(* workspace whose begin_close has been answered (dispatcher.rs:1769).     *)
THEOREM CloseStopsFileWork == Safety => []FileWorkStopsAtClose
<1>1. IInv => FileWorkStopsAtClose
  BY DEF IInv, InsideInv, FileWorkStopsAtClose
<1> QED
  BY <1>1, Inductive, PTL

(* Only what the policy grants changes a workspace (dispatcher.rs:2053,    *)
(* 2310, 3466): permission is read early and cannot be withdrawn later.    *)
THEOREM OnlyGrantedChanges == Safety => []ChangesAreGranted
<1>1. IInv => ChangesAreGranted
  <2> SUFFICES ASSUME IInv, NEW r \in Requests, Changing(r)
               PROVE  Granted(r)
    BY DEF ChangesAreGranted
  <2>1. CASE pc[r] = "inside"
    BY <2>1 DEF IInv, InsideInv
  <2>2. CASE pc[r] \in {"launched", "capturing"} /\ Mode(r) = "change"
    <3>1. /\ kind[r] \in Kinds /\ command[r] \in 1 .. 4
          /\ command[r] <= Len(CommandsOf(kind[r])) /\ Len(CommandsOf(kind[r])) \in 0 .. 4
      BY <2>2, CommandLists DEF IInv, TypeOK, CommandInv, GitStages
    <3>2. AsksFirst(kind[r])
      BY <2>2, <3>1, CommandLists DEF Mode
    <3> QED
      BY <2>2, <3>2 DEF IInv, PermitInv, GitStages
  <2> QED
    BY <2>1, <2>2 DEF Changing
<1> QED
  BY <1>1, Inductive, PTL

(* Every exit of a Git command but one reaps the child and takes its       *)
(* record back (git.rs:2218-2306).                                         *)
THEOREM GitCleansUp == Safety => []GitLeavesNothing
<1>1. IInv => GitLeavesNothing
  BY DEF IInv, TypeOK, ChildInv, Open, Answers, Answered, GitLeavesNothing
<1> QED
  BY <1>1, Inductive, PTL

(* Decision before work, outcome before answer, and no success recorded    *)
(* for what failed (dispatcher.rs:1741-1796, 2043-2157).                   *)
THEOREM LogIsTruthful == Safety => []LogTellsTheTruth
<1>1. IInv => LogTellsTheTruth
  BY DEF IInv, LogInv, LogTellsTheTruth
<1> QED
  BY <1>1, Inductive, PTL

-----------------------------------------------------------------------------
(* Source state                                                            *)

Held     == Contents \union {NoFile}
Commits  == 0..MaxCommits
Letters  == {"U", ".", "D", "A", "M", "R", "?"}
Records  == [type : {"ordinary", "unmerged", "rename", "untracked"}, path : Paths, original : Paths \union {"none"},
             x : Letters, y : Letters, headOid : Held, indexOid : Held \union {Conflict},
             identity : [exists : BOOLEAN, sha : Held \union {"none"}, hashTruncated : BOOLEAN]]

SourceTypeOK ==
  /\ commit \in Commits
  /\ head \in [Paths -> Held] /\ worktree \in [Paths -> Held]
  /\ index \in [Paths -> Held \union {Conflict}]
  /\ during \in [Paths -> SUBSET Held]
  /\ scan \in [at : {"none", "identities", "accepted", "refused"}, headOid : Commits,
               todo : SUBSET Records, done : SUBSET Records, truncated : BOOLEAN]
  /\ evidence \in SUBSET [state : [headOid : Commits, changesFingerprint : SUBSET Records],
                          truncated : BOOLEAN, saw : [Paths -> SUBSET Held]]

(* What the records say of the contents of a path in the worktree when     *)
(* `git status` ran, `old` being the commit: a path without a record is as *)
(* committed, and one that was renamed away is gone.                       *)
Unlooked(records, p) == \A r \in records : r.path = p => ~NeedsIdentity(r)

Hashed(records, saw) == \A r \in records : NeedsIdentity(r) => r.identity.sha \in saw[r.path]
Explained(records, old, saw) ==
  \A p \in Paths : Unlooked(records, p) =>
    /\ \A r \in records : r.path = p => (IF r.y = "D" THEN NoFile ELSE r.indexOid) \in saw[p]
    /\ (\A r \in records : r.path # p) =>
         (IF \E r \in records : r.type = "rename" /\ r.original = p THEN NoFile ELSE old[p]) \in saw[p]

(* `past' is the history of HEAD.                                          *)
ScanInv(past) ==
  /\ scan.at # "none" =>
       /\ \A p \in Paths : worktree[p] \in during[p]
       /\ ~scan.truncated => Hashed(scan.done, during)
       /\ Explained(scan.todo \union scan.done, past[scan.headOid], during)
  /\ scan.at \in {"accepted", "refused"} => scan.todo = {}
  /\ scan.headOid <= commit
EvidenceInv(past) ==
  \A e \in evidence :
    /\ e.state.headOid <= commit
    /\ ~e.truncated => Hashed(e.state.changesFingerprint, e.saw)
    /\ Explained(e.state.changesFingerprint, past[e.state.headOid], e.saw)
SourceInv ==
  /\ SourceTypeOK
  /\ \E past \in [Commits -> [Paths -> Held]] : past[commit] = head /\ ScanInv(past) /\ EvidenceInv(past)

(* The status letters are of what differs.                                 *)
LEMMA StatusLetters ==
  ASSUME SourceTypeOK, NEW p \in Paths
  PROVE  /\ IndexStatus(p) \in {"U", ".", "D", "A", "M"} /\ WorktreeStatus(p) \in {"U", ".", "D", "M"}
         /\ IndexStatus(p) = "." => index[p] = head[p]
         /\ WorktreeStatus(p) = "." => index[p] \in {NoFile, worktree[p]}
         /\ WorktreeStatus(p) = "D" => worktree[p] = NoFile
<1>1. head[p] \in Held /\ worktree[p] \in Held /\ index[p] \in Held \union {Conflict}
  BY DEF SourceTypeOK
<1>2. /\ IndexStatus(p) \in {"U", ".", "D", "A", "M"}
      /\ IndexStatus(p) = "." => index[p] = head[p]
  BY <1>1, ContentAssumption DEF IndexStatus, Held
<1>3. /\ WorktreeStatus(p) \in {"U", ".", "D", "M"}
      /\ WorktreeStatus(p) = "." => index[p] \in {NoFile, worktree[p]}
      /\ WorktreeStatus(p) = "D" => worktree[p] = NoFile
  BY <1>1, ContentAssumption DEF WorktreeStatus, Held
<1> QED BY <1>2, <1>3

(* Every record of `git status' is about a path in one of three ways.      *)
LEMMA StatusRecordCases ==
  ASSUME SourceTypeOK, NEW r \in StatusRecords
  PROVE  /\ r \in Records /\ r.identity = NotTaken /\ r.indexOid = index[r.path]
         /\ \/ r.type \in {"ordinary", "unmerged"} /\ r.y = WorktreeStatus(r.path)
            \/ r.type = "rename" /\ r.y = WorktreeStatus(r.path) /\ Renamed(r.original, r.path)
            \/ r.type = "untracked" /\ r.y = "?"
<1>1. NotTaken \in [exists : BOOLEAN, sha : Held \union {"none"}, hashTruncated : BOOLEAN]
  BY DEF NotTaken
<1>2. ASSUME NEW p \in Paths
      PROVE  head[p] \in Held /\ index[p] \in Held \union {Conflict}
  BY <1>2 DEF SourceTypeOK
<1>3. ASSUME NEW type \in {"ordinary", "unmerged", "rename", "untracked"}, NEW p \in Paths,
             NEW o \in Paths \union {"none"}, NEW x \in Letters, NEW y \in Letters
      PROVE  /\ Record(type, p, o, x, y) \in Records
             /\ Record(type, p, o, x, y).identity = NotTaken /\ Record(type, p, o, x, y).indexOid = index[p]
             /\ Record(type, p, o, x, y).type = type /\ Record(type, p, o, x, y).path = p
             /\ Record(type, p, o, x, y).original = o /\ Record(type, p, o, x, y).y = y
  BY <1>1, <1>2 DEF Record, Records
<1>4. CASE \E p \in Paths, type \in {"ordinary", "unmerged"} :
             r = Record(type, p, "none", IndexStatus(p), WorktreeStatus(p))
  <2>1. PICK p \in Paths, type \in {"ordinary", "unmerged"} :
          r = Record(type, p, "none", IndexStatus(p), WorktreeStatus(p))
    BY <1>4
  <2>2. IndexStatus(p) \in Letters /\ WorktreeStatus(p) \in Letters
    BY StatusLetters DEF Letters
  <2> QED BY <2>1, <2>2, <1>3
<1>5. CASE \E p, q \in Paths : Renamed(p, q) /\ r = Record("rename", q, p, "R", WorktreeStatus(q))
  <2>1. PICK p \in Paths, q \in Paths : Renamed(p, q) /\ r = Record("rename", q, p, "R", WorktreeStatus(q))
    BY <1>5
  <2>2. WorktreeStatus(q) \in Letters /\ "R" \in Letters
    BY StatusLetters DEF Letters
  <2> QED BY <2>1, <2>2, <1>3
<1>6. CASE \E p \in Paths : r = Record("untracked", p, "none", ".", "?")
  <2>1. PICK p \in Paths : r = Record("untracked", p, "none", ".", "?")
    BY <1>6
  <2>2. "." \in Letters /\ "?" \in Letters
    BY DEF Letters
  <2> QED BY <2>1, <2>2, <1>3
<1>7. \/ \E p \in Paths, type \in {"ordinary", "unmerged"} :
            r = Record(type, p, "none", IndexStatus(p), WorktreeStatus(p))
      \/ \E p, q \in Paths : Renamed(p, q) /\ r = Record("rename", q, p, "R", WorktreeStatus(q))
      \/ \E p \in Paths : r = Record("untracked", p, "none", ".", "?")
  BY DEF StatusRecords
<1> QED BY <1>4, <1>5, <1>6, <1>7

(* The records of `git status' say what was in the worktree, but for the   *)
(* paths that are looked at afterwards.                                    *)
LEMMA StatusExplains ==
  ASSUME SourceTypeOK
  PROVE  Explained(StatusRecords, head, [p \in Paths |-> {worktree[p]}])
<1> SUFFICES ASSUME NEW p \in Paths, Unlooked(StatusRecords, p)
             PROVE  /\ \A r \in StatusRecords : r.path = p =>
                         (IF r.y = "D" THEN NoFile ELSE r.indexOid) = worktree[p]
                    /\ (\A r \in StatusRecords : r.path # p) =>
                         (IF \E r \in StatusRecords : r.type = "rename" /\ r.original = p
                            THEN NoFile ELSE head[p]) = worktree[p]
  BY DEF Explained
<1>1. ASSUME NEW type \in {"ordinary", "unmerged", "rename", "untracked"}, NEW q \in Paths, NEW o, NEW x, NEW y
      PROVE  LET s == Record(type, q, o, x, y)
             IN s.type = type /\ s.path = q /\ s.original = o /\ s.y = y
  BY DEF Record
<1>2. index[p] = NoFile => worktree[p] = NoFile
  <2>1. SUFFICES ASSUME index[p] = NoFile, worktree[p] # NoFile PROVE FALSE
    OBVIOUS
  <2>2. Record("untracked", p, "none", ".", "?") \in StatusRecords
    BY <2>1 DEF StatusRecords
  <2> QED BY <2>2, <1>1 DEF Unlooked, NeedsIdentity
<1>3. ASSUME NEW r \in StatusRecords, r.path = p
      PROVE  (IF r.y = "D" THEN NoFile ELSE r.indexOid) = worktree[p]
  <2>1. r.type # "untracked" /\ r.y \in {".", "D"}
    BY <1>3 DEF Unlooked, NeedsIdentity
  <2> QED BY <1>2, <1>3, <2>1, StatusRecordCases, StatusLetters
<1>4. ASSUME \A r \in StatusRecords : r.path # p
      PROVE  (IF \E r \in StatusRecords : r.type = "rename" /\ r.original = p THEN NoFile ELSE head[p]) = worktree[p]
  <2>1. CASE \E r \in StatusRecords : r.type = "rename" /\ r.original = p
    BY <1>2, <2>1, StatusRecordCases DEF Renamed
  <2>2. CASE ~\E r \in StatusRecords : r.type = "rename" /\ r.original = p
    <3>1. ASSUME NEW q \in Paths PROVE ~Renamed(p, q) /\ ~Renamed(q, p)
      <4>1. ASSUME Renamed(p, q) PROVE Record("rename", q, p, "R", WorktreeStatus(q)) \in StatusRecords
        <5>1. <<p, q>> \in {pq \in Paths \X Paths : Renamed(pq[1], pq[2])}
          BY <4>1
        <5> QED BY <5>1 DEF StatusRecords
      <4>2. ASSUME Renamed(q, p) PROVE Record("rename", p, q, "R", WorktreeStatus(p)) \in StatusRecords
        <5>1. <<q, p>> \in {pq \in Paths \X Paths : Renamed(pq[1], pq[2])}
          BY <4>2
        <5> QED BY <5>1 DEF StatusRecords
      <4> QED BY <4>1, <4>2, <2>2, <1>1, <1>4
    <3>2. IndexStatus(p) = "." /\ WorktreeStatus(p) = "."
      <4>1. SUFFICES ASSUME IndexStatus(p) # "." \/ WorktreeStatus(p) # "." PROVE FALSE
        OBVIOUS
      <4>2. Record(IF index[p] = Conflict THEN "unmerged" ELSE "ordinary", p, "none",
                   IndexStatus(p), WorktreeStatus(p)) \in StatusRecords
        BY <3>1, <4>1 DEF StatusRecords
      <4> QED BY <4>2, <1>1, <1>4
    <3> QED BY <2>2, <3>2, <1>2, StatusLetters
  <2> QED BY <2>1, <2>2
<1> QED BY <1>3, <1>4

(* Seeing more, and attaching an identity, leaves the explanation as it is. *)
LEMMA ExplainedGrows ==
  ASSUME NEW records, NEW old, NEW saw, NEW more, \A p \in Paths : saw[p] \subseteq more[p],
         Explained(records, old, saw)
  PROVE  Explained(records, old, more)
  BY DEF Explained

LEMMA ExplainedByShape ==
  ASSUME NEW R \in SUBSET Records, NEW S \in SUBSET Records, NEW old, NEW saw, Explained(R, old, saw),
         \A s \in S : \E r \in R : r.type = s.type /\ r.path = s.path /\ r.original = s.original
                                   /\ r.y = s.y /\ r.indexOid = s.indexOid,
         \A r \in R : \E s \in S : r.type = s.type /\ r.path = s.path /\ r.original = s.original
                                   /\ r.y = s.y /\ r.indexOid = s.indexOid
  PROVE  Explained(S, old, saw)
<1> SUFFICES ASSUME NEW p \in Paths, Unlooked(S, p)
             PROVE  /\ \A s \in S : s.path = p => (IF s.y = "D" THEN NoFile ELSE s.indexOid) \in saw[p]
                    /\ (\A s \in S : s.path # p) =>
                         (IF \E s \in S : s.type = "rename" /\ s.original = p THEN NoFile ELSE old[p]) \in saw[p]
  BY DEF Explained
<1>1. Unlooked(R, p)
  BY DEF Unlooked, NeedsIdentity
<1>2. /\ \A r \in R : r.path = p => (IF r.y = "D" THEN NoFile ELSE r.indexOid) \in saw[p]
      /\ (\A r \in R : r.path # p) =>
           (IF \E r \in R : r.type = "rename" /\ r.original = p THEN NoFile ELSE old[p]) \in saw[p]
  BY <1>1 DEF Explained
<1>3. ASSUME NEW s \in S, s.path = p PROVE (IF s.y = "D" THEN NoFile ELSE s.indexOid) \in saw[p]
  BY <1>2, <1>3
<1>4. ASSUME \A s \in S : s.path # p
      PROVE  (IF \E s \in S : s.type = "rename" /\ s.original = p THEN NoFile ELSE old[p]) \in saw[p]
  <2>1. \A r \in R : r.path # p
    BY <1>4
  <2>2. (\E s \in S : s.type = "rename" /\ s.original = p) <=> (\E r \in R : r.type = "rename" /\ r.original = p)
    OBVIOUS
  <2> QED BY <1>2, <2>1, <2>2
<1> QED BY <1>3, <1>4

(* What is attached is what the file was: it counts unless it truncates.   *)
LEMMA IdentityTells ==
  ASSUME SourceTypeOK, NEW p \in Paths
  PROVE  /\ Identity(p) \in [exists : BOOLEAN, sha : Held \union {"none"}, hashTruncated : BOOLEAN]
         /\ ~TruncatesAt(Identity(p)) => Identity(p).sha = worktree[p]
<1>1. worktree[p] \in Held
  BY DEF SourceTypeOK
<1>2. CASE worktree[p] = NoFile
  <2>1. Identity(p) = [exists |-> FALSE, sha |-> "none", hashTruncated |-> FALSE]
    BY <1>2, ContentAssumption DEF Identity
  <2> QED BY <2>1 DEF TruncatesAt
<1>3. CASE worktree[p] \in Big
  <2>1. Identity(p) = [exists |-> TRUE, sha |-> "none", hashTruncated |-> TRUE]
    BY <1>3, ContentAssumption DEF Identity
  <2> QED BY <2>1 DEF TruncatesAt
<1>4. CASE worktree[p] # NoFile /\ worktree[p] \notin Big
  <2>1. Identity(p) = [exists |-> TRUE, sha |-> worktree[p], hashTruncated |-> FALSE]
    BY <1>4 DEF Identity
  <2> QED BY <2>1, <1>1 DEF TruncatesAt
<1> QED BY <1>2, <1>3, <1>4

(* The repository, the scan and the evidence keep their types.             *)
LEMMA SourceTypeStep == SourceTypeOK /\ [SourceNext]_sourceVars => SourceTypeOK'
<1> SUFFICES ASSUME SourceTypeOK, [SourceNext]_sourceVars PROVE SourceTypeOK'
  OBVIOUS
<1> USE DEF SourceTypeOK
<1>1. ASSUME NEW p \in Paths, NEW c \in Contents \union {NoFile}, Write(p, c) PROVE SourceTypeOK'
  BY <1>1 DEF Write, Edited, Held
<1>2. ASSUME NEW p \in Paths, Stage(p) PROVE SourceTypeOK'
  BY <1>2 DEF Stage, Edited, Held
<1>3. ASSUME NEW p \in Paths, Collide(p) PROVE SourceTypeOK'
  BY <1>3 DEF Collide, Edited
<1>4. ASSUME Commit PROVE SourceTypeOK'
  <2>1. commit' \in Commits
    BY <1>4, ContentAssumption DEF Commit, Commits
  <2>2. index \in [Paths -> Held]
    BY <1>4 DEF Commit
  <2> QED BY <1>4, <2>1, <2>2 DEF Commit, Edited
<1>5. ASSUME Status PROVE SourceTypeOK'
  <2>1. StatusRecords \subseteq Records
    BY StatusRecordCases
  <2>2. during' \in [Paths -> SUBSET Held]
    BY <1>5 DEF Status
  <2> QED BY <1>5, <2>1, <2>2 DEF Status
<1>6. ASSUME NEW r \in scan.todo, Attach(r) PROVE SourceTypeOK'
  <2>1. r \in Records
    OBVIOUS
  <2>2. \A i \in [exists : BOOLEAN, sha : Held \union {"none"}, hashTruncated : BOOLEAN] :
          [r EXCEPT !.identity = i] \in Records
    BY <2>1 DEF Records
  <2>3. (IF NeedsIdentity(r) THEN Identity(r.path) ELSE NotTaken)
          \in [exists : BOOLEAN, sha : Held \union {"none"}, hashTruncated : BOOLEAN]
    BY <2>1, IdentityTells DEF NotTaken, Records
  <2>4. (scan.truncated \/ (NeedsIdentity(r)
                            /\ TruncatesAt(IF NeedsIdentity(r) THEN Identity(r.path) ELSE NotTaken))) \in BOOLEAN
    BY <2>3 DEF NeedsIdentity, TruncatesAt
  <2> QED BY ZenonT(60), <1>6, <2>2, <2>3, <2>4 DEF Attach
<1>7. ASSUME Validate PROVE SourceTypeOK'
  BY <1>7 DEF Validate
<1>8. ASSUME CheckpointFails PROVE SourceTypeOK'
  BY <1>8, ContentAssumption DEF CheckpointFails, NoScan, Commits
<1>9. ASSUME Bind PROVE SourceTypeOK'
  BY <1>9, ContentAssumption DEF Bind, NoScan, SourceStateOf, Commits
<1> QED
  BY <1>1, <1>2, <1>3, <1>4, <1>5, <1>6, <1>7, <1>8, <1>9 DEF SourceNext, sourceVars

(* The history of HEAD begins.                                             *)
LEMMA SourceStarts == SourceInit => SourceInv
<1> SUFFICES ASSUME SourceInit PROVE SourceInv
  OBVIOUS
<1>1. 0 \in Commits
  BY ContentAssumption DEF Commits
<1>2. SourceTypeOK
  BY <1>1 DEF SourceInit, SourceTypeOK, NoScan, Held
<1> DEFINE past == [k \in Commits |-> head]
<1>3. past \in [Commits -> [Paths -> Held]] /\ past[commit] = head
  BY <1>1, <1>2 DEF SourceInit, SourceTypeOK
<1>4. ScanInv(past) /\ EvidenceInv(past)
  BY DEF SourceInit, ScanInv, EvidenceInv, NoScan
<1> HIDE DEF past
<1> QED BY <1>2, <1>3, <1>4 DEF SourceInv

(* The history of HEAD, as far as it has gone, explains what was seen.     *)
LEMMA PastStep ==
  ASSUME SourceTypeOK, SourceTypeOK', [SourceNext]_sourceVars,
         NEW past \in [Commits -> [Paths -> Held]], past[commit] = head, ScanInv(past), EvidenceInv(past)
  PROVE  \E more \in [Commits -> [Paths -> Held]] : more[commit'] = head' /\ ScanInv(more)' /\ EvidenceInv(more)'
<1>1. ASSUME NEW p \in Paths, NEW c \in Contents \union {NoFile}, Write(p, c)
      PROVE  past[commit'] = head' /\ ScanInv(past)' /\ EvidenceInv(past)'
  <2>1. UNCHANGED <<commit, head, index, scan, evidence>>
    BY <1>1 DEF Write, Edited
  <2>2. \A q \in Paths : during[q] \subseteq during'[q]
    BY <1>1 DEF Write, SourceTypeOK
  <2>3. \A q \in Paths : worktree[q] \in during[q] => worktree'[q] \in during'[q]
    BY <1>1 DEF Write, SourceTypeOK
  <2>4. EvidenceInv(past)'
    BY <2>1 DEF EvidenceInv
  <2>5. scan.at # "none" => Explained(scan.todo \union scan.done, past[scan.headOid], during')
    BY <2>2, ExplainedGrows DEF ScanInv
  <2>6. scan.at # "none" /\ ~scan.truncated => Hashed(scan.done, during')
    BY <2>2 DEF ScanInv, Hashed, SourceTypeOK, Records
  <2> QED BY <2>1, <2>3, <2>4, <2>5, <2>6 DEF ScanInv
<1>2. ASSUME NEW p \in Paths, Stage(p) \/ Collide(p)
      PROVE  past[commit'] = head' /\ ScanInv(past)' /\ EvidenceInv(past)'
  BY <1>2 DEF Stage, Collide, Edited, ScanInv, EvidenceInv
<1>3. ASSUME Commit
      PROVE  \E more \in [Commits -> [Paths -> Held]] : more[commit'] = head' /\ ScanInv(more)' /\ EvidenceInv(more)'
  <2>1. commit + 1 \in Commits /\ commit \in Nat /\ commit' = commit + 1 /\ head' = index
    BY <1>3, ContentAssumption DEF Commit, Commits, SourceTypeOK
  <2>2. index \in [Paths -> Held]
    BY <1>3 DEF Commit, SourceTypeOK
  <2>3. commit' = commit + 1 /\ \A k \in Commits : k <= commit => k <= commit'
    BY <2>1 DEF Commits
  <2>4. PICK more \in [Commits -> [Paths -> Held]] :
          more[commit'] = index /\ \A k \in Commits : k <= commit => more[k] = past[k]
    <3> DEFINE f == [past EXCEPT ![commit + 1] = index]
    <3>1. f \in [Commits -> [Paths -> Held]] /\ f[commit + 1] = index
      BY <2>1, <2>2
    <3>2. \A k \in Commits : k <= commit => f[k] = past[k]
      BY <2>1 DEF Commits
    <3> HIDE DEF f
    <3> QED BY <2>3, <3>1, <3>2
  <2>5. UNCHANGED <<worktree, scan, during, evidence>>
    BY <1>3 DEF Commit, Edited
  <2>6. ScanInv(more)'
    <3>1. scan.headOid \in Commits /\ scan.headOid <= commit
      BY DEF ScanInv, SourceTypeOK
    <3>2. more[scan.headOid] = past[scan.headOid] /\ scan.headOid <= commit'
      BY <2>3, <2>4, <3>1
    <3> QED BY <2>5, <3>2 DEF ScanInv
  <2>7. EvidenceInv(more)'
    <3>1. ASSUME NEW e \in evidence
          PROVE  more[e.state.headOid] = past[e.state.headOid] /\ e.state.headOid <= commit'
      <4>1. e.state.headOid \in Commits /\ e.state.headOid <= commit
        BY DEF EvidenceInv, SourceTypeOK
      <4> QED BY <2>3, <2>4, <4>1
    <3> QED BY <2>5, <3>1 DEF EvidenceInv
  <2> QED BY <2>1, <2>4, <2>6, <2>7
<1>4. ASSUME Status PROVE past[commit'] = head' /\ ScanInv(past)' /\ EvidenceInv(past)'
  <2>1. /\ scan' = [at |-> "identities", headOid |-> commit, done |-> {}, truncated |-> FALSE,
                    todo |-> StatusRecords]
        /\ during' = [p \in Paths |-> {worktree[p]}]
        /\ UNCHANGED <<commit, head, worktree, evidence>>
    BY <1>4 DEF Status
  <2>2. Explained(StatusRecords, past[commit], during')
    BY <2>1, StatusExplains
  <2>3. /\ scan'.todo \union scan'.done = StatusRecords /\ scan'.headOid = commit
        /\ scan'.done = {} /\ scan'.at = "identities" /\ commit <= commit
    BY <2>1 DEF SourceTypeOK, Commits
  <2>4. ScanInv(past)'
    BY <2>1, <2>2, <2>3 DEF ScanInv, Hashed
  <2> QED BY <2>1, <2>4 DEF EvidenceInv
<1>5. ASSUME NEW r \in scan.todo, Attach(r) PROVE past[commit'] = head' /\ ScanInv(past)' /\ EvidenceInv(past)'
  <2> DEFINE i == IF NeedsIdentity(r) THEN Identity(r.path) ELSE NotTaken
             s == [r EXCEPT !.identity = i]
  <2>1. /\ scan.at = "identities"
        /\ scan' = [scan EXCEPT !.todo = @ \ {r}, !.done = @ \union {s},
                                !.truncated = @ \/ (NeedsIdentity(r) /\ TruncatesAt(i))]
        /\ UNCHANGED <<commit, head, worktree, during, evidence>>
    BY <1>5 DEF Attach
  <2>2. /\ r \in Records /\ scan.todo \subseteq Records /\ scan.done \subseteq Records
        /\ scan'.todo \subseteq Records /\ scan'.done \subseteq Records
    BY DEF SourceTypeOK
  <2>3. /\ s.type = r.type /\ s.path = r.path /\ s.original = r.original /\ s.y = r.y /\ s.indexOid = r.indexOid
        /\ s.identity = i
    BY <2>2 DEF Records
  <2> HIDE DEF s, i
  <2>4. /\ scan'.todo = scan.todo \ {r} /\ scan'.done = scan.done \union {s} /\ scan'.at = "identities"
        /\ scan'.headOid = scan.headOid
        /\ ~scan'.truncated => ~scan.truncated /\ ~(NeedsIdentity(r) /\ TruncatesAt(i))
    BY <2>1 DEF SourceTypeOK
  <2>5. Explained(scan'.todo \union scan'.done, past[scan.headOid], during)
    <3>1. Explained(scan.todo \union scan.done, past[scan.headOid], during)
      BY <2>1 DEF ScanInv
    <3> DEFINE R == scan.todo \union scan.done
               S == scan'.todo \union scan'.done
    <3>2. R \in SUBSET Records /\ S \in SUBSET Records
      BY <2>2
    <3>3. \A z \in S : z \in R \/ z = s
      BY <2>4
    <3>4. \A z \in R : z \in S \/ z = r
      BY <2>4
    <3>5. r \in R /\ s \in S
      BY <2>4
    <3> HIDE DEF R, S
    <3>6. \A z \in S : \E y \in R : y.type = z.type /\ y.path = z.path /\ y.original = z.original
                                     /\ y.y = z.y /\ y.indexOid = z.indexOid
      BY <2>3, <3>3, <3>5
    <3>7. \A y \in R : \E z \in S : y.type = z.type /\ y.path = z.path /\ y.original = z.original
                                     /\ y.y = z.y /\ y.indexOid = z.indexOid
      BY <2>3, <3>4, <3>5
    <3>8. Explained(R, past[scan.headOid], during)
      BY <3>1 DEF R
    <3>9. Explained(S, past[scan.headOid], during)
      BY <3>2, <3>6, <3>7, <3>8, ExplainedByShape
    <3> QED BY <3>9 DEF S
  <2>6. ASSUME ~scan'.truncated PROVE Hashed(scan'.done, during)
    <3>1. Hashed(scan.done, during)
      BY <2>1, <2>4, <2>6 DEF ScanInv
    <3>2. NeedsIdentity(s) => s.identity.sha \in during[s.path]
      <4>1. SUFFICES ASSUME NeedsIdentity(r) PROVE i.sha \in during[r.path]
        BY <2>3 DEF NeedsIdentity
      <4>2. i = Identity(r.path) /\ ~TruncatesAt(i) /\ r.path \in Paths
        BY <2>2, <2>4, <2>6, <4>1 DEF i, Records
      <4>3. worktree[r.path] \in during[r.path]
        BY <2>1, <4>2 DEF ScanInv
      <4> QED BY <4>2, <4>3, IdentityTells
    <3> QED BY <2>4, <3>1, <3>2 DEF Hashed
  <2> QED BY <2>1, <2>4, <2>5, <2>6 DEF ScanInv, EvidenceInv
<1>6. ASSUME Validate PROVE past[commit'] = head' /\ ScanInv(past)' /\ EvidenceInv(past)'
  <2>1. /\ scan.at = "identities" /\ scan.todo = {}
        /\ scan'.todo = {} /\ scan'.done = scan.done /\ scan'.headOid = scan.headOid
        /\ scan'.truncated = scan.truncated
        /\ UNCHANGED <<commit, head, worktree, during, evidence>>
    BY <1>6 DEF Validate, SourceTypeOK
  <2> QED BY <2>1 DEF ScanInv, EvidenceInv
<1>7. ASSUME CheckpointFails PROVE past[commit'] = head' /\ ScanInv(past)' /\ EvidenceInv(past)'
  BY <1>7 DEF CheckpointFails, NoScan, ScanInv, EvidenceInv, SourceTypeOK, Commits
<1>8. ASSUME Bind PROVE past[commit'] = head' /\ ScanInv(past)' /\ EvidenceInv(past)'
  <2>1. /\ scan.at = "accepted" /\ scan' = NoScan /\ UNCHANGED <<commit, head, worktree, during>>
        /\ evidence' = {[state |-> [headOid |-> scan.headOid, changesFingerprint |-> scan.done],
                         truncated |-> scan.truncated, saw |-> during]}
    BY <1>8 DEF Bind, SourceStateOf
  <2>2. ScanInv(past)'
    BY <2>1 DEF NoScan, ScanInv, SourceTypeOK, Commits
  <2>3. scan.todo \union scan.done = scan.done
    BY <2>1 DEF ScanInv
  <2>4. /\ scan.headOid <= commit
        /\ ~scan.truncated => Hashed(scan.done, during)
        /\ Explained(scan.done, past[scan.headOid], during)
    BY <2>1, <2>3 DEF ScanInv
  <2>5. EvidenceInv(past)'
    <3>1. ASSUME NEW e \in evidence'
          PROVE  /\ e.state.headOid = scan.headOid /\ e.state.changesFingerprint = scan.done
                 /\ e.truncated = scan.truncated /\ e.saw = during
      BY <2>1, <3>1
    <3>2. ASSUME NEW e \in evidence'
          PROVE  /\ e.state.headOid <= commit'
                 /\ ~e.truncated => Hashed(e.state.changesFingerprint, e.saw)
                 /\ Explained(e.state.changesFingerprint, past[e.state.headOid], e.saw)
      <4>1. e.state.headOid <= commit'
        BY <2>1, <2>4, <3>1
      <4>2. ASSUME ~e.truncated PROVE Hashed(e.state.changesFingerprint, e.saw)
        BY <2>4, <3>1, <4>2
      <4>3. Explained(e.state.changesFingerprint, past[e.state.headOid], e.saw)
        BY <2>4, <3>1
      <4> QED BY <4>1, <4>2, <4>3
    <3> QED BY <3>2 DEF EvidenceInv
  <2> QED BY <2>1, <2>2, <2>5
<1>9. ASSUME UNCHANGED sourceVars PROVE past[commit'] = head' /\ ScanInv(past)' /\ EvidenceInv(past)'
  BY <1>9 DEF sourceVars, ScanInv, EvidenceInv
<1> QED
  BY <1>1, <1>2, <1>3, <1>4, <1>5, <1>6, <1>7, <1>8, <1>9 DEF SourceNext

(* Two scans with the same records saw the same contents.                  *)
LEMMA SourceFresh == SourceInv => FreshEvidenceSawTheseFiles
<1> SUFFICES ASSUME SourceInv, NEW e \in evidence, Fresh(e), ~e.truncated, ~scan.truncated, NEW p \in Paths
             PROVE  \E c : c \in e.saw[p] /\ c \in during[p]
  BY DEF FreshEvidenceSawTheseFiles
<1>1. PICK past \in [Commits -> [Paths -> Held]] : ScanInv(past) /\ EvidenceInv(past)
  BY DEF SourceInv
<1> DEFINE R   == scan.done
           old == past[scan.headOid]
<1>2. /\ scan.at = "accepted" /\ e.state.headOid = scan.headOid /\ e.state.changesFingerprint = R
  BY DEF Fresh, SourceStateOf
<1>3. scan.todo \union scan.done = scan.done
  BY <1>1, <1>2 DEF ScanInv
<1>4. Hashed(R, e.saw) /\ Hashed(R, during) /\ Explained(R, old, e.saw) /\ Explained(R, old, during)
  BY <1>1, <1>2, <1>3 DEF ScanInv, EvidenceInv
<1> HIDE DEF R, old
<1>5. CASE ~Unlooked(R, p)
  <2>1. PICK r \in R : r.path = p /\ NeedsIdentity(r)
    BY <1>5 DEF Unlooked
  <2> QED BY <1>4, <2>1 DEF Hashed
<1>6. CASE Unlooked(R, p)
  <2>1. CASE \E r \in R : r.path = p
    BY <1>4, <1>6, <2>1 DEF Explained
  <2>2. CASE \A r \in R : r.path # p
    BY <1>4, <1>6, <2>2 DEF Explained
  <2> QED BY <2>1, <2>2
<1> QED BY <1>5, <1>6

(* Evidence that verify.run, a preview or a browser was bound to, and that *)
(* git.changes finds fresh, is about the files as they are now, whatever   *)
(* was written, staged or committed while either scan looked, for any      *)
(* paths and contents and any number of commits.                           *)
THEOREM FreshEvidenceIsAboutTheseFiles == SourceSpec => []FreshEvidenceSawTheseFiles
<1>1. SourceInit => SourceInv
  BY SourceStarts
<1>2. SourceInv /\ [SourceNext]_sourceVars => SourceInv'
  <2> SUFFICES ASSUME SourceInv, [SourceNext]_sourceVars PROVE SourceInv'
    OBVIOUS
  <2>1. SourceTypeOK'
    BY SourceTypeStep DEF SourceInv
  <2>2. PICK past \in [Commits -> [Paths -> Held]] : past[commit] = head /\ ScanInv(past) /\ EvidenceInv(past)
    BY DEF SourceInv
  <2>3. \E more \in [Commits -> [Paths -> Held]] : more[commit'] = head' /\ ScanInv(more)' /\ EvidenceInv(more)'
    BY <2>1, <2>2, PastStep DEF SourceInv
  <2> QED BY <2>1, <2>3 DEF SourceInv
<1>3. SourceInv => FreshEvidenceSawTheseFiles
  BY SourceFresh
<1> QED BY <1>1, <1>2, <1>3, PTL DEF SourceSpec

-----------------------------------------------------------------------------
(* What the hunks of a patch make of a file                                *)

(* Induction over the numbers without a predicate: a set that has 0, and   *)
(* n + 1 whenever it has n, has them all.                                  *)
LEMMA NumberInduction ==
  ASSUME NEW G, 0 \in G, \A n \in Nat : n \in G => n + 1 \in G
  PROVE  Nat \subseteq G
<1> SUFFICES ASSUME NEW m \in Nat, m \notin G PROVE FALSE
  OBVIOUS
<1> DEFINE less == {ij \in Nat \X Nat : ij[1] < ij[2]}
           rest == {n \in Nat : n \notin G}
<1>1. IsWellFoundedOn(less, Nat)
  BY NatLessThanWellFounded DEF OpToRel
<1>2. PICK n \in rest : \A k \in rest : <<k, n>> \notin less
  <2>1. rest \subseteq Nat /\ rest # {}
    OBVIOUS
  <2> HIDE DEF less, rest
  <2> QED
    BY <1>1, <2>1, WFMin
<1>3. n # 0
  OBVIOUS
<1>4. n - 1 \in Nat /\ (n - 1) + 1 = n /\ <<n - 1, n>> \in less
  BY <1>3
<1>5. n - 1 \in G
  BY <1>2, <1>4
<1> QED
  BY <1>4, <1>5

(* Two windows that have the same lines are the same sequence.             *)
LEMMA SameWindow ==
  ASSUME NEW S, NEW s \in Seq(S), NEW t \in Seq(S), NEW m \in Nat \ {0}, NEW l \in Nat, NEW k \in Nat \ {0}, NEW h \in Nat,
         l - m = h - k, l <= Len(s), h <= Len(t), \A j \in m..l : s[j] = t[j + k - m]
  PROVE  SubSeq(s, m, l) = SubSeq(t, k, h)
<1>1. /\ \A i \in m..l : s[i] \in S
      /\ \A i \in k..h : t[i] \in S
  BY ElementOfSeq, LenProperties
<1>2. /\ SubSeq(s, m, l) \in Seq(S) /\ Len(SubSeq(s, m, l)) = IF m <= l THEN l - m + 1 ELSE 0
      /\ \A j \in 1..(l - m + 1) : SubSeq(s, m, l)[j] = s[m + j - 1]
  BY <1>1, SubSeqProperties
<1>3. /\ SubSeq(t, k, h) \in Seq(S) /\ Len(SubSeq(t, k, h)) = IF k <= h THEN h - k + 1 ELSE 0
      /\ \A j \in 1..(h - k + 1) : SubSeq(t, k, h)[j] = t[k + j - 1]
  BY <1>1, SubSeqProperties
<1>4. ASSUME NEW j \in 1..(l - m + 1) PROVE SubSeq(s, m, l)[j] = SubSeq(t, k, h)[j]
  <2>1. m + j - 1 \in m..l /\ (m + j - 1) + k - m = k + j - 1 /\ j \in 1..(h - k + 1)
    OBVIOUS
  <2>2. s[m + j - 1] = t[(m + j - 1) + k - m]
    BY <2>1
  <2> QED
    BY <2>1, <2>2, <1>2, <1>3
<1> QED
  BY <1>2, <1>3, <1>4, SeqEqual

LEMMA WholeWindow ==
  ASSUME NEW S, NEW s \in Seq(S), NEW t \in Seq(S), NEW a \in Nat,
         a + Len(t) <= Len(s), \A j \in 1..Len(t) : s[a + j] = t[j]
  PROVE  SubSeq(s, a + 1, a + Len(t)) = t
<1>1. Len(t) \in Nat
  BY LenProperties
<1>2. ASSUME NEW j \in (a + 1)..(a + Len(t)) PROVE s[j] = t[j + 1 - (a + 1)]
  <2>1. j - a \in 1..Len(t) /\ a + (j - a) = j /\ j - a = j + 1 - (a + 1)
    BY <1>1
  <2> QED
    BY <2>1
<1>3. a + 1 \in Nat \ {0} /\ a + Len(t) \in Nat /\ (a + Len(t)) - (a + 1) = Len(t) - 1
  BY <1>1
<1>4. SubSeq(s, a + 1, a + Len(t)) = SubSeq(t, 1, Len(t))
  BY <1>1, <1>2, <1>3, SameWindow
<1> QED
  BY <1>4, SubSeqFull

-----------------------------------------------------------------------------
(* The sides of a hunk, and its lines applied one by one, are what their   *)
(* recursive definitions say.                                              *)
SideUpTo(lines, without, n, f) ==
  f = [k \in 0..n |-> IF k = 0 THEN <<>>
                       ELSE IF lines[k].kind = without THEN f[k - 1] ELSE Append(f[k - 1], lines[k].text)]

LEMMA SideRuns ==
  ASSUME NEW lines, Len(lines) \in Nat, NEW without
  PROVE  \E f : SideUpTo(lines, without, Len(lines), f) /\ Side(lines, without) = f[Len(lines)]
<1> DEFINE G == {k \in Nat : \E f : SideUpTo(lines, without, k, f)}
<1>1. 0 \in G
  <2>1. SideUpTo(lines, without, 0, [k \in 0..0 |-> <<>>])
    BY DEF SideUpTo
  <2> QED
    BY <2>1
<1>2. ASSUME NEW n \in Nat, n \in G PROVE n + 1 \in G
  <2>1. PICK g : SideUpTo(lines, without, n, g)
    BY <1>2
  <2> DEFINE step(k) == IF lines[k].kind = without THEN g[k - 1] ELSE Append(g[k - 1], lines[k].text)
             f == [k \in 0..(n + 1) |-> IF k = 0 THEN <<>> ELSE step(k)]
  <2>2. \A k \in 0..n : g[k] = (IF k = 0 THEN <<>> ELSE step(k))
    <3> HIDE DEF f
    <3> QED
      BY <2>1 DEF SideUpTo
  <2>3. \A k \in 0..n : f[k] = g[k]
    <3> HIDE DEF step
    <3> QED
      BY <2>2
  <2>4. \A k \in 0..(n + 1) : k # 0 => f[k - 1] = g[k - 1]
    <3> HIDE DEF f
    <3> QED
      BY <2>3
  <2>5. f = [k \in 0..(n + 1) |-> IF k = 0 THEN <<>>
                ELSE IF lines[k].kind = without THEN f[k - 1] ELSE Append(f[k - 1], lines[k].text)]
    BY <2>4
  <2>6. SideUpTo(lines, without, n + 1, f)
    <3> HIDE DEF f
    <3> QED
      BY <2>5 DEF SideUpTo
  <2> QED
    BY <2>6
<1>3. Len(lines) \in G
  <2> HIDE DEF G
  <2> QED
    BY <1>1, <1>2, NumberInduction
<1> DEFINE upTo == CHOOSE f : SideUpTo(lines, without, Len(lines), f)
<1>4. SideUpTo(lines, without, Len(lines), upTo)
  BY <1>3
<1>5. Side(lines, without) = upTo[Len(lines)]
  BY DEF Side, SideUpTo
<1> QED
  BY <1>4, <1>5

LinesUpTo(start, lines, source, n, f) ==
  f = [k \in 0..n |-> IF k = 0 THEN start ELSE ApplyLine(f[k - 1], lines[k], source)]

LEMMA LinesRun ==
  ASSUME NEW lines, Len(lines) \in Nat, NEW start, NEW source
  PROVE  \E f : LinesUpTo(start, lines, source, Len(lines), f) /\ ApplyLines(start, lines, source) = f[Len(lines)]
<1> DEFINE G == {k \in Nat : \E f : LinesUpTo(start, lines, source, k, f)}
<1>1. 0 \in G
  <2>1. LinesUpTo(start, lines, source, 0, [k \in 0..0 |-> start])
    BY DEF LinesUpTo
  <2> QED
    BY <2>1
<1>2. ASSUME NEW n \in Nat, n \in G PROVE n + 1 \in G
  <2>1. PICK g : LinesUpTo(start, lines, source, n, g)
    BY <1>2
  <2> DEFINE f == [k \in 0..(n + 1) |-> IF k = 0 THEN start ELSE ApplyLine(g[k - 1], lines[k], source)]
  <2>2. \A k \in 0..n : g[k] = (IF k = 0 THEN start ELSE ApplyLine(g[k - 1], lines[k], source))
    <3> HIDE DEF f
    <3> QED
      BY <2>1 DEF LinesUpTo
  <2>3. \A k \in 0..n : f[k] = g[k]
    BY <2>2
  <2>4. \A k \in 0..(n + 1) : k # 0 => f[k - 1] = g[k - 1]
    <3> HIDE DEF f
    <3> QED
      BY <2>3
  <2>5. f = [k \in 0..(n + 1) |-> IF k = 0 THEN start ELSE ApplyLine(f[k - 1], lines[k], source)]
    BY <2>4
  <2>6. LinesUpTo(start, lines, source, n + 1, f)
    <3> HIDE DEF f
    <3> QED
      BY <2>5 DEF LinesUpTo
  <2> QED
    BY <2>6
<1>3. Len(lines) \in G
  <2> HIDE DEF G
  <2> QED
    BY <1>1, <1>2, NumberInduction
<1> DEFINE upTo == CHOOSE f : LinesUpTo(start, lines, source, Len(lines), f)
<1>4. LinesUpTo(start, lines, source, Len(lines), upTo)
  BY <1>3
<1>5. ApplyLines(start, lines, source) = upTo[Len(lines)]
  BY DEF ApplyLines, LinesUpTo
<1> QED
  BY <1>4, <1>5

HunksUpTo(source, hunks, n, f) ==
  f = [k \in 0..n |-> IF k = 0 THEN Begun ELSE ApplyHunk(f[k - 1], hunks[k], source)]

LEMMA HunksRun ==
  ASSUME NEW hunks, Len(hunks) \in Nat, NEW source
  PROVE  \E f : /\ HunksUpTo(source, hunks, Len(hunks), f)
                /\ ApplyHunks(source, hunks).ok = f[Len(hunks)].ok
                /\ ApplyHunks(source, hunks).next =
                     f[Len(hunks)].output \o SubSeq(source, f[Len(hunks)].cursor + 1, Len(source))
<1> DEFINE G == {k \in Nat : \E f : HunksUpTo(source, hunks, k, f)}
<1>1. 0 \in G
  <2>1. HunksUpTo(source, hunks, 0, [k \in 0..0 |-> Begun])
    BY DEF HunksUpTo
  <2> QED
    BY <2>1
<1>2. ASSUME NEW n \in Nat, n \in G PROVE n + 1 \in G
  <2>1. PICK g : HunksUpTo(source, hunks, n, g)
    BY <1>2
  <2> DEFINE f == [k \in 0..(n + 1) |-> IF k = 0 THEN Begun ELSE ApplyHunk(g[k - 1], hunks[k], source)]
  <2>2. \A k \in 0..n : g[k] = (IF k = 0 THEN Begun ELSE ApplyHunk(g[k - 1], hunks[k], source))
    <3> HIDE DEF f
    <3> QED
      BY <2>1 DEF HunksUpTo
  <2>3. \A k \in 0..n : f[k] = g[k]
    BY <2>2
  <2>4. \A k \in 0..(n + 1) : k # 0 => f[k - 1] = g[k - 1]
    <3> HIDE DEF f
    <3> QED
      BY <2>3
  <2>5. f = [k \in 0..(n + 1) |-> IF k = 0 THEN Begun ELSE ApplyHunk(f[k - 1], hunks[k], source)]
    BY <2>4
  <2>6. HunksUpTo(source, hunks, n + 1, f)
    <3> HIDE DEF f
    <3> QED
      BY <2>5 DEF HunksUpTo
  <2> QED
    BY <2>6
<1>3. Len(hunks) \in G
  <2> HIDE DEF G
  <2> QED
    BY <1>1, <1>2, NumberInduction
<1> DEFINE upTo == CHOOSE f : HunksUpTo(source, hunks, Len(hunks), f)
<1>4. HunksUpTo(source, hunks, Len(hunks), upTo)
  BY <1>3
<1>5. ApplyHunks(source, hunks) =
        [ok   |-> upTo[Len(hunks)].ok,
         next |-> upTo[Len(hunks)].output \o SubSeq(source, upTo[Len(hunks)].cursor + 1, Len(source))]
  BY DEF ApplyHunks, HunksUpTo
<1>6. /\ ApplyHunks(source, hunks).ok = upTo[Len(hunks)].ok
      /\ ApplyHunks(source, hunks).next =
           upTo[Len(hunks)].output \o SubSeq(source, upTo[Len(hunks)].cursor + 1, Len(source))
  <2> DEFINE okay == upTo[Len(hunks)].ok
             all == upTo[Len(hunks)].output \o SubSeq(source, upTo[Len(hunks)].cursor + 1, Len(source))
  <2>1. ApplyHunks(source, hunks) = [ok |-> okay, next |-> all]
    BY <1>5
  <2> HIDE DEF okay, all
  <2>2. ApplyHunks(source, hunks).ok = okay /\ ApplyHunks(source, hunks).next = all
    BY <2>1
  <2> QED
    BY <2>2 DEF okay, all
<1> QED
  BY <1>4, <1>6

-----------------------------------------------------------------------------
(* A hunk's lines, applied, have used its old side and put out its new one.*)
Runs == [ok : BOOLEAN, cursor : Nat, output : Seq(Lines), delta : Int]

LEMMA LineApplies ==
  ASSUME NEW source \in Seq(Lines), NEW done \in Runs, done.cursor <= Len(source), NEW line \in ParsedLines
  PROVE  LET end == ApplyLine(done, line, source)
         IN /\ end \in Runs /\ end.cursor <= Len(source) /\ end.delta = done.delta
            /\ end.ok =>
                 /\ done.ok
                 /\ end.cursor = IF line.kind = "add" THEN done.cursor ELSE done.cursor + 1
                 /\ end.output = IF line.kind = "remove" THEN done.output ELSE Append(done.output, line.text)
                 /\ line.kind # "add" => source[done.cursor + 1] = line.text
<1>1. line.text \in Lines /\ line.kind \in {"context", "add", "remove"}
  BY DEF ParsedLines
<1>2. done.output \in Seq(Lines) /\ Append(done.output, line.text) \in Seq(Lines)
  BY <1>1, AppendProperties DEF Runs
<1>3. Len(source) \in Nat
  BY LenProperties
<1> HIDE DEF ParsedLines
<1>4. CASE line.kind = "add"
  <2>1. ApplyLine(done, line, source) = [done EXCEPT !.output = Append(@, line.text)]
    BY <1>4 DEF ApplyLine
  <2> QED
    BY <2>1, <1>2, <1>4 DEF Runs
<1>5. CASE line.kind # "add" /\ (done.cursor >= Len(source) \/ source[done.cursor + 1] # line.text)
  <2>1. ApplyLine(done, line, source) = [done EXCEPT !.ok = FALSE]
    BY <1>5 DEF ApplyLine
  <2> QED
    BY <2>1, <1>5 DEF Runs
<1>6. CASE line.kind # "add" /\ ~(done.cursor >= Len(source)) /\ source[done.cursor + 1] = line.text
  <2>1. ApplyLine(done, line, source) =
          [done EXCEPT !.cursor = @ + 1, !.output = IF line.kind = "context" THEN Append(@, line.text) ELSE @]
    BY <1>6 DEF ApplyLine
  <2>2. done.cursor + 1 \in Nat /\ done.cursor + 1 <= Len(source)
    BY <1>3, <1>6 DEF Runs
  <2>3. line.kind = "context" <=> line.kind # "remove"
    BY <1>1, <1>6
  <2> QED
    BY <2>1, <2>2, <2>3, <1>2, <1>6 DEF Runs
<1> QED
  BY <1>4, <1>5, <1>6

(* A longer text: another one comes after it.                              *)
Continued(text, more, all) ==
  /\ Len(all) = Len(text) + Len(more)
  /\ \A j \in 1..Len(text) : all[j] = text[j]
  /\ \A j \in 1..Len(more) : all[Len(text) + j] = more[j]

LEMMA ContinuedByOne ==
  ASSUME NEW S, NEW text \in Seq(S), NEW more \in Seq(S), NEW all \in Seq(S), Continued(text, more, all), NEW e \in S
  PROVE  Continued(text, Append(more, e), Append(all, e))
<1>1. Len(text) \in Nat /\ Len(more) \in Nat /\ Len(all) \in Nat
  BY LenProperties
<1>2. /\ Len(Append(more, e)) = Len(more) + 1 /\ Len(Append(all, e)) = Len(all) + 1
      /\ \A i \in 1..Len(more) : Append(more, e)[i] = more[i]
      /\ \A i \in 1..Len(all) : Append(all, e)[i] = all[i]
      /\ Append(more, e)[Len(more) + 1] = e /\ Append(all, e)[Len(all) + 1] = e
  BY AppendProperties
<1>3. \A j \in 1..Len(text) : Append(all, e)[j] = text[j]
  BY <1>1, <1>2 DEF Continued
<1>4. ASSUME NEW j \in 1..(Len(more) + 1) PROVE Append(all, e)[Len(text) + j] = Append(more, e)[j]
  <2>1. CASE j \in 1..Len(more)
    BY <2>1, <1>1, <1>2 DEF Continued
  <2>2. CASE j = Len(more) + 1
    BY <2>2, <1>1, <1>2 DEF Continued
  <2>3. j \in 1..Len(more) \/ j = Len(more) + 1
    BY <1>1
  <2> QED
    BY <2>1, <2>2, <2>3
<1>5. Len(Append(all, e)) = Len(text) + Len(Append(more, e))
  BY <1>1, <1>2 DEF Continued
<1> QED
  BY <1>2, <1>3, <1>4, <1>5 DEF Continued

LEMMA LinesApply ==
  ASSUME NEW source \in Seq(Lines), NEW start \in Runs, start.cursor <= Len(source), NEW lines \in Seq(ParsedLines)
  PROVE  LET end == ApplyLines(start, lines, source)
             old == Side(lines, "add")
             new == Side(lines, "remove")
         IN /\ old \in Seq(Lines) /\ new \in Seq(Lines)
            /\ end \in Runs /\ end.cursor <= Len(source) /\ end.delta = start.delta
            /\ end.ok =>
                 /\ start.ok
                 /\ end.cursor = start.cursor + Len(old)
                 /\ Continued(start.output, new, end.output)
                 /\ \A j \in 1..Len(old) : source[start.cursor + j] = old[j]
<1>1. Len(lines) \in Nat /\ \A k \in 1..Len(lines) : lines[k] \in ParsedLines
  BY LenProperties, ElementOfSeq
<1>2. PICK r : LinesUpTo(start, lines, source, Len(lines), r) /\ ApplyLines(start, lines, source) = r[Len(lines)]
  BY <1>1, LinesRun
<1>3. PICK p : SideUpTo(lines, "add", Len(lines), p) /\ Side(lines, "add") = p[Len(lines)]
  BY <1>1, SideRuns
<1>4. PICK q : SideUpTo(lines, "remove", Len(lines), q) /\ Side(lines, "remove") = q[Len(lines)]
  BY <1>1, SideRuns
<1> DEFINE Right(k) == /\ p[k] \in Seq(Lines) /\ q[k] \in Seq(Lines)
                       /\ r[k] \in Runs /\ r[k].cursor <= Len(source) /\ r[k].delta = start.delta
                       /\ r[k].ok =>
                            /\ start.ok
                            /\ r[k].cursor = start.cursor + Len(p[k])
                            /\ Continued(start.output, q[k], r[k].output)
                            /\ \A j \in 1..Len(p[k]) : source[start.cursor + j] = p[k][j]
           G == {k \in Nat : k <= Len(lines) => Right(k)}
<1>5. 0 \in G
  <2>1. r[0] = start /\ p[0] = <<>> /\ q[0] = <<>>
    BY <1>1, <1>2, <1>3, <1>4 DEF LinesUpTo, SideUpTo
  <2>2. start.output \in Seq(Lines) /\ start.cursor \in Nat
    BY DEF Runs
  <2>4. <<>> \in Seq(Lines) /\ Len(<<>>) = 0 /\ Len(start.output) \in Nat
    BY <2>2, EmptySeq, LenProperties
  <2>3. Continued(start.output, <<>>, start.output)
    BY <2>4 DEF Continued
  <2>5. Right(0)
    BY <2>1, <2>2, <2>3, <2>4
  <2> HIDE DEF Right
  <2> QED
    BY <2>5
<1>6. ASSUME NEW n \in Nat, n \in G PROVE n + 1 \in G
  <2> HIDE DEF Right
  <2> SUFFICES ASSUME n + 1 <= Len(lines) PROVE Right(n + 1)
    OBVIOUS
  <2> DEFINE line == lines[n + 1]
  <2>1. Right(n)
    BY <1>1, <1>6
  <2> USE DEF Right
  <2>2. /\ line \in ParsedLines /\ line.text \in Lines /\ line.kind \in {"context", "add", "remove"}
        /\ n + 1 \in 0..Len(lines) /\ n + 1 # 0 /\ (n + 1) - 1 = n
    BY <1>1 DEF ParsedLines
  <2>3. r[n + 1] = ApplyLine(r[n], line, source)
    BY <1>2, <2>2 DEF LinesUpTo
  <2>4. p[n + 1] = IF line.kind = "add" THEN p[n] ELSE Append(p[n], line.text)
    BY <1>3, <2>2 DEF SideUpTo
  <2>5. q[n + 1] = IF line.kind = "remove" THEN q[n] ELSE Append(q[n], line.text)
    BY <1>4, <2>2 DEF SideUpTo
  <2> HIDE DEF line
  <2>6. /\ r[n + 1] \in Runs /\ r[n + 1].cursor <= Len(source) /\ r[n + 1].delta = r[n].delta
        /\ r[n + 1].ok =>
             /\ r[n].ok
             /\ r[n + 1].cursor = IF line.kind = "add" THEN r[n].cursor ELSE r[n].cursor + 1
             /\ r[n + 1].output = IF line.kind = "remove" THEN r[n].output ELSE Append(r[n].output, line.text)
             /\ line.kind # "add" => source[r[n].cursor + 1] = line.text
    <3>1. r[n] \in Runs /\ r[n].cursor <= Len(source)
      BY <2>1
    <3> HIDE DEF Right
    <3>2. LET end == ApplyLine(r[n], line, source)
          IN /\ end \in Runs /\ end.cursor <= Len(source) /\ end.delta = r[n].delta
             /\ end.ok =>
                  /\ r[n].ok
                  /\ end.cursor = IF line.kind = "add" THEN r[n].cursor ELSE r[n].cursor + 1
                  /\ end.output = IF line.kind = "remove" THEN r[n].output ELSE Append(r[n].output, line.text)
                  /\ line.kind # "add" => source[r[n].cursor + 1] = line.text
      BY <2>2, <3>1, LineApplies
    <3> QED
      BY <2>3, <3>2
  <2>7. /\ p[n] \in Seq(Lines) /\ q[n] \in Seq(Lines) /\ Len(p[n]) \in Nat
        /\ Append(p[n], line.text) \in Seq(Lines) /\ Append(q[n], line.text) \in Seq(Lines)
        /\ Len(Append(p[n], line.text)) = Len(p[n]) + 1
        /\ \A j \in 1..Len(p[n]) : Append(p[n], line.text)[j] = p[n][j]
        /\ Append(p[n], line.text)[Len(p[n]) + 1] = line.text
    BY <2>1, <2>2, AppendProperties, LenProperties
  <2>8. ASSUME r[n + 1].ok
        PROVE  /\ start.ok
               /\ r[n + 1].cursor = start.cursor + Len(p[n + 1])
               /\ Continued(start.output, q[n + 1], r[n + 1].output)
               /\ \A j \in 1..Len(p[n + 1]) : source[start.cursor + j] = p[n + 1][j]
    <3>1. /\ start.ok /\ r[n].cursor = start.cursor + Len(p[n]) /\ Continued(start.output, q[n], r[n].output)
          /\ \A j \in 1..Len(p[n]) : source[start.cursor + j] = p[n][j]
      BY <2>1, <2>6, <2>8
    <3>2. start.output \in Seq(Lines) /\ start.cursor \in Nat
      BY DEF Runs
    <3>3. r[n + 1].cursor = start.cursor + Len(p[n + 1])
      BY <2>4, <2>6, <2>7, <2>8, <3>1, <3>2
    <3>4. r[n].output \in Seq(Lines) /\ q[n] \in Seq(Lines) /\ line.text \in Lines
      BY <2>1, <2>2 DEF Runs
    <3>5. Continued(start.output, q[n + 1], r[n + 1].output)
      BY <2>5, <2>6, <2>8, <3>1, <3>2, <3>4, ContinuedByOne
    <3>6. \A j \in 1..Len(p[n + 1]) : source[start.cursor + j] = p[n + 1][j]
      <4>1. CASE line.kind = "add"
        BY <4>1, <2>4, <3>1
      <4>2. CASE line.kind # "add"
        <5> SUFFICES ASSUME NEW j \in 1..(Len(p[n]) + 1) PROVE source[start.cursor + j] = Append(p[n], line.text)[j]
          BY <4>2, <2>4, <2>7
        <5>1. CASE j \in 1..Len(p[n])
          BY <5>1, <2>7, <3>1
        <5>2. CASE j = Len(p[n]) + 1
          <6>1. start.cursor + j = r[n].cursor + 1
            BY <5>2, <2>7, <3>1, <3>2
          <6> QED
            BY <6>1, <5>2, <4>2, <2>6, <2>7, <2>8
        <5> QED
          BY <5>1, <5>2, <2>7
      <4> QED
        BY <4>1, <4>2
    <3> QED
      BY <3>1, <3>3, <3>5, <3>6
  <2>9. p[n + 1] \in Seq(Lines) /\ q[n + 1] \in Seq(Lines)
    BY <2>4, <2>5, <2>7
  <2> QED
    BY <2>1, <2>6, <2>8, <2>9
<1>7. Right(Len(lines))
  <2> HIDE DEF Right
  <2>1. Nat \subseteq G
    <3> HIDE DEF G
    <3> QED
      BY <1>5, <1>6, NumberInduction
  <2> QED
    BY <2>1, <1>1
<1> QED
  BY <1>2, <1>3, <1>4, <1>7

-----------------------------------------------------------------------------
(* A hunk, applied: the source is copied up to it, and its sides are where *)
(* it says.                                                                *)
LEMMA HunkApplies ==
  ASSUME NEW source \in Seq(Lines), NEW done \in Runs, done.cursor <= Len(source),
         NEW hunk \in ParsedHunks, WellFormedHunk(hunk)
  PROVE  LET end == ApplyHunk(done, hunk, source)
             place == OldTarget(hunk)
         IN /\ OldSide(hunk) \in Seq(Lines) /\ NewSide(hunk) \in Seq(Lines)
            /\ place \in Nat /\ NewTarget(hunk) \in Nat
            /\ end \in Runs /\ end.cursor <= Len(source)
            /\ end.ok =>
                 /\ done.ok /\ done.cursor <= place /\ NewTarget(hunk) = place + done.delta
                 /\ end.cursor = place + hunk.oldCount
                 /\ end.delta = done.delta + hunk.newCount - hunk.oldCount
                 /\ \A j \in 1..hunk.oldCount : source[place + j] = OldSide(hunk)[j]
                 /\ Len(end.output) = Len(done.output) + (place - done.cursor) + hunk.newCount
                 /\ \A j \in 1..Len(done.output) : end.output[j] = done.output[j]
                 /\ \A j \in 1..(place - done.cursor) : end.output[Len(done.output) + j] = source[done.cursor + j]
                 /\ \A j \in 1..hunk.newCount :
                      end.output[Len(done.output) + (place - done.cursor) + j] = NewSide(hunk)[j]
<1> DEFINE place == OldTarget(hunk)
           begin == [done EXCEPT !.output = @ \o SubSeq(source, done.cursor + 1, place),
                                 !.cursor = place, !.delta = @ + hunk.newCount - hunk.oldCount]
           end == ApplyHunk(done, hunk, source)
           gap == SubSeq(source, done.cursor + 1, place)
<1>1. /\ hunk.oldCount \in Nat /\ hunk.newCount \in Nat /\ hunk.oldStart \in Nat /\ hunk.newStart \in Nat
      /\ hunk.lines \in Seq(ParsedLines)
  BY DEF ParsedHunks
<1>2. place \in Nat /\ NewTarget(hunk) \in Nat
  BY <1>1 DEF WellFormedHunk, OldTarget, NewTarget
<1>3. Len(OldSide(hunk)) = hunk.oldCount /\ Len(NewSide(hunk)) = hunk.newCount
  BY DEF WellFormedHunk
<1>4. /\ done.ok \in BOOLEAN /\ done.cursor \in Nat /\ done.output \in Seq(Lines) /\ done.delta \in Int
      /\ Len(source) \in Nat /\ Len(done.output) \in Nat
  BY LenProperties DEF Runs
<1> HIDE DEF place
<1>5. CASE ~done.ok \/ Unplaced(hunk, done, source)
  <2>1. end = [done EXCEPT !.ok = FALSE]
    BY <1>5 DEF ApplyHunk
  <2>2. end \in Runs /\ end.cursor = done.cursor /\ ~end.ok
    BY <2>1 DEF Runs
  <2>3. OldSide(hunk) \in Seq(Lines) /\ NewSide(hunk) \in Seq(Lines)
    <3>1. Side(hunk.lines, "add") \in Seq(Lines) /\ Side(hunk.lines, "remove") \in Seq(Lines)
      BY <1>1, LinesApply
    <3> QED
      BY <3>1 DEF OldSide, NewSide
  <2> HIDE DEF end
  <2> QED
    BY <2>2, <2>3, <1>2 DEF end, place
<1>6. CASE done.ok /\ ~Unplaced(hunk, done, source)
  <2>1. end = ApplyLines(begin, hunk.lines, source)
    BY <1>6 DEF ApplyHunk, place
  <2>2. done.cursor <= place /\ place <= Len(source) /\ NewTarget(hunk) = place + done.delta
    BY <1>2, <1>4, <1>6 DEF Unplaced, place
  <2>3. /\ gap \in Seq(Lines) /\ Len(gap) = place - done.cursor
        /\ \A j \in 1..(place - done.cursor) : gap[j] = source[done.cursor + j]
    <3>1. \A i \in (done.cursor + 1)..place : source[i] \in Lines
      BY <1>2, <1>4, <2>2, ElementOfSeq
    <3>2. done.cursor + 1 \in Int /\ place \in Int
      BY <1>2, <1>4
    <3>3. /\ gap \in Seq(Lines)
          /\ Len(gap) = IF done.cursor + 1 <= place THEN place - (done.cursor + 1) + 1 ELSE 0
          /\ \A i \in 1..(place - (done.cursor + 1) + 1) : gap[i] = source[(done.cursor + 1) + i - 1]
      BY <3>1, <3>2, SubSeqProperties
    <3> QED
      BY SMTT(60), <3>3, <1>2, <1>4, <2>2
  <2>4. /\ done.output \o gap \in Seq(Lines)
        /\ Len(done.output \o gap) = Len(done.output) + (place - done.cursor)
        /\ \A j \in 1..Len(done.output) : (done.output \o gap)[j] = done.output[j]
        /\ \A j \in 1..(place - done.cursor) : (done.output \o gap)[Len(done.output) + j] = source[done.cursor + j]
    <3>1. /\ done.output \o gap \in Seq(Lines) /\ Len(done.output \o gap) = Len(done.output) + Len(gap)
          /\ \A i \in 1..(Len(done.output) + Len(gap)) :
               (done.output \o gap)[i] = IF i <= Len(done.output) THEN done.output[i] ELSE gap[i - Len(done.output)]
      BY <1>4, <2>3, ConcatProperties
    <3> HIDE DEF gap
    <3> DEFINE all == done.output \o gap
    <3>2. \A i \in 1..(Len(done.output) + Len(gap)) :
            all[i] = IF i <= Len(done.output) THEN done.output[i] ELSE gap[i - Len(done.output)]
      BY <3>1
    <3> HIDE DEF all
    <3>3. ASSUME NEW j \in 1..(place - done.cursor) PROVE all[Len(done.output) + j] = source[done.cursor + j]
      <4>1. /\ Len(done.output) + j \in 1..(Len(done.output) + Len(gap))
            /\ ~(Len(done.output) + j <= Len(done.output)) /\ (Len(done.output) + j) - Len(done.output) = j
        BY SMTT(60), <2>3, <1>2, <1>4, <2>2
      <4>2. all[Len(done.output) + j] = gap[(Len(done.output) + j) - Len(done.output)]
        BY <4>1, <3>2
      <4> QED
        BY <4>1, <4>2, <2>3
    <3>4. ASSUME NEW j \in 1..Len(done.output) PROVE all[j] = done.output[j]
      <4>1. j \in 1..(Len(done.output) + Len(gap)) /\ j <= Len(done.output)
        BY <2>3, <1>2, <1>4, <2>2
      <4> QED
        BY <4>1, <3>2
    <3> QED
      BY <3>1, <3>3, <3>4, <2>3 DEF all
  <2>5. /\ begin \in Runs /\ begin.cursor = place /\ begin.output = done.output \o gap
        /\ begin.delta = done.delta + hunk.newCount - hunk.oldCount /\ begin.ok = done.ok
    <3> HIDE DEF gap
    <3>1. begin = [done EXCEPT !.output = @ \o gap, !.cursor = place, !.delta = @ + hunk.newCount - hunk.oldCount]
      BY DEF gap
    <3> QED
      <4>1. done.delta + hunk.newCount - hunk.oldCount \in Int
        BY <1>1, <1>4
      <4> HIDE DEF begin
      <4> QED
        BY <3>1, <4>1, <1>2, <1>4, <2>4 DEF Runs
  <2> HIDE DEF begin, gap, end
  <2>6. LET old == Side(hunk.lines, "add")
            new == Side(hunk.lines, "remove")
            after == ApplyLines(begin, hunk.lines, source)
        IN /\ old \in Seq(Lines) /\ new \in Seq(Lines)
           /\ after \in Runs /\ after.cursor <= Len(source) /\ after.delta = begin.delta
           /\ after.ok =>
                /\ begin.ok
                /\ after.cursor = begin.cursor + Len(old)
                /\ Continued(begin.output, new, after.output)
                /\ \A j \in 1..Len(old) : source[begin.cursor + j] = old[j]
    BY <1>1, <2>2, <2>5, LinesApply
  <2>7. /\ OldSide(hunk) \in Seq(Lines) /\ NewSide(hunk) \in Seq(Lines)
        /\ end \in Runs /\ end.cursor <= Len(source) /\ end.delta = begin.delta
        /\ end.ok =>
             /\ end.cursor = begin.cursor + Len(OldSide(hunk))
             /\ Continued(begin.output, NewSide(hunk), end.output)
             /\ \A j \in 1..Len(OldSide(hunk)) : source[begin.cursor + j] = OldSide(hunk)[j]
    BY <2>1, <2>6 DEF OldSide, NewSide
  <2>8. ASSUME end.ok
        PROVE  /\ Len(end.output) = Len(done.output) + (place - done.cursor) + hunk.newCount
               /\ \A j \in 1..Len(done.output) : end.output[j] = done.output[j]
               /\ \A j \in 1..(place - done.cursor) : end.output[Len(done.output) + j] = source[done.cursor + j]
               /\ \A j \in 1..hunk.newCount :
                    end.output[Len(done.output) + (place - done.cursor) + j] = NewSide(hunk)[j]
    <3> DEFINE all == done.output \o gap
    <3>1. Continued(all, NewSide(hunk), end.output)
      BY <2>5, <2>7, <2>8
    <3>2. /\ Len(all) = Len(done.output) + (place - done.cursor) /\ Len(all) \in Nat
          /\ \A j \in 1..Len(done.output) : all[j] = done.output[j]
          /\ \A j \in 1..(place - done.cursor) : all[Len(done.output) + j] = source[done.cursor + j]
      BY <2>4, LenProperties
    <3> HIDE DEF all
    <3>3. /\ Len(end.output) = Len(all) + hunk.newCount
          /\ \A j \in 1..Len(all) : end.output[j] = all[j]
          /\ \A j \in 1..hunk.newCount : end.output[Len(all) + j] = NewSide(hunk)[j]
      BY <3>1, <1>3 DEF Continued
    <3>0. Len(done.output) \in Nat /\ place - done.cursor \in Nat
      BY <1>2, <1>4, <2>2, LenProperties DEF Runs
    <3>4. ASSUME NEW j \in 1..Len(done.output) PROVE end.output[j] = done.output[j]
      <4>1. j \in 1..Len(all)
        BY <3>0, <3>2
      <4> QED
        BY <3>2, <3>3, <4>1
    <3>5. ASSUME NEW j \in 1..(place - done.cursor)
          PROVE  end.output[Len(done.output) + j] = source[done.cursor + j]
      <4>1. Len(done.output) + j \in 1..Len(all)
        BY <3>2, <1>2, <1>4, <2>2
      <4> QED
        BY <4>1, <3>2, <3>3
    <3> QED
      BY <3>2, <3>3, <3>4, <3>5
  <2>9. end.ok => /\ done.ok /\ done.cursor <= place /\ NewTarget(hunk) = place + done.delta
                  /\ end.cursor = place + hunk.oldCount
                  /\ end.delta = done.delta + hunk.newCount - hunk.oldCount
                  /\ \A j \in 1..hunk.oldCount : source[place + j] = OldSide(hunk)[j]
    BY <1>3, <1>6, <2>2, <2>5, <2>7
  <2> QED
    BY <1>2, <2>7, <2>8, <2>9 DEF end, place
<1> QED
  BY <1>5, <1>6

(* HunkIsThere, line by line.                                              *)
Placed(source, hunks, written, i) ==
  LET old == From(hunks, i) - hunks[i].oldCount
      new == Into(hunks, i) - hunks[i].newCount
      from == From(hunks, i - 1)
      into == Into(hunks, i - 1)
  IN /\ from \in Nat /\ into \in Nat /\ old - from \in Nat /\ new - into = old - from
     /\ old + hunks[i].oldCount <= Len(source) /\ new + hunks[i].newCount <= Len(written)
     /\ OldSide(hunks[i]) \in Seq(Lines) /\ Len(OldSide(hunks[i])) = hunks[i].oldCount
     /\ NewSide(hunks[i]) \in Seq(Lines) /\ Len(NewSide(hunks[i])) = hunks[i].newCount
     /\ \A j \in 1..hunks[i].oldCount : source[old + j] = OldSide(hunks[i])[j]
     /\ \A j \in 1..hunks[i].newCount : written[new + j] = NewSide(hunks[i])[j]
     /\ \A j \in 1..(old - from) : source[from + j] = written[into + j]

LEMMA PlacedIsThere ==
  ASSUME NEW hunks \in Seq(ParsedHunks), NEW i \in 1..Len(hunks),
         NEW source \in Seq(Lines), NEW written \in Seq(Lines), Placed(source, hunks, written, i)
  PROVE  HunkIsThere(source, hunks, written, i)
<1> DEFINE old == From(hunks, i) - hunks[i].oldCount
           new == Into(hunks, i) - hunks[i].newCount
           from == From(hunks, i - 1)
           into == Into(hunks, i - 1)
           o == hunks[i].oldCount
           n == hunks[i].newCount
           gap == old - from
<1>0. hunks[i] \in ParsedHunks
  BY ElementOfSeq
<1>1. o \in Nat /\ n \in Nat /\ hunks[i].oldStart \in Nat /\ hunks[i].newStart \in Nat
  BY <1>0 DEF ParsedHunks
<1>2. /\ from \in Nat /\ into \in Nat /\ gap \in Nat /\ new - into = gap
      /\ old + o <= Len(source) /\ new + n <= Len(written)
      /\ OldSide(hunks[i]) \in Seq(Lines) /\ Len(OldSide(hunks[i])) = o
      /\ NewSide(hunks[i]) \in Seq(Lines) /\ Len(NewSide(hunks[i])) = n
      /\ \A j \in 1..o : source[old + j] = OldSide(hunks[i])[j]
      /\ \A j \in 1..n : written[new + j] = NewSide(hunks[i])[j]
      /\ \A j \in 1..gap : source[from + j] = written[into + j]
  BY DEF Placed
<1>3. From(hunks, i) \in Int /\ Into(hunks, i) \in Int
  BY <1>1 DEF From, Into, End
<1>4. /\ old \in Nat /\ new \in Nat /\ old = from + gap /\ new = into + gap
      /\ From(hunks, i) = old + o /\ Into(hunks, i) = new + n
      /\ old <= Len(source) /\ new <= Len(written)
  <2>1. old \in Int /\ new \in Int
    BY <1>1, <1>3
  <2>2. From(hunks, i) = old + o /\ Into(hunks, i) = new + n
    BY <1>1, <1>3
  <2>3. Len(source) \in Nat /\ Len(written) \in Nat
    BY LenProperties
  <2>4. /\ from \in Nat /\ into \in Nat /\ old - from \in Nat /\ new - into = old - from
        /\ old + o <= Len(source) /\ new + n <= Len(written) /\ o \in Nat /\ n \in Nat
    BY <1>1, <1>2
  <2> HIDE DEF old, new, from, into, o, n
  <2>5. /\ old \in Nat /\ old = from + (old - from) /\ old <= Len(source)
    BY <2>1, <2>3, <2>4
  <2>6. /\ new \in Nat /\ new = into + (old - from) /\ new <= Len(written)
    BY <2>1, <2>3, <2>4
  <2> QED
    BY <2>2, <2>5, <2>6
<1> HIDE DEF old, new, from, into, o, n, gap
<1>5. SubSeq(source, old + 1, old + o) = OldSide(hunks[i])
  BY <1>1, <1>2, <1>4, WholeWindow
<1>6. SubSeq(written, new + 1, new + n) = NewSide(hunks[i])
  BY <1>1, <1>2, <1>4, WholeWindow
<1>7. SubSeq(source, from + 1, from + gap) = SubSeq(written, into + 1, into + gap)
  <2>1. from + gap <= Len(source) /\ into + gap <= Len(written)
    BY <1>4
  <2>2. /\ from \in Nat /\ into \in Nat /\ gap \in Nat
        /\ \A j \in 1..gap : source[from + j] = written[into + j]
    BY <1>2
  <2>3. ASSUME NEW j \in (from + 1)..(from + gap) PROVE source[j] = written[j + (into + 1) - (from + 1)]
    <3>1. j - from \in 1..gap /\ from + (j - from) = j /\ into + (j - from) = j + (into + 1) - (from + 1)
      BY <2>2
    <3> QED
      BY <2>2, <3>1
  <2>4. /\ from + 1 \in Nat \ {0} /\ into + 1 \in Nat \ {0} /\ from + gap \in Nat /\ into + gap \in Nat
        /\ (from + gap) - (from + 1) = (into + gap) - (into + 1)
    BY <2>2
  <2> DEFINE a == from + 1
             b == into + 1
             c == from + gap
             d == into + gap
  <2>5. /\ a \in Nat \ {0} /\ b \in Nat \ {0} /\ c \in Nat /\ d \in Nat /\ c - a = d - b
        /\ c <= Len(source) /\ d <= Len(written)
        /\ \A j \in a..c : source[j] = written[j + b - a]
    BY <2>1, <2>3, <2>4
  <2> HIDE DEF a, b, c, d
  <2>6. SubSeq(source, a, c) = SubSeq(written, b, d)
    BY <2>5, SameWindow
  <2> QED
    BY <2>6 DEF a, b, c, d
<1>8. SubSeq(source, from + 1, old) = SubSeq(written, into + 1, new)
  BY <1>4, <1>7
<1>9. /\ SubSeq(source, old + 1, From(hunks, i)) = OldSide(hunks[i])
      /\ SubSeq(written, new + 1, Into(hunks, i)) = NewSide(hunks[i])
  BY <1>4, <1>5, <1>6
<1> QED
  BY <1>8, <1>9 DEF HunkIsThere, old, new, from, into, o, n

LEMMA PlacedFurther ==
  ASSUME NEW hunks \in Seq(ParsedHunks), NEW i \in 1..Len(hunks), NEW source,
         NEW written \in Seq(Lines), NEW longer \in Seq(Lines), Len(written) <= Len(longer),
         \A j \in 1..Len(written) : longer[j] = written[j],
         Placed(source, hunks, written, i)
  PROVE  Placed(source, hunks, longer, i)
<1> DEFINE old == From(hunks, i) - hunks[i].oldCount
           new == Into(hunks, i) - hunks[i].newCount
           from == From(hunks, i - 1)
           into == Into(hunks, i - 1)
           n == hunks[i].newCount
<1>0. hunks[i] \in ParsedHunks
  BY ElementOfSeq
<1>1. n \in Nat /\ Into(hunks, i) \in Int /\ From(hunks, i) \in Int /\ hunks[i].oldCount \in Nat
  <2>1. hunks[i].oldStart \in Nat /\ hunks[i].newStart \in Nat /\ n \in Nat /\ hunks[i].oldCount \in Nat
    BY <1>0 DEF ParsedHunks
  <2> QED
    BY SMTT(60), <2>1 DEF Into, From, End
<1>2. /\ from \in Nat /\ into \in Nat /\ old - from \in Nat /\ new - into = old - from
      /\ new + n <= Len(written)
      /\ \A j \in 1..n : written[new + j] = NewSide(hunks[i])[j]
      /\ \A j \in 1..(old - from) : source[from + j] = written[into + j]
  BY DEF Placed
<1>3. new \in Int /\ old \in Int /\ Len(written) \in Nat /\ Len(longer) \in Nat
  BY <1>1, LenProperties
<1> HIDE DEF old, new, from, into, n
<1>4. ASSUME NEW j \in 1..n PROVE longer[new + j] = NewSide(hunks[i])[j]
  <2>1. new + j \in 1..Len(written)
    BY <1>1, <1>2, <1>3
  <2> QED
    BY <2>1, <1>2
<1>5. ASSUME NEW j \in 1..(old - from) PROVE source[from + j] = longer[into + j]
  <2>1. into + j \in 1..Len(written)
    BY <1>1, <1>2, <1>3
  <2> QED
    BY <2>1, <1>2
<1>6. new + n <= Len(longer)
  BY <1>1, <1>2, <1>3
<1> QED
  BY <1>4, <1>5, <1>6 DEF Placed, old, new, from, into, n

(* All hunks, applied one after the other.                                 *)
LEMMA HunksApply ==
  ASSUME NEW source \in Seq(Lines), NEW hunks \in Seq(ParsedHunks),
         \A k \in DOMAIN hunks : WellFormedHunk(hunks[k]), ApplyHunks(source, hunks).ok
  PROVE  \E d \in Runs :
           /\ d.cursor = From(hunks, Len(hunks)) /\ d.cursor <= Len(source)
           /\ Len(d.output) = Into(hunks, Len(hunks))
           /\ \A i \in 1..Len(hunks) : Placed(source, hunks, d.output, i)
           /\ ApplyHunks(source, hunks).next = d.output \o SubSeq(source, d.cursor + 1, Len(source))
<1>1. /\ Len(hunks) \in Nat /\ DOMAIN hunks = 1..Len(hunks) /\ Len(source) \in Nat
      /\ \A k \in 1..Len(hunks) : hunks[k] \in ParsedHunks /\ WellFormedHunk(hunks[k])
  BY LenProperties, ElementOfSeq
<1>2. PICK r : /\ HunksUpTo(source, hunks, Len(hunks), r)
               /\ ApplyHunks(source, hunks).ok = r[Len(hunks)].ok
               /\ ApplyHunks(source, hunks).next =
                    r[Len(hunks)].output \o SubSeq(source, r[Len(hunks)].cursor + 1, Len(source))
  BY <1>1, HunksRun
<1> DEFINE Right(k) ==
             /\ r[k] \in Runs /\ r[k].cursor <= Len(source)
             /\ r[k].ok =>
                  /\ r[k].cursor = From(hunks, k)
                  /\ Len(r[k].output) = Into(hunks, k) /\ Into(hunks, k) = r[k].cursor + r[k].delta
                  /\ \A i \in 1..k : Placed(source, hunks, r[k].output, i)
           G == {k \in Nat : k <= Len(hunks) => Right(k)}
<1>3. 0 \in G
  <2>1. r[0] = Begun
    BY <1>1, <1>2 DEF HunksUpTo
  <2>2. <<>> \in Seq(Lines) /\ Len(<<>>) = 0
    BY EmptySeq
  <2>3. Right(0)
    BY <2>1, <2>2, <1>1 DEF Begun, Runs, From, Into
  <2> HIDE DEF Right
  <2> QED
    BY <2>3
<1>4. ASSUME NEW n \in Nat, n \in G PROVE n + 1 \in G
  <2> HIDE DEF Right
  <2> SUFFICES ASSUME n + 1 <= Len(hunks) PROVE Right(n + 1)
    OBVIOUS
  <2> DEFINE hunk == hunks[n + 1]
             done == r[n]
             end == r[n + 1]
             place == OldTarget(hunk)
             k == n + 1
  <2>1. Right(n)
    BY <1>1, <1>4
  <2>2. /\ k \in 1..Len(hunks) /\ n \in 0..Len(hunks) /\ k \in 0..Len(hunks) /\ k # 0 /\ k - 1 = n
        /\ hunk \in ParsedHunks /\ WellFormedHunk(hunk)
    BY <1>1
  <2>3. end = ApplyHunk(done, hunk, source)
    BY <1>2, <2>2 DEF HunksUpTo
  <2>4. done \in Runs /\ done.cursor <= Len(source)
    BY <2>1 DEF Right
  <2> HIDE DEF hunk, done, end
  <2>5. /\ OldSide(hunk) \in Seq(Lines) /\ NewSide(hunk) \in Seq(Lines)
        /\ place \in Nat /\ NewTarget(hunk) \in Nat
        /\ end \in Runs /\ end.cursor <= Len(source)
        /\ end.ok =>
             /\ done.ok /\ done.cursor <= place /\ NewTarget(hunk) = place + done.delta
             /\ end.cursor = place + hunk.oldCount
             /\ end.delta = done.delta + hunk.newCount - hunk.oldCount
             /\ \A j \in 1..hunk.oldCount : source[place + j] = OldSide(hunk)[j]
             /\ Len(end.output) = Len(done.output) + (place - done.cursor) + hunk.newCount
             /\ \A j \in 1..Len(done.output) : end.output[j] = done.output[j]
             /\ \A j \in 1..(place - done.cursor) : end.output[Len(done.output) + j] = source[done.cursor + j]
             /\ \A j \in 1..hunk.newCount :
                  end.output[Len(done.output) + (place - done.cursor) + j] = NewSide(hunk)[j]
    BY SMTT(60), <2>2, <2>3, <2>4, HunkApplies
  <2>6. ASSUME end.ok
        PROVE  /\ end.cursor = From(hunks, k)
               /\ Len(end.output) = Into(hunks, k) /\ Into(hunks, k) = end.cursor + end.delta
               /\ \A i \in 1..k : Placed(source, hunks, end.output, i)
    <3>1. /\ done.cursor = From(hunks, n) /\ Len(done.output) = Into(hunks, n)
          /\ Into(hunks, n) = done.cursor + done.delta
          /\ \A i \in 1..n : Placed(source, hunks, done.output, i)
      BY <2>1, <2>5, <2>6 DEF Right, done
    <3>2. /\ hunk.oldCount \in Nat /\ hunk.newCount \in Nat /\ hunk.oldStart \in Nat /\ hunk.newStart \in Nat
          /\ done.cursor \in Nat /\ done.delta \in Int /\ done.output \in Seq(Lines) /\ end.output \in Seq(Lines)
          /\ Len(done.output) \in Nat /\ Len(end.output) \in Nat
      BY <2>2, <2>4, <2>5, LenProperties DEF ParsedHunks, Runs
    <3>3. /\ From(hunks, k) = place + hunk.oldCount
          /\ Into(hunks, k) = NewTarget(hunk) + hunk.newCount
      <4>1. From(hunks, k) = End(hunk.oldStart, hunk.oldCount) /\ Into(hunks, k) = End(hunk.newStart, hunk.newCount)
        BY <2>2 DEF From, Into, hunk
      <4> HIDE DEF k
      <4>2. End(hunk.oldStart, hunk.oldCount) = OldTarget(hunk) + hunk.oldCount
        BY <3>2 DEF End, OldTarget
      <4>3. End(hunk.newStart, hunk.newCount) = NewTarget(hunk) + hunk.newCount
        BY <3>2 DEF End, NewTarget
      <4> QED
        BY <4>1, <4>2, <4>3
    <3>4. Len(OldSide(hunk)) = hunk.oldCount /\ Len(NewSide(hunk)) = hunk.newCount
      BY <2>2 DEF WellFormedHunk
    <3> HIDE DEF place, k
    <3>0. /\ place \in Nat /\ NewTarget(hunk) \in Nat /\ done.cursor <= place /\ NewTarget(hunk) = place + done.delta
          /\ end.cursor = place + hunk.oldCount /\ end.cursor <= Len(source)
          /\ end.delta = done.delta + hunk.newCount - hunk.oldCount
          /\ Len(end.output) = Len(done.output) + (place - done.cursor) + hunk.newCount
      BY <2>5, <2>6
    <3>10. /\ done.cursor = From(hunks, n) /\ Len(done.output) = Into(hunks, n) /\ Into(hunks, n) = done.cursor + done.delta
      BY <3>1
    <3>5. end.cursor = From(hunks, k)
      BY <2>5, <2>6, <3>3
    <3>6. Len(end.output) = Into(hunks, k) /\ Into(hunks, k) = end.cursor + end.delta
      <4>1. /\ Len(done.output) = done.cursor + done.delta
            /\ Into(hunks, k) = (place + done.delta) + hunk.newCount
        BY <3>0, <3>3, <3>10
      <4>2. Len(end.output) = (done.cursor + done.delta) + (place - done.cursor) + hunk.newCount
        BY <4>1, <3>0
      <4>3. Len(end.output) = (place + done.delta) + hunk.newCount
        BY <4>2, <3>0, <3>2
      <4>5. /\ place \in Nat /\ done.delta \in Int /\ hunk.oldCount \in Nat /\ hunk.newCount \in Nat
            /\ end.cursor = place + hunk.oldCount /\ end.delta = done.delta + hunk.newCount - hunk.oldCount
        BY <3>0, <3>2
      <4>4. end.cursor + end.delta = (place + done.delta) + hunk.newCount
        BY <4>5
      <4> QED
        BY <4>1, <4>3, <4>4
    <3>7. Placed(source, hunks, end.output, k)
      <4> DEFINE old == From(hunks, k) - hunk.oldCount
                 new == Into(hunks, k) - hunk.newCount
                 from == From(hunks, k - 1)
                 into == Into(hunks, k - 1)
      <4>1. /\ old = place /\ new = NewTarget(hunk) /\ from = done.cursor /\ into = Len(done.output)
        <5>1. /\ place \in Nat /\ NewTarget(hunk) \in Nat /\ hunk.oldCount \in Nat /\ hunk.newCount \in Nat
              /\ From(hunks, k) = place + hunk.oldCount /\ Into(hunks, k) = NewTarget(hunk) + hunk.newCount
          BY <3>0, <3>2, <3>3
        <5>2. old = place /\ new = NewTarget(hunk)
          BY <5>1
        <5> QED
          BY <5>2, <2>2, <3>10
      <4> HIDE DEF old, new, from, into
      <4>2. /\ from \in Nat /\ into \in Nat /\ old - from \in Nat /\ new - into = old - from
            /\ old + hunk.oldCount <= Len(source) /\ new + hunk.newCount <= Len(end.output)
        <5>1. /\ place \in Nat /\ NewTarget(hunk) \in Nat /\ hunk.oldCount \in Nat /\ hunk.newCount \in Nat
              /\ done.cursor \in Nat /\ done.delta \in Int /\ Len(done.output) = done.cursor + done.delta
              /\ NewTarget(hunk) = place + done.delta /\ done.cursor <= place
              /\ Len(done.output) \in Nat
          BY <3>0, <3>2, <3>10
        <5>5. place - done.cursor \in Nat
          BY <5>1
        <5>6. NewTarget(hunk) - Len(done.output) = place - done.cursor
          BY <5>1
        <5>2. /\ from \in Nat /\ into \in Nat /\ old - from \in Nat /\ new - into = old - from
          BY <4>1, <5>1, <5>5, <5>6, Zenon
        <5>3. old + hunk.oldCount <= Len(source)
          BY <4>1, <3>0
        <5>4. new + hunk.newCount = Len(end.output) /\ Len(end.output) \in Nat
          BY <4>1, <3>2, <3>3, <3>6
        <5> QED
          BY <5>2, <5>3, <5>4
      <4>3. Len(done.output) + (place - done.cursor) = new
        BY <4>1, <3>0, <3>2, <3>10
      <4>4. /\ \A j \in 1..hunk.oldCount : source[old + j] = OldSide(hunk)[j]
            /\ \A j \in 1..hunk.newCount : end.output[new + j] = NewSide(hunk)[j]
            /\ \A j \in 1..(old - from) : source[from + j] = end.output[into + j]
        BY <4>1, <4>3, <2>5, <2>6
      <4>5. /\ OldSide(hunk) \in Seq(Lines) /\ Len(OldSide(hunk)) = hunk.oldCount
            /\ NewSide(hunk) \in Seq(Lines) /\ Len(NewSide(hunk)) = hunk.newCount
        BY <2>5, <3>4
      <4>6. hunk = hunks[k]
        BY DEF hunk, k
      <4> HIDE DEF hunk, k
      <4> QED
        BY <4>2, <4>4, <4>5, <4>6 DEF Placed, old, new, from, into
    <3>8. ASSUME NEW i \in 1..n PROVE Placed(source, hunks, end.output, i)
      <4>1. i \in 1..Len(hunks)
        BY <2>2, <1>1
      <4>2. Len(done.output) <= Len(end.output) /\ \A j \in 1..Len(done.output) : end.output[j] = done.output[j]
        <5>1. /\ place \in Nat /\ done.cursor \in Nat /\ done.cursor <= place /\ hunk.newCount \in Nat
              /\ Len(done.output) \in Nat /\ Len(end.output) = Len(done.output) + (place - done.cursor) + hunk.newCount
          BY <3>0, <3>2
        <5>2. Len(done.output) <= Len(end.output)
          BY <5>1
        <5>3. \A j \in 1..Len(done.output) : end.output[j] = done.output[j]
          BY <2>5, <2>6
        <5> QED
          BY <5>2, <5>3
      <4> QED
        BY <3>1, <3>2, <4>1, <4>2, PlacedFurther
    <3>9. \A i \in 1..k : i \in 1..n \/ i = k
      BY DEF k
    <3> QED
      BY <3>5, <3>6, <3>7, <3>8, <3>9
  <2> QED
    BY <2>5, <2>6 DEF Right, end
<1>5. Right(Len(hunks))
  <2> HIDE DEF Right
  <2>1. Nat \subseteq G
    <3> HIDE DEF G
    <3> QED
      BY <1>3, <1>4, NumberInduction
  <2> QED
    BY <2>1, <1>1
<1>6. r[Len(hunks)].ok
  BY <1>2, Zenon
<1> DEFINE d == r[Len(hunks)]
<1>7. /\ d \in Runs /\ d.cursor = From(hunks, Len(hunks)) /\ d.cursor <= Len(source)
      /\ Len(d.output) = Into(hunks, Len(hunks))
      /\ \A i \in 1..Len(hunks) : Placed(source, hunks, d.output, i)
  BY <1>5, <1>6
<1>8. ApplyHunks(source, hunks).next = d.output \o SubSeq(source, d.cursor + 1, Len(source))
  BY <1>2
<1> HIDE DEF d
<1> QED
  BY <1>7, <1>8, Zenon

(* What applyHunks accepts, it makes into what the diff means.             *)
LEMMA HunksMean ==
  ASSUME NEW source \in Seq(Lines), NEW hunks \in Seq(ParsedHunks),
         \A k \in DOMAIN hunks : WellFormedHunk(hunks[k]), ApplyHunks(source, hunks).ok
  PROVE  /\ ApplyHunks(source, hunks).next \in Seq(Lines)
         /\ Means(source, hunks, ApplyHunks(source, hunks).next)
<1> DEFINE next == ApplyHunks(source, hunks).next
           n == Len(hunks)
<1>1. PICK d \in Runs : /\ d.cursor = From(hunks, n) /\ d.cursor <= Len(source)
                        /\ Len(d.output) = Into(hunks, n)
                        /\ \A i \in 1..n : Placed(source, hunks, d.output, i)
                        /\ next = d.output \o SubSeq(source, d.cursor + 1, Len(source))
  BY HunksApply
<1>2. /\ n \in Nat /\ DOMAIN hunks = 1..n /\ Len(source) \in Nat
      /\ d.cursor \in Nat /\ d.output \in Seq(Lines) /\ Len(d.output) \in Nat
  BY LenProperties DEF Runs
<1> DEFINE rest == SubSeq(source, d.cursor + 1, Len(source))
           left == Len(source) - d.cursor
<1>3. /\ rest \in Seq(Lines) /\ Len(rest) = left /\ left \in Nat
      /\ \A j \in 1..left : rest[j] = source[d.cursor + j]
  <2>1. \A i \in (d.cursor + 1)..Len(source) : source[i] \in Lines
    BY <1>2, ElementOfSeq
  <2>2. d.cursor + 1 \in Int /\ Len(source) \in Int
    BY <1>2
  <2>3. /\ rest \in Seq(Lines)
        /\ Len(rest) = IF d.cursor + 1 <= Len(source) THEN Len(source) - (d.cursor + 1) + 1 ELSE 0
        /\ \A i \in 1..(Len(source) - (d.cursor + 1) + 1) : rest[i] = source[(d.cursor + 1) + i - 1]
    BY <2>1, <2>2, SubSeqProperties
  <2> QED
    BY <2>3, <1>1, <1>2
<1>4. next = d.output \o rest
  BY <1>1
<1> HIDE DEF next, n, rest, left
<1>5. /\ next \in Seq(Lines) /\ Len(next) = Len(d.output) + left
      /\ \A j \in 1..(Len(d.output) + left) :
           next[j] = IF j <= Len(d.output) THEN d.output[j] ELSE rest[j - Len(d.output)]
  <2>1. /\ d.output \o rest \in Seq(Lines) /\ Len(d.output \o rest) = Len(d.output) + Len(rest)
        /\ \A i \in 1..(Len(d.output) + Len(rest)) :
             (d.output \o rest)[i] = IF i <= Len(d.output) THEN d.output[i] ELSE rest[i - Len(d.output)]
    BY ZenonT(60), <1>2, <1>3, ConcatProperties
  <2> QED
    BY <1>3, <1>4, <2>1
<1>6. ASSUME NEW i \in 1..n PROVE HunkIsThere(source, hunks, next, i)
  <2>1. Len(d.output) <= Len(next)
    BY <1>2, <1>3, <1>5
  <2>2. \A j \in 1..Len(d.output) : next[j] = d.output[j]
    BY SMTT(60), <1>2, <1>3, <1>5
  <2>3. Placed(source, hunks, next, i)
    BY <1>1, <1>2, <1>5, <2>1, <2>2, PlacedFurther DEF n
  <2> QED
    BY <2>3, <1>5, PlacedIsThere DEF n
<1>7. SubSeq(source, From(hunks, n) + 1, Len(source)) = SubSeq(next, Into(hunks, n) + 1, Len(next))
  <2> DEFINE c == d.cursor
             o == Len(d.output)
  <2>1. c \in Nat /\ o \in Nat /\ left \in Nat /\ Len(source) = c + left /\ Len(next) = o + left
    BY <1>2, <1>3, <1>5 DEF left
  <2>6. \A i \in 1..(o + left) : next[i] = IF i <= o THEN d.output[i] ELSE rest[i - o]
    BY <1>5
  <2>7. \A i \in 1..left : rest[i] = source[c + i]
    BY <1>3
  <2>4. c = From(hunks, n) /\ o = Into(hunks, n)
    BY <1>1 DEF n
  <2> HIDE DEF c, o
  <2>2. ASSUME NEW j \in (c + 1)..Len(source) PROVE source[j] = next[j + (o + 1) - (c + 1)]
    <3> DEFINE at == j - c
    <3>1. at \in 1..left /\ j = c + at /\ j + (o + 1) - (c + 1) = o + at
      BY <2>1
    <3>2. o + at \in 1..(o + left) /\ ~(o + at <= o) /\ (o + at) - o = at
      BY <2>1, <3>1
    <3> HIDE DEF at
    <3>3. next[o + at] = rest[(o + at) - o]
      BY <2>6, <3>2
    <3>4. rest[at] = source[c + at]
      BY <2>7, <3>1
    <3> QED
      BY <3>1, <3>2, <3>3, <3>4
  <2>3. /\ c + 1 \in Nat \ {0} /\ o + 1 \in Nat \ {0} /\ Len(source) \in Nat /\ Len(next) \in Nat
        /\ Len(source) - (c + 1) = Len(next) - (o + 1)
    BY <2>1
  <2>8. next \in Seq(Lines)
    BY <1>5
  <2>5. SubSeq(source, c + 1, Len(source)) = SubSeq(next, o + 1, Len(next))
    BY <2>1, <2>2, <2>3, <2>8, SameWindow
  <2> QED
    BY <2>4, <2>5
<1> QED
  BY <1>2, <1>5, <1>6, <1>7 DEF Means, n, next

-----------------------------------------------------------------------------
(* The plans, put in path order, are plans, and in path order.             *)
Before(plans, plan) == {other \in ToSet(plans) : other.path < plan.path}

LEMMA PathOrder ==
  ASSUME NEW T, NEW plans \in Seq(T), \A i \in DOMAIN plans : plans[i].path \in Nat,
         \A i, j \in DOMAIN plans : i # j => plans[i].path # plans[j].path
  PROVE  /\ DOMAIN InPathOrder(plans) = DOMAIN plans
         /\ \A k \in DOMAIN plans : InPathOrder(plans)[k] \in ToSet(plans)
         /\ \A i, j \in DOMAIN plans : i < j => InPathOrder(plans)[i].path < InPathOrder(plans)[j].path
<1> DEFINE n == Len(plans)
           S == ToSet(plans)
           Below(plan) == Before(plans, plan)
           rank(plan) == Cardinality(Below(plan))
           sorted == InPathOrder(plans)
<1>0. n \in Nat /\ DOMAIN plans = 1..n /\ plans \in [1..n -> T]
  BY LenProperties
<1>1. /\ S = {plans[i] : i \in 1..n} /\ \A p \in S : p.path \in Nat
      /\ \A p, q \in S : p # q => p.path # q.path
  BY <1>0 DEF ToSet
<1>2. IsFiniteSet(S) /\ Cardinality(S) = n
  <2>1. plans \in Bijection(1..n, S)
    <3>1. plans \in [1..n -> S]
      BY <1>0, <1>1
    <3> QED
      BY <1>1, <3>1 DEF Bijection, Injection, Surjection, IsInjective
  <2>2. ExistsBijection(1..n, S)
    BY <2>1 DEF ExistsBijection
  <2>3. IsFiniteSet(1..n) /\ Cardinality(1..n) = n
    <3> HIDE DEF n
    <3>1. IsFiniteSet(1..n) /\ Cardinality(1..n) = IF 1 > n THEN 0 ELSE n - 1 + 1
      BY <1>0, FS_Interval
    <3> QED
      BY <1>0, <3>1
  <2> HIDE DEF S
  <2> QED
    BY <2>2, <2>3, FS_Bijection
<1>3. ASSUME NEW p \in S PROVE IsFiniteSet(Below(p)) /\ rank(p) \in 0..(n - 1)
  <2>1. Below(p) \subseteq S /\ p \notin Below(p)
    BY <1>1 DEF Before
  <2>2. IsFiniteSet(Below(p)) /\ rank(p) <= n /\ (rank(p) = n => Below(p) = S) /\ rank(p) \in Nat
    <3> HIDE DEF S
    <3> QED
      BY <1>2, <2>1, FS_Subset, FS_CardinalityType
  <2>3. rank(p) # n
    BY <2>1, <2>2
  <2> HIDE DEF rank
  <2> QED
    BY <2>2, <2>3
<1>4. ASSUME NEW p \in S, NEW q \in S, p.path < q.path PROVE rank(p) < rank(q)
  <2>1. Below(p) \subseteq Below(q) /\ p \in Below(q) /\ p \notin Below(p)
    BY <1>1, <1>4 DEF Before
  <2>2. IsFiniteSet(Below(q)) /\ IsFiniteSet(Below(p)) /\ rank(p) \in Nat /\ rank(q) \in Nat
    BY <1>3, FS_CardinalityType
  <2>3. rank(p) <= rank(q) /\ (rank(q) = rank(p) => Below(q) = Below(p))
    <3> HIDE DEF Below
    <3> QED
      BY <2>1, <2>2, FS_Subset
  <2>4. rank(p) # rank(q)
    BY <2>1, <2>3
  <2> HIDE DEF rank
  <2> QED
    BY <2>2, <2>3, <2>4
<1>5. ASSUME NEW k \in 1..n PROVE \E p \in S : rank(p) = k - 1
  <2> DEFINE f == [p \in S |-> rank(p)]
  <2>1. f \in Injection(S, 0..(n - 1))
    <3>1. \A p, q \in S : rank(p) = rank(q) => p = q
      <4> SUFFICES ASSUME NEW p \in S, NEW q \in S, rank(p) = rank(q), p # q PROVE FALSE
        OBVIOUS
      <4>1. rank(p) \in Nat /\ rank(q) \in Nat
        BY <1>3
      <4>2. p.path < q.path \/ q.path < p.path
        BY <1>1
      <4> HIDE DEF rank
      <4> QED
        BY <1>4, <4>1, <4>2
    <3> HIDE DEF rank, S
    <3>2. f \in [S -> 0..(n - 1)]
      BY <1>3
    <3> QED
      BY <3>1, <3>2 DEF Injection, IsInjective
  <2>2. IsFiniteSet(0..(n - 1)) /\ Cardinality(0..(n - 1)) = n
    <3> HIDE DEF n
    <3>0. 0 \in Int /\ n - 1 \in Int
      BY <1>0
    <3>1. IsFiniteSet(0..(n - 1)) /\ Cardinality(0..(n - 1)) = IF 0 > n - 1 THEN 0 ELSE (n - 1) - 0 + 1
      BY <3>0, FS_Interval
    <3> QED
      BY <1>0, <3>1
  <2>3. f \in Surjection(S, 0..(n - 1))
    <3> HIDE DEF f, S
    <3> QED
      BY <1>2, <2>1, <2>2, FS_Injection
  <2>4. k - 1 \in 0..(n - 1)
    OBVIOUS
  <2> HIDE DEF rank, S
  <2> QED
    BY <2>3, <2>4 DEF Surjection
<1>6. sorted = [k \in 1..n |-> CHOOSE p \in S : rank(p) = k - 1]
  BY DEF InPathOrder, Before
<1> HIDE DEF rank, S, sorted
<1>7. \A k \in 1..n : sorted[k] \in S /\ rank(sorted[k]) = k - 1
  BY <1>5, <1>6
<1>8. ASSUME NEW i \in 1..n, NEW j \in 1..n, i < j PROVE sorted[i].path < sorted[j].path
  <2>1. sorted[i] \in S /\ sorted[j] \in S /\ rank(sorted[i]) = i - 1 /\ rank(sorted[j]) = j - 1
    BY <1>7
  <2>2. sorted[i] # sorted[j]
    BY <2>1, <1>8
  <2>3. sorted[i].path < sorted[j].path \/ sorted[j].path < sorted[i].path
    <3>1. /\ sorted[i].path \in Nat /\ sorted[j].path \in Nat
          /\ sorted[i].path # sorted[j].path
      BY <1>1, <2>1, <2>2
    <3> QED
      BY <3>1
  <2>4. sorted[j].path < sorted[i].path => j - 1 < i - 1
    BY <1>4, <2>1
  <2> QED
    BY <1>8, <2>3, <2>4
<1>9. DOMAIN sorted = 1..n
  BY <1>6
<1> QED
  BY <1>7, <1>8, <1>9 DEF S, sorted

-----------------------------------------------------------------------------
(* What every call knows and has done.                                     *)
Images == Seq(Lines) \union {Absent}
PatchPlans ==
  {plan \in [path : PatchPaths, action : {"create", "update", "delete"}, hunks : Seq(ParsedHunks),
             expected : Images, post : Images] : plan.action = "create" => plan.expected = Absent}
Replacements == [path : PatchPaths, from : Images, to : Images, raced : BOOLEAN]
PatchCalls ==
  [at : {"idle", "identity", "read", "commit", "checked", "answered"}, mode : {"check", "apply"}, todo : Seq(ParsedFiles),
   identity : {"none"}, plans : Seq(PatchPlans), committed : Seq(PatchPaths), failed : PatchPaths \union {0},
   answer : {"none", "ok", "CAPABILITY_INPUT_INVALID", "PATCH_PRECONDITION_FAILED", "PATCH_COMMIT_INCOMPLETE"}]

Ordered(plans) == \A i, j \in DOMAIN plans : i < j => plans[i].path < plans[j].path

(* The files still to be read: well-formed, of different paths, none of    *)
(* them planned already.                                                   *)
FilesAhead(p) ==
  /\ p.todo # <<>>
  /\ \A i \in DOMAIN p.todo : \A k \in DOMAIN p.todo[i].hunks : WellFormedHunk(p.todo[i].hunks[k])
  /\ \A i, j \in DOMAIN p.todo : i # j => p.todo[i].path # p.todo[j].path
  /\ \A i, j \in DOMAIN p.plans : i # j => p.plans[i].path # p.plans[j].path
  /\ \A i \in DOMAIN p.plans, j \in DOMAIN p.todo : p.plans[i].path # p.todo[j].path

(* What has been replaced, and what of it has been reported, is the start  *)
(* of the plans; the image replaced is the one planned on, or was written  *)
(* outside the lock after the look.                                        *)
AsPlanned(one, plan) ==
  /\ one.path = plan.path
  /\ one.from = plan.expected \/ (one.raced /\ plan.action # "create")

StartOfPlans(p, done) ==
  /\ Len(p.committed) <= Len(done) /\ Len(done) <= Len(p.plans)
  /\ \A i \in DOMAIN done : AsPlanned(done[i], p.plans[i])
  /\ \A i \in DOMAIN p.committed : p.committed[i] = p.plans[i].path

AnswerIsRight(p, done) ==
  IF p.answer = "ok" /\ p.mode = "apply" THEN Len(done) = Len(p.plans)
  ELSE IF p.answer = "PATCH_COMMIT_INCOMPLETE"
    THEN /\ Len(done) <= Len(p.committed) + 1 /\ Len(p.committed) < Len(p.plans) /\ Ordered(p.plans)
         /\ p.failed = p.plans[Len(p.committed) + 1].path
    ELSE done = <<>>

CallInv(p, done) ==
  /\ \A i \in DOMAIN p.plans : Accomplishes(p.plans[i])
  /\ p.at \in {"idle", "identity", "read"} => done = <<>> /\ p.committed = <<>>
  /\ p.at \in {"identity", "read"} => FilesAhead(p)
  /\ StartOfPlans(p, done)
  /\ done # <<>> \/ p.at \in {"commit", "checked"} => Ordered(p.plans)
  /\ p.at \in {"commit", "checked"} => p.mode = "apply" /\ Len(p.committed) = Len(done) /\ Len(done) < Len(p.plans)
  /\ p.at = "answered" => AnswerIsRight(p, done)

PatchInv ==
  /\ files \in [PatchPaths -> Images]
  /\ patch \in [Calls -> PatchCalls] /\ published \in [Calls -> Seq(Replacements)]
  /\ \A c \in Calls : CallInv(patch[c], published[c])

(* The registry lock: one call at a time has looked and not yet replaced.  *)
Looked(c) == \/ NextPlan(c).action = "create" \/ raced[c]
             \/ files[NextPlan(c).path] = NextPlan(c).expected
LookInv ==
  /\ raced \in [Calls -> BOOLEAN]
  /\ \A c, d \in Calls : patch[c].at = "checked" /\ patch[d].at = "checked" => c = d
  /\ \A c \in Calls : patch[c].at = "checked" => Looked(c)

LEMMA PatchInvTells == PatchInv => PatchTellsTheTruth
<1> SUFFICES ASSUME PatchInv, NEW c \in Calls
             PROVE  /\ \A i \in DOMAIN patch[c].plans : Accomplishes(patch[c].plans[i])
                    /\ \A i \in DOMAIN published[c] :
                         \/ published[c][i].from = patch[c].plans[i].expected
                         \/ published[c][i].raced /\ patch[c].plans[i].action # "create"
                    /\ \A i, j \in DOMAIN published[c] : i < j => published[c][i].path < published[c][j].path
                    /\ patch[c].at = "answered" =>
                         IF patch[c].answer = "ok" /\ patch[c].mode = "apply"
                           THEN Done(c) = {patch[c].plans[i].path : i \in DOMAIN patch[c].plans}
                         ELSE IF patch[c].answer = "PATCH_COMMIT_INCOMPLETE"
                           THEN /\ ToSet(patch[c].committed) \subseteq Done(c)
                                /\ Done(c) \subseteq ToSet(patch[c].committed) \union {patch[c].failed}
                                /\ patch[c].failed \notin ToSet(patch[c].committed)
                         ELSE Done(c) = {}
  BY DEF PatchTellsTheTruth
<1> DEFINE p == patch[c]
           done == published[c]
<1>1. /\ done \in Seq(Replacements) /\ p.plans \in Seq(PatchPlans) /\ p.committed \in Seq(PatchPaths)
      /\ CallInv(p, done)
  BY DEF PatchInv, PatchCalls
<1> HIDE DEF p, done
<1>2. /\ DOMAIN done = 1..Len(done) /\ DOMAIN p.plans = 1..Len(p.plans) /\ DOMAIN p.committed = 1..Len(p.committed)
      /\ Len(done) \in Nat /\ Len(p.plans) \in Nat /\ Len(p.committed) \in Nat
  BY <1>1, LenProperties
<1>3. StartOfPlans(p, done)
  BY <1>1 DEF CallInv
<1>4. /\ Len(p.committed) <= Len(done) /\ Len(done) <= Len(p.plans)
      /\ \A i \in 1..Len(done) :
           /\ done[i].path = p.plans[i].path
           /\ done[i].from = p.plans[i].expected \/ (done[i].raced /\ p.plans[i].action # "create")
      /\ \A i \in 1..Len(p.committed) : p.committed[i] = p.plans[i].path
  BY <1>2, <1>3 DEF StartOfPlans, AsPlanned
<1>5. ASSUME NEW i \in DOMAIN done, NEW j \in DOMAIN done, i < j PROVE done[i].path < done[j].path
  <2>1. done # <<>>
    BY <1>2, EmptySeq
  <2>2. Ordered(p.plans)
    BY <1>1, <2>1 DEF CallInv
  <2>3. i \in DOMAIN p.plans /\ j \in DOMAIN p.plans
    BY <1>2, <1>4
  <2>4. p.plans[i].path < p.plans[j].path
    BY <2>2, <2>3, <1>5 DEF Ordered
  <2> QED
    BY <1>2, <1>4, <2>4
<1>6. Done(c) = {done[i].path : i \in 1..Len(done)}
  BY <1>2 DEF Done, done
<1>7. CASE p.at = "answered" /\ p.answer = "ok" /\ p.mode = "apply"
  <2>1. Len(done) = Len(p.plans)
    BY <1>1, <1>7 DEF CallInv, AnswerIsRight
  <2>2. Done(c) = {p.plans[i].path : i \in DOMAIN p.plans}
    BY <1>2, <1>4, <1>6, <2>1
  <2> QED
    BY <1>1, <1>2, <1>4, <1>5, <1>7, <2>2 DEF CallInv, p, done
<1>8. CASE p.at = "answered" /\ ~(p.answer = "ok" /\ p.mode = "apply") /\ p.answer = "PATCH_COMMIT_INCOMPLETE"
  <2>1. /\ Len(done) <= Len(p.committed) + 1 /\ Len(p.committed) < Len(p.plans) /\ Ordered(p.plans)
        /\ p.failed = p.plans[Len(p.committed) + 1].path
    BY <1>1, <1>8 DEF CallInv, AnswerIsRight
  <2>2. ToSet(p.committed) = {p.committed[i] : i \in 1..Len(p.committed)}
    BY <1>2 DEF ToSet
  <2>3. ToSet(p.committed) \subseteq Done(c)
    BY <1>2, <1>4, <1>6, <2>2
  <2>4. Done(c) \subseteq ToSet(p.committed) \union {p.failed}
    <3> SUFFICES ASSUME NEW i \in 1..Len(done) PROVE done[i].path \in ToSet(p.committed) \union {p.failed}
      BY <1>6
    <3>1. i \in 1..Len(p.committed) \/ i = Len(p.committed) + 1
      BY <1>2, <2>1
    <3> QED
      BY <3>1, <1>4, <2>1, <2>2
  <2>5. p.failed \notin ToSet(p.committed)
    <3> SUFFICES ASSUME NEW i \in 1..Len(p.committed) PROVE p.committed[i] # p.failed
      BY <2>2
    <3>1. /\ i \in DOMAIN p.plans /\ Len(p.committed) + 1 \in DOMAIN p.plans /\ i < Len(p.committed) + 1
      BY <1>2, <2>1
    <3>2. p.plans[i].path < p.failed
      BY <2>1, <3>1 DEF Ordered
    <3>3. p.plans[i].path \in Nat
      <4>1. p.plans[i] \in PatchPlans
        BY <1>1, <1>2, <3>1, ElementOfSeq
      <4> QED
        BY <4>1, PatchAssumption DEF PatchPlans
    <3> QED
      BY <3>2, <3>3, <1>4
  <2> QED
    BY <1>1, <1>2, <1>4, <1>5, <1>8, <2>3, <2>4, <2>5 DEF CallInv, p, done
<1>9. CASE p.at = "answered" /\ ~(p.answer = "ok" /\ p.mode = "apply") /\ p.answer # "PATCH_COMMIT_INCOMPLETE"
  <2>1. done = <<>>
    BY <1>1, <1>9 DEF CallInv, AnswerIsRight
  <2>2. Done(c) = {}
    BY <2>1, <1>6, EmptySeq
  <2> QED
    BY <1>1, <1>2, <1>4, <1>5, <1>9, <2>2 DEF CallInv, p, done
<1>10. CASE p.at # "answered"
  BY <1>1, <1>2, <1>4, <1>5, <1>10 DEF CallInv, p, done
<1> QED
  BY <1>7, <1>8, <1>9, <1>10

LEMMA PatchStarts == PatchInit => PatchInv
<1> SUFFICES ASSUME PatchInit PROVE PatchInv
  OBVIOUS
<1>1. FileTexts \subseteq Seq(Lines)
  <2> SUFFICES ASSUME NEW n \in 0..MaxLength PROVE [1..n -> Lines] \subseteq Seq(Lines)
    BY DEF FileTexts
  <2>1. n \in Nat
    BY PatchAssumption
  <2> QED
    BY <2>1, SeqDef, Zenon
<1>2. files \in [PatchPaths -> Images]
  <2>1. {Absent} \union {f \in FileTexts : Len(f) = MaxLength - 1} \subseteq Images
    BY <1>1 DEF Images
  <2>2. files \in [PatchPaths -> {Absent} \union {f \in FileTexts : Len(f) = MaxLength - 1}]
    BY DEF PatchInit
  <2> QED
    BY <2>1, <2>2
<1>3. /\ \A S : <<>> \in Seq(S)
      /\ Len(<<>>) = 0 /\ DOMAIN <<>> = {}
  BY EmptySeq
<1>4. NoPatch \in PatchCalls
  BY <1>3 DEF NoPatch, PatchCalls
<1>5. CallInv(NoPatch, <<>>)
  BY <1>3 DEF CallInv, NoPatch, StartOfPlans
<1> QED
  BY <1>2, <1>3, <1>4, <1>5 DEF PatchInit, PatchInv

LEMMA PatchMove ==
  ASSUME PatchInv, NEW c \in Calls, NEW q, NEW done,
         patch' = [patch EXCEPT ![c] = q], published' = [published EXCEPT ![c] = done],
         files' \in [PatchPaths -> Images], q \in PatchCalls, done \in Seq(Replacements), CallInv(q, done)
  PROVE  PatchInv'
<1>1. /\ patch' \in [Calls -> PatchCalls] /\ published' \in [Calls -> Seq(Replacements)]
  BY DEF PatchInv
<1>2. ASSUME NEW d \in Calls PROVE CallInv(patch'[d], published'[d])
  <2>1. CASE d = c
    <3>1. patch'[d] = q /\ published'[d] = done
      BY <2>1 DEF PatchInv
    <3> QED
      BY <3>1
  <2>2. CASE d # c
    <3>1. patch'[d] = patch[d] /\ published'[d] = published[d] /\ CallInv(patch[d], published[d])
      BY <2>2 DEF PatchInv
    <3> QED
      BY <3>1
  <2> QED
    BY <2>1, <2>2
<1> QED
  BY <1>1, <1>2 DEF PatchInv

(* The steps that replace nothing and remember nothing.                    *)
LEMMA CallStep == ASSUME PatchInv, NEW c \in Calls, Call(c) PROVE PatchInv'
<1>1. PICK parsed \in Patches, mode \in {"check", "apply"} :
        patch' = [patch EXCEPT ![c] =
          IF WellFormed(parsed)
            THEN [NoPatch EXCEPT !.at = "identity", !.mode = mode, !.todo = parsed]
            ELSE [NoPatch EXCEPT !.at = "answered", !.answer = "CAPABILITY_INPUT_INVALID"]]
  BY DEF Call
<1>2. published' = [published EXCEPT ![c] = <<>>] /\ files' \in [PatchPaths -> Images]
  BY DEF Call, PatchInv
<1>3. /\ \A S : <<>> \in Seq(S)
      /\ Len(<<>>) = 0 /\ DOMAIN <<>> = {}
  BY EmptySeq
<1>4. parsed \in Seq(ParsedFiles)
  BY PatchAssumption
<1>5. CASE WellFormed(parsed)
  <2> DEFINE q == [NoPatch EXCEPT !.at = "identity", !.mode = mode, !.todo = parsed]
  <2>1. /\ q.at = "identity" /\ q.mode = mode /\ q.todo = parsed /\ q.plans = <<>> /\ q.committed = <<>>
        /\ q \in PatchCalls
    BY <1>3, <1>4 DEF NoPatch, PatchCalls
  <2>2. patch' = [patch EXCEPT ![c] = q]
    BY <1>1, <1>5
  <2> HIDE DEF q
  <2>4. FilesAhead(q)
    BY <1>3, <1>5, <2>1 DEF WellFormed, FilesAhead
  <2>5. CallInv(q, <<>>)
    BY <1>3, <2>1, <2>4 DEF CallInv, StartOfPlans
  <2> QED
    BY <1>2, <1>3, <2>1, <2>2, <2>5, PatchMove
<1>6. CASE ~WellFormed(parsed)
  <2> DEFINE q == [NoPatch EXCEPT !.at = "answered", !.answer = "CAPABILITY_INPUT_INVALID"]
  <2>1. /\ q.at = "answered" /\ q.plans = <<>> /\ q.committed = <<>> /\ q.answer = "CAPABILITY_INPUT_INVALID"
        /\ q \in PatchCalls
    BY <1>3 DEF NoPatch, PatchCalls
  <2>2. patch' = [patch EXCEPT ![c] = q]
    BY <1>1, <1>6
  <2> HIDE DEF q
  <2>5. CallInv(q, <<>>)
    BY <1>3, <2>1 DEF CallInv, StartOfPlans, AnswerIsRight
  <2> QED
    BY <1>2, <1>3, <2>1, <2>2, <2>5, PatchMove
<1> QED
  BY <1>5, <1>6

LEMMA ForgetPatchStep == ASSUME PatchInv, NEW c \in Calls, ForgetPatch(c) PROVE PatchInv'
<1>1. /\ patch' = [patch EXCEPT ![c] = NoPatch] /\ published' = [published EXCEPT ![c] = <<>>]
      /\ files' \in [PatchPaths -> Images]
  BY DEF ForgetPatch, PatchInv
<1>2. /\ \A S : <<>> \in Seq(S)
      /\ Len(<<>>) = 0 /\ DOMAIN <<>> = {}
  BY EmptySeq
<1>3. NoPatch \in PatchCalls
  BY <1>2 DEF NoPatch, PatchCalls
<1>4. CallInv(NoPatch, <<>>)
  BY <1>2 DEF CallInv, NoPatch, StartOfPlans
<1> QED
  BY <1>1, <1>2, <1>3, <1>4, PatchMove

LEMMA PutStep == ASSUME PatchInv, NEW w \in PatchPaths, Put(w) PROVE PatchInv'
<1>1. FileTexts \subseteq Seq(Lines)
  <2> SUFFICES ASSUME NEW n \in 0..MaxLength PROVE [1..n -> Lines] \subseteq Seq(Lines)
    BY DEF FileTexts
  <2>1. n \in Nat
    BY PatchAssumption
  <2> QED
    BY <2>1, SeqDef, Zenon
<1>2. files' \in [PatchPaths -> Images]
  <2>1. PICK f \in {Absent} \union FileTexts : f # files[w] /\ files' = [files EXCEPT ![w] = f]
    BY DEF Put
  <2>2. f \in Images
    BY <1>1 DEF Images
  <2> QED
    BY <2>1, <2>2 DEF PatchInv
<1>3. patch' = patch /\ published' = published
  BY DEF Put
<1> QED
  BY <1>2, <1>3 DEF PatchInv

LEMMA FileIdentityStep == ASSUME PatchInv, NEW c \in Calls, FileIdentity(c) PROVE PatchInv'
<1> DEFINE p == patch[c]
           done == published[c]
<1>1. /\ p \in PatchCalls /\ done \in Seq(Replacements) /\ CallInv(p, done) /\ p.at = "identity"
      /\ published' = [published EXCEPT ![c] = done] /\ files' \in [PatchPaths -> Images]
  BY DEF PatchInv, FileIdentity
<1>2. \/ patch' = [patch EXCEPT ![c] = [p EXCEPT !.at = "read"]]
      \/ patch' = [patch EXCEPT ![c] = [p EXCEPT !.at = "answered", !.answer = "PATCH_PRECONDITION_FAILED"]]
  BY DEF FileIdentity, AnsweredPatch
<1> HIDE DEF p, done
<1>3. CASE patch' = [patch EXCEPT ![c] = [p EXCEPT !.at = "read"]]
  <2> DEFINE q == [p EXCEPT !.at = "read"]
  <2>1. /\ q \in PatchCalls /\ q.at = "read" /\ q.todo = p.todo /\ q.plans = p.plans /\ q.committed = p.committed
    BY <1>1 DEF PatchCalls
  <2>2. patch' = [patch EXCEPT ![c] = q]
    BY <1>3
  <2> HIDE DEF q
  <2>3. CallInv(q, done)
    BY <1>1, <2>1 DEF CallInv, FilesAhead, StartOfPlans
  <2> QED
    BY <1>1, <2>1, <2>2, <2>3, PatchMove
<1>4. CASE patch' = [patch EXCEPT ![c] = [p EXCEPT !.at = "answered", !.answer = "PATCH_PRECONDITION_FAILED"]]
  <2> DEFINE q == [p EXCEPT !.at = "answered", !.answer = "PATCH_PRECONDITION_FAILED"]
  <2>1. /\ q \in PatchCalls /\ q.at = "answered" /\ q.answer = "PATCH_PRECONDITION_FAILED"
        /\ q.plans = p.plans /\ q.committed = p.committed
    BY <1>1 DEF PatchCalls
  <2>2. patch' = [patch EXCEPT ![c] = q]
    BY <1>4
  <2> HIDE DEF q
  <2>3. CallInv(q, done)
    BY <1>1, <2>1 DEF CallInv, StartOfPlans, AnswerIsRight
  <2> QED
    BY <1>1, <2>1, <2>2, <2>3, PatchMove
<1> QED
  BY <1>2, <1>3, <1>4

(* A file that is read and can be patched makes one more plan that means   *)
(* what its diff means, for a path that had none.                          *)
Extended(plans, before, plan) == plans = Append(before, plan)
Fits(file, source) ==
  /\ ApplyHunks(source, file.hunks).ok
  /\ file.action = "create" => source = <<>>
  /\ file.action = "delete" => ApplyHunks(source, file.hunks).next = <<>>
PlanFor(file, source) ==
  [path |-> file.path, action |-> file.action, hunks |-> file.hunks,
   expected |-> IF file.action = "create" THEN Absent ELSE source,
   post |-> IF file.action = "delete" THEN Absent ELSE ApplyHunks(source, file.hunks).next]

LEMMA PlanIsAdded ==
  ASSUME NEW p \in PatchCalls, FilesAhead(p), \A i \in DOMAIN p.plans : Accomplishes(p.plans[i]),
         NEW source \in Seq(Lines), Fits(p.todo[1], source), NEW plans, Extended(plans, p.plans, PlanFor(p.todo[1], source))
  PROVE  /\ plans \in Seq(PatchPlans) /\ plans # <<>>
         /\ Tail(p.todo) \in Seq(ParsedFiles)
         /\ \A i \in DOMAIN plans : Accomplishes(plans[i])
         /\ \A i, j \in DOMAIN plans : i # j => plans[i].path # plans[j].path
         /\ \A i \in DOMAIN Tail(p.todo) : \A k \in DOMAIN Tail(p.todo)[i].hunks : WellFormedHunk(Tail(p.todo)[i].hunks[k])
         /\ \A i, j \in DOMAIN Tail(p.todo) : i # j => Tail(p.todo)[i].path # Tail(p.todo)[j].path
         /\ \A i \in DOMAIN plans, j \in DOMAIN Tail(p.todo) : plans[i].path # Tail(p.todo)[j].path
<1> DEFINE file == p.todo[1]
           n == Len(p.plans)
           left == Tail(p.todo)
           applied == ApplyHunks(source, file.hunks)
           plan == PlanFor(file, source)
<1>19. /\ applied.ok /\ (file.action = "create" => source = <<>>) /\ (file.action = "delete" => applied.next = <<>>)
  BY DEF Fits
<1>1. /\ p.todo \in Seq(ParsedFiles) /\ p.todo # <<>> /\ p.plans \in Seq(PatchPlans)
  BY DEF PatchCalls, FilesAhead
<1>2. /\ Len(p.todo) \in Nat \ {0} /\ DOMAIN p.todo = 1..Len(p.todo) /\ n \in Nat /\ DOMAIN p.plans = 1..n
  BY <1>1, EmptySeq, LenProperties
<1>3. file \in ParsedFiles /\ 1 \in DOMAIN p.todo
  BY <1>1, <1>2, ElementOfSeq
<1>4. /\ file.path \in PatchPaths /\ file.action \in {"create", "update", "delete"} /\ file.hunks \in Seq(ParsedHunks)
  BY <1>3 DEF ParsedFiles
<1>5. \A k \in DOMAIN file.hunks : WellFormedHunk(file.hunks[k])
  BY <1>3 DEF FilesAhead
<1>6. applied.next \in Seq(Lines) /\ Means(source, file.hunks, applied.next)
  BY <1>4, <1>5, <1>19, HunksMean
<1> HIDE DEF file, n, left, applied, plan
<1>7. /\ plan.path = file.path /\ plan.action = file.action /\ plan.hunks = file.hunks
      /\ plan.expected = (IF file.action = "create" THEN Absent ELSE source)
      /\ plan.post = (IF file.action = "delete" THEN Absent ELSE applied.next)
      /\ plan \in PatchPlans
  <2>1. Absent \in Images /\ source \in Images /\ applied.next \in Images
    BY <1>6 DEF Images
  <2> QED
    BY <1>4, <2>1 DEF PatchPlans, plan, PlanFor, applied
<1>8. Accomplishes(plan)
  <2>1. (IF plan.action = "create" THEN <<>> ELSE plan.expected) = source
    BY <1>7, <1>19
  <2>2. (IF plan.action = "delete" THEN <<>> ELSE plan.post) = applied.next
    BY <1>7, <1>19
  <2> QED
    BY <1>6, <1>7, <2>1, <2>2 DEF Accomplishes
<1>9. /\ plans \in Seq(PatchPlans) /\ plans # <<>> /\ Len(plans) = n + 1 /\ DOMAIN plans = 1..(n + 1)
      /\ \A i \in 1..n : plans[i] = p.plans[i]
      /\ plans[n + 1] = plan
  <2>1. /\ plans \in Seq(PatchPlans) /\ plans # <<>> /\ Len(plans) = n + 1
        /\ \A i \in 1..n : plans[i] = p.plans[i] /\ plans[n + 1] = plan
        /\ plans[n + 1] = plan
    BY <1>1, <1>7, AppendProperties DEF n, Extended, plan, file
  <2>2. DOMAIN plans = 1..(n + 1)
    BY <2>1, LenProperties
  <2> QED
    BY <2>1, <2>2
<1>10. /\ left \in Seq(ParsedFiles) /\ Len(left) = Len(p.todo) - 1 /\ DOMAIN left = 1..(Len(p.todo) - 1)
       /\ \A i \in 1..(Len(p.todo) - 1) : left[i] = p.todo[i + 1]
  <2>1. /\ left \in Seq(ParsedFiles) /\ Len(left) = Len(p.todo) - 1
        /\ \A i \in 1..Len(left) : left[i] = p.todo[i + 1]
    BY <1>1, HeadTailProperties DEF left
  <2>2. DOMAIN left = 1..Len(left)
    BY <2>1, LenProperties
  <2> QED
    BY <2>1, <2>2
<1>11. \A i \in 1..(n + 1) : i \in 1..n \/ i = n + 1
  BY <1>2
<1>12. \A i \in 1..(Len(p.todo) - 1) : i + 1 \in 1..Len(p.todo) /\ i + 1 # 1
  BY <1>2
<1>13. /\ \A i \in 1..Len(p.todo) : \A k \in DOMAIN p.todo[i].hunks : WellFormedHunk(p.todo[i].hunks[k])
       /\ \A i, j \in 1..Len(p.todo) : i # j => p.todo[i].path # p.todo[j].path
       /\ \A i, j \in 1..n : i # j => p.plans[i].path # p.plans[j].path
       /\ \A i \in 1..n, j \in 1..Len(p.todo) : p.plans[i].path # p.todo[j].path
  BY <1>2 DEF FilesAhead
<1>14. \A i \in DOMAIN plans : Accomplishes(plans[i])
  BY <1>2, <1>8, <1>9, <1>11
<1>15. \A i, j \in DOMAIN plans : i # j => plans[i].path # plans[j].path
  <2>1. \A k \in 1..n : p.plans[k].path # file.path
    BY <1>2, <1>3, <1>13 DEF file
  <2>2. ASSUME NEW i \in 1..(n + 1), NEW j \in 1..(n + 1), i # j PROVE plans[i].path # plans[j].path
    <3>1. CASE i \in 1..n /\ j \in 1..n
      <4>1. plans[i] = p.plans[i] /\ plans[j] = p.plans[j]
        BY <3>1, <1>9
      <4>2. p.plans[i].path # p.plans[j].path
        BY <3>1, <2>2, <1>13
      <4> QED
        BY <4>1, <4>2
    <3>2. CASE i \in 1..n /\ j = n + 1
      BY <2>1, <3>2, <1>7, <1>9
    <3>3. CASE i = n + 1 /\ j \in 1..n
      BY <2>1, <3>3, <1>7, <1>9
    <3> QED
      BY <2>2, <3>1, <3>2, <3>3, <1>11
  <2>3. DOMAIN plans = 1..(n + 1)
    BY <1>9
  <2>4. \A i, j \in 1..(n + 1) : i # j => plans[i].path # plans[j].path
    BY <2>2
  <2> QED
    BY <2>3, <2>4
<1>16. \A i \in DOMAIN left : \A k \in DOMAIN left[i].hunks : WellFormedHunk(left[i].hunks[k])
  BY <1>10, <1>12, <1>13
<1>17. \A i, j \in DOMAIN left : i # j => left[i].path # left[j].path
  <2> SUFFICES ASSUME NEW i \in 1..(Len(p.todo) - 1), NEW j \in 1..(Len(p.todo) - 1), i # j
               PROVE  left[i].path # left[j].path
    BY <1>10
  <2>1. i + 1 # j + 1
    BY <1>2
  <2> QED
    BY <2>1, <1>10, <1>12, <1>13
<1>18. \A i \in DOMAIN plans, j \in DOMAIN left : plans[i].path # left[j].path
  <2> SUFFICES ASSUME NEW i \in 1..(n + 1), NEW j \in 1..(Len(p.todo) - 1) PROVE plans[i].path # left[j].path
    BY <1>9, <1>10
  <2>1. left[j] = p.todo[j + 1] /\ j + 1 \in 1..Len(p.todo) /\ j + 1 # 1
    BY <1>10, <1>12
  <2>2. CASE i \in 1..n
    BY <2>1, <2>2, <1>9, <1>13
  <2>3. CASE i = n + 1
    <3>1. p.todo[1].path # p.todo[j + 1].path
      BY <2>1, <1>2, <1>13
    <3> QED
      BY <2>1, <2>3, <3>1, <1>7, <1>9 DEF file
  <2> QED
    BY <2>2, <2>3, <1>11
<1> QED
  BY <1>9, <1>10, <1>14, <1>15, <1>16, <1>17, <1>18 DEF left

LEMMA ReadFileStep == ASSUME PatchInv, NEW c \in Calls, ReadFile(c) PROVE PatchInv'
<1> DEFINE p == patch[c]
           done == published[c]
           file == p.todo[1]
           source == IF file.action = "create" THEN <<>> ELSE files[file.path]
           applied == ApplyHunks(source, file.hunks)
           left == Tail(p.todo)
           plan == [path |-> file.path, action |-> file.action, hunks |-> file.hunks,
                    expected |-> IF file.action = "create" THEN Absent ELSE source,
                    post |-> IF file.action = "delete" THEN Absent ELSE applied.next]
           plans == Append(p.plans, plan)
           failed == source = Absent \/ ~applied.ok \/ (file.action = "delete" /\ applied.next # <<>>)
           q == IF failed THEN AnsweredPatch(c, "PATCH_PRECONDITION_FAILED")
                ELSE IF left # <<>> THEN [p EXCEPT !.at = "identity", !.todo = left, !.plans = plans]
                ELSE IF p.mode = "check" THEN [AnsweredPatch(c, "ok") EXCEPT !.plans = Planned(plans)]
                ELSE [p EXCEPT !.at = "commit", !.todo = <<>>, !.plans = Planned(plans)]
<1>1. /\ p \in PatchCalls /\ done \in Seq(Replacements) /\ CallInv(p, done) /\ p.at = "read"
      /\ published' = [published EXCEPT ![c] = done] /\ files' \in [PatchPaths -> Images]
  BY DEF PatchInv, ReadFile
<1>2. patch' = [patch EXCEPT ![c] = q]
  BY DEF ReadFile
<1>3. /\ FilesAhead(p) /\ done = <<>> /\ p.committed = <<>> /\ \A i \in DOMAIN p.plans : Accomplishes(p.plans[i])
  BY <1>1 DEF CallInv
<1>4. Len(<<>>) = 0 /\ DOMAIN <<>> = {} /\ \A S : <<>> \in Seq(S)
  BY EmptySeq
<1>5. file \in ParsedFiles
  <2>1. p.todo \in Seq(ParsedFiles) /\ p.todo # <<>>
    BY <1>1, <1>3 DEF PatchCalls, FilesAhead
  <2>2. 1 \in 1..Len(p.todo)
    BY <2>1, EmptySeq
  <2> QED
    BY <2>1, <2>2, ElementOfSeq
<1>6. source \in Images
  BY <1>4, <1>5 DEF PatchInv, Images, ParsedFiles
<1>7. CASE failed
  <2> DEFINE r == [p EXCEPT !.at = "answered", !.answer = "PATCH_PRECONDITION_FAILED"]
  <2>1. patch' = [patch EXCEPT ![c] = r]
    BY <1>2, <1>7 DEF AnsweredPatch
  <2> HIDE DEF p, done
  <2>2. /\ r \in PatchCalls /\ r.at = "answered" /\ r.answer = "PATCH_PRECONDITION_FAILED"
        /\ r.plans = p.plans /\ r.committed = p.committed
    BY <1>1 DEF PatchCalls
  <2> HIDE DEF r
  <2>3. CallInv(r, done)
    BY <1>1, <1>3, <2>2 DEF CallInv, StartOfPlans, AnswerIsRight
  <2> QED
    BY <1>1, <2>1, <2>2, <2>3, PatchMove
<1>8. CASE ~failed
  <2>1. source \in Seq(Lines) /\ applied.ok /\ (file.action = "delete" => applied.next = <<>>)
    BY <1>6, <1>8 DEF Images
  <2>2. file.action = "create" => source = <<>>
    OBVIOUS
  <2>3. Extended(plans, p.plans, PlanFor(p.todo[1], source))
    BY DEF Extended, PlanFor
  <2>6. Fits(p.todo[1], source)
    BY <2>1, <2>2 DEF Fits
  <2>4. patch' = [patch EXCEPT ![c] =
          IF left # <<>> THEN [p EXCEPT !.at = "identity", !.todo = left, !.plans = plans]
          ELSE IF p.mode = "check" THEN [AnsweredPatch(c, "ok") EXCEPT !.plans = Planned(plans)]
          ELSE [p EXCEPT !.at = "commit", !.todo = <<>>, !.plans = Planned(plans)]]
    BY <1>2, <1>8
  <2>5. AnsweredPatch(c, "ok") = [p EXCEPT !.at = "answered", !.answer = "ok"]
    BY DEF AnsweredPatch
  <2>8. /\ plans \in Seq(PatchPlans) /\ plans # <<>>
        /\ left \in Seq(ParsedFiles)
        /\ \A i \in DOMAIN plans : Accomplishes(plans[i])
        /\ \A i, j \in DOMAIN plans : i # j => plans[i].path # plans[j].path
        /\ \A i \in DOMAIN left : \A k \in DOMAIN left[i].hunks : WellFormedHunk(left[i].hunks[k])
        /\ \A i, j \in DOMAIN left : i # j => left[i].path # left[j].path
        /\ \A i \in DOMAIN plans, j \in DOMAIN left : plans[i].path # left[j].path
    <3> HIDE DEF p, source, plans
    <3> QED
      BY <1>1, <1>3, <2>1, <2>3, <2>6, PlanIsAdded
  <2> HIDE DEF p, done, file, source, applied, left, plan, plans, failed, q
  <2> DEFINE sorted == Planned(plans)
  <2>9. /\ sorted \in Seq(PatchPlans) /\ Len(sorted) > 0 /\ Ordered(sorted)
        /\ \A i \in DOMAIN sorted : Accomplishes(sorted[i])
    <3>1. /\ Len(plans) \in Nat \ {0} /\ DOMAIN plans = 1..Len(plans)
          /\ \A i \in 1..Len(plans) : plans[i] \in PatchPlans
      BY <2>8, EmptySeq, LenProperties, ElementOfSeq
    <3>2. \A i \in DOMAIN plans : plans[i].path \in Nat
      BY <3>1, PatchAssumption DEF PatchPlans
    <3>3. /\ DOMAIN sorted = DOMAIN plans
          /\ \A k \in DOMAIN plans : sorted[k] \in ToSet(plans)
          /\ \A i, j \in DOMAIN plans : i < j => sorted[i].path < sorted[j].path
      BY <2>8, <3>2, PathOrder DEF Planned
    <3>4. \A k \in 1..Len(plans) : sorted[k] \in PatchPlans /\ Accomplishes(sorted[k])
      BY <2>8, <3>1, <3>3 DEF ToSet
    <3>6. sorted \in [1..Len(plans) -> PatchPlans]
      <4> DEFINE e(k) == CHOOSE x \in ToSet(plans) : Cardinality({other \in ToSet(plans) : other.path < x.path}) = k - 1
      <4>1. sorted = [k \in DOMAIN plans |-> e(k)]
        BY DEF Planned, InPathOrder
      <4> HIDE DEF sorted, e
      <4>2. sorted = [k \in 1..Len(plans) |-> e(k)]
        BY <3>1, <4>1
      <4>3. \A k \in 1..Len(plans) : e(k) \in PatchPlans
        BY <3>4, <4>2
      <4> QED
        BY <4>2, <4>3
    <3> HIDE DEF sorted
    <3>7. sorted \in Seq(PatchPlans)
      <4>1. Len(plans) \in Nat
        BY <3>1
      <4> QED
        BY <3>6, <4>1, SeqDef, Zenon
    <3>8. Len(sorted) = Len(plans)
      BY <3>1, <3>3, <3>7, LenProperties
    <3> QED
      BY <3>1, <3>3, <3>4, <3>7, <3>8 DEF Ordered
  <2> HIDE DEF sorted
  <2>10. CASE left # <<>>
    <3> DEFINE r == [p EXCEPT !.at = "identity", !.todo = left, !.plans = plans]
    <3>1. patch' = [patch EXCEPT ![c] = r]
      BY <2>4, <2>10
    <3>2. /\ r \in PatchCalls /\ r.at = "identity" /\ r.todo = left /\ r.plans = plans /\ r.committed = p.committed
      BY <1>1, <2>8 DEF PatchCalls
    <3> HIDE DEF r
    <3>3. FilesAhead(r)
      BY <2>8, <2>10, <3>2 DEF FilesAhead
    <3>4. StartOfPlans(r, done)
      <4>1. Len(plans) \in Nat
        BY <2>8, LenProperties
      <4> QED
        BY <1>3, <1>4, <3>2, <4>1 DEF StartOfPlans
    <3>5. CallInv(r, done)
      BY <1>3, <2>8, <3>2, <3>3, <3>4 DEF CallInv
    <3> QED
      BY <1>1, <3>1, <3>2, <3>5, PatchMove
  <2>11. CASE left = <<>> /\ p.mode = "check"
    <3> DEFINE r == [[p EXCEPT !.at = "answered", !.answer = "ok"] EXCEPT !.plans = sorted]
    <3>1. patch' = [patch EXCEPT ![c] = r]
      BY <2>4, <2>5, <2>11 DEF sorted
    <3>2. /\ r \in PatchCalls /\ r.at = "answered" /\ r.answer = "ok" /\ r.mode = "check" /\ r.plans = sorted
          /\ r.committed = p.committed
      BY <1>1, <2>9, <2>11 DEF PatchCalls
    <3> HIDE DEF r
    <3>3. StartOfPlans(r, done)
      BY <1>3, <1>4, <2>9, <3>2 DEF StartOfPlans
    <3>4. CallInv(r, done)
      BY <1>3, <2>9, <3>2, <3>3 DEF CallInv, AnswerIsRight
    <3> QED
      BY <1>1, <3>1, <3>2, <3>4, PatchMove
  <2>12. CASE left = <<>> /\ p.mode # "check"
    <3> DEFINE r == [p EXCEPT !.at = "commit", !.todo = <<>>, !.plans = sorted]
    <3>1. patch' = [patch EXCEPT ![c] = r]
      BY <2>4, <2>12 DEF sorted
    <3>2. /\ r \in PatchCalls /\ r.at = "commit" /\ r.mode = "apply" /\ r.plans = sorted /\ r.committed = p.committed
      BY <1>1, <1>4, <2>9, <2>12 DEF PatchCalls
    <3> HIDE DEF r
    <3>3. StartOfPlans(r, done)
      BY <1>3, <1>4, <2>9, <3>2 DEF StartOfPlans
    <3>4. CallInv(r, done)
      BY <1>3, <1>4, <2>9, <3>2, <3>3 DEF CallInv
    <3> QED
      BY <1>1, <3>1, <3>2, <3>4, PatchMove
  <2> QED
    BY <2>10, <2>11, <2>12
<1> QED
  BY <1>7, <1>8

(* The steps that replace a file, or are told that one is not.             *)
LEMMA NextPlanIsThere ==
  ASSUME NEW p \in PatchCalls, NEW done \in Seq(Replacements), CallInv(p, done),
         p.at \in {"commit", "checked"}
  PROVE  LET k == Len(p.committed) + 1 IN
         /\ k \in 1..Len(p.plans) /\ p.plans[k] \in PatchPlans
         /\ Len(p.plans) \in Nat /\ Len(p.committed) \in Nat /\ Len(done) = Len(p.committed)
         /\ DOMAIN p.plans = 1..Len(p.plans) /\ DOMAIN done = 1..Len(done) /\ DOMAIN p.committed = 1..Len(done)
<1>1. p.plans \in Seq(PatchPlans) /\ p.committed \in Seq(PatchPaths)
  BY DEF PatchCalls
<1>2. /\ Len(p.plans) \in Nat /\ Len(p.committed) \in Nat /\ Len(done) \in Nat
      /\ DOMAIN p.plans = 1..Len(p.plans) /\ DOMAIN done = 1..Len(done) /\ DOMAIN p.committed = 1..Len(p.committed)
  BY <1>1, LenProperties
<1>3. Len(p.committed) = Len(done) /\ Len(done) < Len(p.plans)
  BY DEF CallInv
<1>4. Len(p.committed) + 1 \in 1..Len(p.plans)
  BY <1>2, <1>3
<1>5. p.plans[Len(p.committed) + 1] \in PatchPlans
  BY <1>1, <1>4, ElementOfSeq
<1> QED
  BY <1>2, <1>3, <1>4, <1>5

LEMMA RefusedStep == ASSUME PatchInv, NEW c \in Calls, Refused(c) PROVE PatchInv'
<1> DEFINE p == patch[c]
           done == published[c]
           k == Len(p.committed) + 1
           q == [[p EXCEPT !.at = "answered", !.answer = "PATCH_COMMIT_INCOMPLETE"] EXCEPT !.failed = p.plans[k].path]
<1>1. /\ p \in PatchCalls /\ done \in Seq(Replacements) /\ CallInv(p, done) /\ p.at \in {"commit", "checked"}
      /\ published' = [published EXCEPT ![c] = done] /\ files' \in [PatchPaths -> Images]
  BY DEF PatchInv, Refused
<1>2. patch' = [patch EXCEPT ![c] = q]
  BY DEF Refused, Incomplete, Stopped, AnsweredPatch, NextPlan
<1> HIDE DEF p, done
<1>3. /\ k \in 1..Len(p.plans) /\ p.plans[k] \in PatchPlans
      /\ Len(p.plans) \in Nat /\ Len(p.committed) \in Nat /\ Len(done) = Len(p.committed)
  BY <1>1, NextPlanIsThere
<1>4. p.plans[k].path \in PatchPaths
  BY <1>3 DEF PatchPlans
<1>5. /\ q \in PatchCalls /\ q.at = "answered" /\ q.answer = "PATCH_COMMIT_INCOMPLETE" /\ q.failed = p.plans[k].path
      /\ q.plans = p.plans /\ q.committed = p.committed
  <2> HIDE DEF k
  <2> QED
    BY <1>1, <1>4 DEF PatchCalls
<1> HIDE DEF q
<1>6. AnswerIsRight(q, done)
  BY <1>1, <1>3, <1>5 DEF AnswerIsRight, CallInv
<1>7. StartOfPlans(q, done)
  BY <1>1, <1>5 DEF StartOfPlans, CallInv
<1>8. CallInv(q, done)
  BY <1>1, <1>5, <1>6, <1>7 DEF CallInv
<1> QED
  BY <1>1, <1>2, <1>5, <1>8, PatchMove

LEMMA CheckFileStep == ASSUME PatchInv, NEW c \in Calls, CheckFile(c) PROVE PatchInv'
<1> DEFINE p == patch[c]
           done == published[c]
           q == [p EXCEPT !.at = "checked"]
<1>1. /\ p \in PatchCalls /\ done \in Seq(Replacements) /\ CallInv(p, done) /\ p.at = "commit"
      /\ published' = [published EXCEPT ![c] = done] /\ files' \in [PatchPaths -> Images]
  BY DEF PatchInv, CheckFile
<1>2. patch' = [patch EXCEPT ![c] = q]
  BY DEF CheckFile
<1> HIDE DEF p, done
<1>3. /\ q \in PatchCalls /\ q.at = "checked" /\ q.mode = p.mode /\ q.plans = p.plans /\ q.committed = p.committed
  BY <1>1 DEF PatchCalls
<1> HIDE DEF q
<1>4. CallInv(q, done)
  BY <1>1, <1>3 DEF CallInv, StartOfPlans
<1> QED
  BY <1>1, <1>2, <1>3, <1>4, PatchMove

LEMMA ReplaceFileStep == ASSUME PatchInv, LookInv, NEW c \in Calls, ReplaceFile(c) PROVE PatchInv'
<1> DEFINE p == patch[c]
           done == published[c]
           n == Len(p.committed)
           plan == p.plans[n + 1]
           one == [path |-> plan.path, from |-> files[plan.path], to |-> plan.post, raced |-> raced[c]]
           more == Append(done, one)
           reported == Append(p.committed, plan.path)
<1>1. /\ p \in PatchCalls /\ done \in Seq(Replacements) /\ CallInv(p, done) /\ p.at = "checked"
      /\ files \in [PatchPaths -> Images] /\ raced[c] \in BOOLEAN
  BY DEF PatchInv, LookInv, ReplaceFile
<1>2. /\ files' = [files EXCEPT ![plan.path] = plan.post]
      /\ published' = [published EXCEPT ![c] = more]
      /\ IF plan.action = "create" THEN files[plan.path] = Absent
           ELSE raced[c] \/ files[plan.path] = plan.expected
  BY DEF ReplaceFile, NextPlan, Replaceable, LookInv, Looked
<1>3. \/ Len(reported) < Len(p.plans) /\ patch' = [patch EXCEPT ![c] = [p EXCEPT !.at = "commit", !.committed = reported]]
      \/ /\ ~(Len(reported) < Len(p.plans))
         /\ patch' = [patch EXCEPT ![c] = [[p EXCEPT !.at = "answered", !.answer = "ok"] EXCEPT !.committed = reported]]
      \/ patch' = [patch EXCEPT ![c] =
           [[p EXCEPT !.at = "answered", !.answer = "PATCH_COMMIT_INCOMPLETE"] EXCEPT !.failed = plan.path]]
  BY DEF ReplaceFile, NextPlan, Incomplete, Stopped, AnsweredPatch
<1> HIDE DEF p, done
<1>4. /\ n + 1 \in 1..Len(p.plans) /\ plan \in PatchPlans
      /\ Len(p.plans) \in Nat /\ n \in Nat /\ Len(done) = n
      /\ DOMAIN p.plans = 1..Len(p.plans) /\ DOMAIN done = 1..n /\ DOMAIN p.committed = 1..n
  BY <1>1, NextPlanIsThere
<1>5. /\ Ordered(p.plans) /\ p.mode = "apply" /\ \A i \in DOMAIN p.plans : Accomplishes(p.plans[i])
      /\ \A i \in 1..n : AsPlanned(done[i], p.plans[i])
      /\ \A i \in 1..n : p.committed[i] = p.plans[i].path
  BY <1>1, <1>4 DEF CallInv, StartOfPlans
<1> HIDE DEF n, plan
<1>6. /\ plan.path \in PatchPaths /\ plan.post \in Images /\ plan = p.plans[n + 1]
      /\ plan.action = "create" => plan.expected = Absent
  BY <1>4 DEF PatchPlans, plan
<1>7. files' \in [PatchPaths -> Images]
  BY <1>1, <1>2, <1>6
<1>8. one \in Replacements /\ AsPlanned(one, plan)
  BY <1>1, <1>2, <1>6 DEF Replacements, AsPlanned
<1> HIDE DEF one
<1>9. /\ more \in Seq(Replacements) /\ Len(more) = n + 1 /\ DOMAIN more = 1..(n + 1) /\ more # <<>>
      /\ \A i \in 1..(n + 1) : AsPlanned(more[i], p.plans[i])
  <2>1. /\ more \in Seq(Replacements) /\ Len(more) = Len(done) + 1 /\ more # <<>>
        /\ \A i \in 1..Len(done) : more[i] = done[i]
        /\ more[Len(done) + 1] = one
    BY <1>1, <1>8, AppendProperties
  <2>2. DOMAIN more = 1..Len(more)
    BY <2>1, LenProperties
  <2> HIDE DEF more
  <2>3. ASSUME NEW i \in 1..(n + 1) PROVE AsPlanned(more[i], p.plans[i])
    <3>1. i \in 1..n \/ i = n + 1
      BY <1>4
    <3> QED
      BY <3>1, <2>1, <1>4, <1>5, <1>6, <1>8
  <2> QED
    BY <2>1, <2>2, <2>3, <1>4
<1>10. /\ reported \in Seq(PatchPaths) /\ Len(reported) = n + 1 /\ DOMAIN reported = 1..(n + 1)
       /\ \A i \in 1..(n + 1) : reported[i] = p.plans[i].path
  <2>0. p.committed \in Seq(PatchPaths) /\ Len(p.committed) = n
    BY <1>1 DEF PatchCalls, n
  <2>1. /\ reported \in Seq(PatchPaths) /\ Len(reported) = n + 1
        /\ \A i \in 1..n : reported[i] = p.committed[i]
        /\ reported[n + 1] = plan.path
    BY <2>0, <1>6, AppendProperties
  <2>2. DOMAIN reported = 1..Len(reported)
    BY <2>1, LenProperties
  <2> HIDE DEF reported
  <2>3. ASSUME NEW i \in 1..(n + 1) PROVE reported[i] = p.plans[i].path
    <3>1. i \in 1..n \/ i = n + 1
      BY <1>4
    <3> QED
      BY <3>1, <2>1, <1>5, <1>6
  <2> QED
    BY <2>1, <2>2, <2>3
<1> HIDE DEF more, reported
<1>11. CASE /\ Len(reported) < Len(p.plans)
            /\ patch' = [patch EXCEPT ![c] = [p EXCEPT !.at = "commit", !.committed = reported]]
  <2> DEFINE q == [p EXCEPT !.at = "commit", !.committed = reported]
  <2>1. /\ q \in PatchCalls /\ q.at = "commit" /\ q.mode = "apply" /\ q.plans = p.plans /\ q.committed = reported
    BY <1>1, <1>5, <1>10 DEF PatchCalls
  <2>2. patch' = [patch EXCEPT ![c] = q]
    BY <1>11
  <2> HIDE DEF q
  <2>3. StartOfPlans(q, more)
    BY <1>4, <1>9, <1>10, <2>1 DEF StartOfPlans
  <2>4. CallInv(q, more)
    BY <1>4, <1>5, <1>9, <1>10, <1>11, <2>1, <2>3 DEF CallInv
  <2> QED
    BY <1>2, <1>7, <1>9, <2>1, <2>2, <2>4, PatchMove
<1>12. CASE /\ ~(Len(reported) < Len(p.plans))
            /\ patch' = [patch EXCEPT ![c] = [[p EXCEPT !.at = "answered", !.answer = "ok"] EXCEPT !.committed = reported]]
  <2> DEFINE q == [[p EXCEPT !.at = "answered", !.answer = "ok"] EXCEPT !.committed = reported]
  <2>1. /\ q \in PatchCalls /\ q.at = "answered" /\ q.answer = "ok" /\ q.mode = "apply" /\ q.plans = p.plans
        /\ q.committed = reported
    BY <1>1, <1>5, <1>10 DEF PatchCalls
  <2>2. patch' = [patch EXCEPT ![c] = q]
    BY <1>12
  <2> HIDE DEF q
  <2>3. StartOfPlans(q, more)
    BY <1>4, <1>9, <1>10, <2>1 DEF StartOfPlans
  <2>4. AnswerIsRight(q, more)
    BY <1>4, <1>9, <1>10, <1>12, <2>1 DEF AnswerIsRight
  <2>5. CallInv(q, more)
    BY <1>5, <2>1, <2>3, <2>4 DEF CallInv
  <2> QED
    BY <1>2, <1>7, <1>9, <2>1, <2>2, <2>5, PatchMove
<1>13. CASE patch' = [patch EXCEPT ![c] =
              [[p EXCEPT !.at = "answered", !.answer = "PATCH_COMMIT_INCOMPLETE"] EXCEPT !.failed = plan.path]]
  <2> DEFINE q == [[p EXCEPT !.at = "answered", !.answer = "PATCH_COMMIT_INCOMPLETE"] EXCEPT !.failed = plan.path]
  <2>1. /\ q \in PatchCalls /\ q.at = "answered" /\ q.answer = "PATCH_COMMIT_INCOMPLETE" /\ q.failed = plan.path
        /\ q.plans = p.plans /\ q.committed = p.committed
    BY <1>1, <1>6 DEF PatchCalls
  <2>2. patch' = [patch EXCEPT ![c] = q]
    BY <1>13
  <2> HIDE DEF q
  <2>3. StartOfPlans(q, more)
    BY SMTT(60), <1>4, <1>5, <1>9, <2>1 DEF StartOfPlans, n
  <2>4. AnswerIsRight(q, more)
    BY <1>4, <1>5, <1>6, <1>9, <2>1 DEF AnswerIsRight, n
  <2>5. CallInv(q, more)
    BY <1>5, <2>1, <2>3, <2>4 DEF CallInv
  <2> QED
    BY <1>2, <1>7, <1>9, <2>1, <2>2, <2>5, PatchMove
<1> QED
  BY <1>3, <1>11, <1>12, <1>13

(* What the look is worth: a call that has looked at its file is alone     *)
(* under the lock, and the file is the one planned on until somebody who   *)
(* does not take the lock writes it.                                       *)
LEMMA LookStarts == PatchInit => LookInv
  BY DEF PatchInit, LookInv, NoPatch

LEMMA LookStep == ASSUME PatchInv, LookInv, [PatchNext]_patchVars PROVE LookInv'
<1> USE DEF LookInv, Looked
<1>1. patch \in [Calls -> PatchCalls] /\ files \in [PatchPaths -> Images]
  BY DEF PatchInv
<1>2. ASSUME NEW c \in Calls,
             /\ raced' \in [Calls -> BOOLEAN] /\ \A d \in Calls : d # c => raced'[d] = raced[d]
             /\ files' = files /\ patch'[c].at # "checked"
             /\ \A d \in Calls : d # c => patch'[d] = patch[d]
      PROVE  LookInv'
  BY <1>2 DEF NextPlan
<1>3. ASSUME NEW c \in Calls, Call(c) \/ FileIdentity(c) \/ ForgetPatch(c) PROVE LookInv'
  <2>1. raced' = raced /\ files' = files
    BY <1>3 DEF Call, FileIdentity, ForgetPatch
  <2>2. patch'[c].at # "checked" /\ \A d \in Calls : d # c => patch'[d] = patch[d]
    <3>1. CASE Call(c)
      <4>1. PICK parsed \in Patches, mode \in {"check", "apply"} :
              patch' = [patch EXCEPT ![c] =
                IF WellFormed(parsed)
                  THEN [NoPatch EXCEPT !.at = "identity", !.mode = mode, !.todo = parsed]
                  ELSE [NoPatch EXCEPT !.at = "answered", !.answer = "CAPABILITY_INPUT_INVALID"]]
        BY <3>1 DEF Call
      <4>2. \/ patch' = [patch EXCEPT ![c] = [NoPatch EXCEPT !.at = "identity", !.mode = mode, !.todo = parsed]]
            \/ patch' = [patch EXCEPT ![c] = [NoPatch EXCEPT !.at = "answered", !.answer = "CAPABILITY_INPUT_INVALID"]]
        BY <4>1, Zenon
      <4> QED
        BY <1>1, <4>2 DEF NoPatch
    <3>2. CASE FileIdentity(c)
      <4>1. \/ patch' = [patch EXCEPT ![c] = [patch[c] EXCEPT !.at = "read"]]
            \/ patch' = [patch EXCEPT ![c] = AnsweredPatch(c, "PATCH_PRECONDITION_FAILED")]
        BY <3>2 DEF FileIdentity
      <4>2. patch[c] \in PatchCalls
        BY <1>1
      <4> QED
        BY ZenonT(60), <1>1, <4>1, <4>2 DEF AnsweredPatch, PatchCalls
    <3>3. CASE ForgetPatch(c)
      BY <1>1, <3>3 DEF ForgetPatch, NoPatch
    <3> QED
      BY <1>3, <3>1, <3>2, <3>3
  <2> QED
    BY <1>2, <2>1, <2>2
<1>4. ASSUME NEW c \in Calls, ReadFile(c) PROVE LookInv'
  <2>1. raced' = raced /\ files' = files /\ patch[c].at = "read" /\ patch[c] \in PatchCalls
    BY <1>1, <1>4 DEF ReadFile
  <2>2. PICK plans, left :
          \/ patch' = [patch EXCEPT ![c] = AnsweredPatch(c, "PATCH_PRECONDITION_FAILED")]
          \/ patch' = [patch EXCEPT ![c] = [@ EXCEPT !.at = "identity", !.todo = left, !.plans = plans]]
          \/ patch' = [patch EXCEPT ![c] = [AnsweredPatch(c, "ok") EXCEPT !.plans = Planned(plans)]]
          \/ patch' = [patch EXCEPT ![c] = [@ EXCEPT !.at = "commit", !.todo = <<>>, !.plans = Planned(plans)]]
    BY <1>4, Zenon DEF ReadFile
  <2>3. patch'[c].at # "checked" /\ \A d \in Calls : d # c => patch'[d] = patch[d]
    <3>1. \A d \in Calls : d # c => patch'[d] = patch[d]
      BY <1>1, <2>2
    <3>2. \/ patch'[c] = [patch[c] EXCEPT !.at = "answered", !.answer = "PATCH_PRECONDITION_FAILED"]
          \/ patch'[c] = [patch[c] EXCEPT !.at = "identity", !.todo = left, !.plans = plans]
          \/ patch'[c] = [[patch[c] EXCEPT !.at = "answered", !.answer = "ok"] EXCEPT !.plans = Planned(plans)]
          \/ patch'[c] = [patch[c] EXCEPT !.at = "commit", !.todo = <<>>, !.plans = Planned(plans)]
      BY <1>1, <2>2 DEF AnsweredPatch
    <3> QED
      BY <2>1, <3>1, <3>2 DEF PatchCalls
  <2> QED
    BY <1>2, <2>1, <2>3
<1>5. ASSUME NEW c \in Calls, CheckFile(c) PROVE LookInv'
  <2>1. /\ patch'[c] = [patch[c] EXCEPT !.at = "checked"] /\ \A d \in Calls : d # c => patch'[d] = patch[d]
        /\ \A d \in Calls : patch[d].at # "checked"
        /\ raced' = raced /\ files' = files
        /\ NextPlan(c).action # "create" => files[NextPlan(c).path] = NextPlan(c).expected
    BY <1>1, <1>5 DEF CheckFile, LockFree, Admits, Unchanged
  <2>2. NextPlan(c)' = NextPlan(c)
    BY <1>1, <2>1 DEF NextPlan, PatchCalls
  <2> QED
    BY <2>1, <2>2
<1>6. ASSUME NEW c \in Calls, ReplaceFile(c) PROVE LookInv'
  <2>1. /\ patch[c].at = "checked" /\ patch[c] \in PatchCalls
        /\ raced' \in [Calls -> BOOLEAN]
    BY <1>1, <1>6 DEF ReplaceFile
  <2>2. PICK done, plan :
          \/ patch' = [patch EXCEPT ![c] = [@ EXCEPT !.at = "commit", !.committed = done]]
          \/ patch' = [patch EXCEPT ![c] = [AnsweredPatch(c, "ok") EXCEPT !.committed = done]]
          \/ patch' = [patch EXCEPT ![c] = [AnsweredPatch(c, "PATCH_COMMIT_INCOMPLETE") EXCEPT !.failed = plan]]
    BY <1>6, Zenon DEF ReplaceFile, Incomplete, Stopped
  <2>3. patch'[c].at # "checked" /\ \A d \in Calls : d # c => patch'[d] = patch[d]
    <3>1. \A d \in Calls : d # c => patch'[d] = patch[d]
      BY <1>1, <2>2
    <3>2. \/ patch'[c] = [patch[c] EXCEPT !.at = "commit", !.committed = done]
          \/ patch'[c] = [[patch[c] EXCEPT !.at = "answered", !.answer = "ok"] EXCEPT !.committed = done]
          \/ patch'[c] = [[patch[c] EXCEPT !.at = "answered", !.answer = "PATCH_COMMIT_INCOMPLETE"] EXCEPT !.failed = plan]
      BY <1>1, <2>2 DEF AnsweredPatch
    <3> QED
      BY <2>1, <3>1, <3>2 DEF PatchCalls
  <2> QED
    BY <2>1, <2>3
<1>7. ASSUME NEW c \in Calls, Refused(c) PROVE LookInv'
  <2>1. /\ raced' \in [Calls -> BOOLEAN] /\ files' = files
        /\ \A d \in Calls : d # c => raced'[d] = raced[d]
    BY <1>7 DEF Refused
  <2>2. patch'[c].at # "checked" /\ \A d \in Calls : d # c => patch'[d] = patch[d]
    BY <1>1, <1>7 DEF Refused, Incomplete, Stopped, AnsweredPatch, PatchCalls
  <2> QED
    BY <1>2, <2>1, <2>2
<1>8. ASSUME NEW w \in PatchPaths, WriteFile(w) PROVE LookInv'
  BY <1>8 DEF WriteFile, Put, LockFree
<1>9. ASSUME NEW w \in PatchPaths, OutsideWrite(w) PROVE LookInv'
  <2>1. /\ patch' = patch
        /\ raced' = [c \in Calls |-> raced[c] \/ (patch[c].at = "checked" /\ NextPlan(c).path = w)]
    BY <1>9 DEF OutsideWrite, Put
  <2>2. PICK f : files' = [files EXCEPT ![w] = f]
    BY <1>9 DEF OutsideWrite, Put
  <2>3. ASSUME NEW c \in Calls, patch'[c].at = "checked" PROVE Looked(c)'
    <3>1. patch[c] \in PatchCalls /\ published[c] \in Seq(Replacements) /\ CallInv(patch[c], published[c])
      BY DEF PatchInv
    <3>2. NextPlan(c) \in PatchPlans /\ NextPlan(c)' = NextPlan(c) /\ Looked(c)
      BY <2>1, <2>3, <3>1, NextPlanIsThere DEF NextPlan
    <3>3. NextPlan(c).path \in PatchPaths
      BY <3>2 DEF PatchPlans
    <3> QED
      BY <1>1, <2>1, <2>2, <2>3, <3>2, <3>3
  <2> QED
    BY <2>1, <2>3
<1>10. CASE UNCHANGED patchVars
  BY <1>10 DEF patchVars, NextPlan
<1> QED
  BY <1>3, <1>4, <1>5, <1>6, <1>7, <1>8, <1>9, <1>10 DEF PatchNext

(* NativePatchService and commit_patch_file: a plan is what its diff means *)
(* for the file that was read, no other image is replaced unless somebody  *)
(* outside the registry lock wrote it between the look and the rename or   *)
(* unlink, a file to create replaces none, and the answer names what was   *)
(* replaced, for any patches, paths, lines and overlapping calls.          *)
THEOREM PatchIsTrue == PatchSpec => []PatchTellsTheTruth
<1>1. PatchInit => PatchInv /\ LookInv
  BY PatchStarts, LookStarts
<1>2. PatchInv /\ LookInv /\ [PatchNext]_patchVars => PatchInv' /\ LookInv'
  <2> SUFFICES ASSUME PatchInv, LookInv, [PatchNext]_patchVars PROVE PatchInv' /\ LookInv'
    OBVIOUS
  <2>0. LookInv'
    BY LookStep
  <2>1. ASSUME NEW c \in Calls, Call(c) PROVE PatchInv'
    BY <2>1, CallStep
  <2>2. ASSUME NEW c \in Calls, FileIdentity(c) PROVE PatchInv'
    BY <2>2, FileIdentityStep
  <2>3. ASSUME NEW c \in Calls, ReadFile(c) PROVE PatchInv'
    BY <2>3, ReadFileStep
  <2>4. ASSUME NEW c \in Calls, CheckFile(c) PROVE PatchInv'
    BY <2>4, CheckFileStep
  <2>9. ASSUME NEW c \in Calls, ReplaceFile(c) PROVE PatchInv'
    BY <2>9, ReplaceFileStep
  <2>5. ASSUME NEW c \in Calls, Refused(c) PROVE PatchInv'
    BY <2>5, RefusedStep
  <2>6. ASSUME NEW c \in Calls, ForgetPatch(c) PROVE PatchInv'
    BY <2>6, ForgetPatchStep
  <2>7. ASSUME NEW w \in PatchPaths, WriteFile(w) \/ OutsideWrite(w) PROVE PatchInv'
    BY <2>7, PutStep DEF WriteFile, OutsideWrite
  <2>8. ASSUME UNCHANGED patchVars PROVE PatchInv'
    BY <2>8 DEF patchVars, PatchInv
  <2> QED
    BY <2>0, <2>1, <2>2, <2>3, <2>4, <2>5, <2>6, <2>7, <2>8, <2>9 DEF PatchNext
<1>3. PatchInv => PatchTellsTheTruth
  BY PatchInvTells
<1> QED
  BY <1>1, <1>2, <1>3, PTL DEF PatchSpec
=============================================================================
