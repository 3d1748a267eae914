---------------------------- MODULE SourceState ----------------------------
(***************************************************************************)
(* The source state that verification, preview, browser and visual        *)
(* evidence is bound to: git.changes asks the runtime for a checkpoint,    *)
(* which runs `git status` and then looks at the files one after the other *)
(* while the repository may change; the manager validates the records and  *)
(* git.changes reduces them to a fingerprint.  Evidence counts as fresh    *)
(* when its source state equals the one observed now.                      *)
(*                                                                         *)
(* A path has a content in HEAD, in the index and in the worktree, NoFile  *)
(* where it has none.  Contents in Big are too large to be hashed.         *)
(***************************************************************************)
EXTENDS Naturals, FiniteSets

CONSTANTS
  Paths, Contents, Big,
  NoFile,     \* no content
  Conflict,   \* what the index has for an unmerged path
  MaxCommits, \* bound
  MaxEdits    \* bound: changes of the repository

ASSUME ContentAssumption ==
  /\ Big \subseteq Contents
  /\ NoFile \notin Contents /\ Conflict \notin Contents \union {NoFile}
  /\ MaxCommits \in Nat

VARIABLES
  commit,    \* HEAD's oid
  head, index, worktree,
  edits,     \* changes so far
  scan,      \* the checkpoint in progress, or the last one
  during,    \* history: the contents each path has had since the scan began
  evidence   \* what a verification or preview was bound to, with its `during`

sourceVars == <<commit, head, index, worktree, edits, scan, during, evidence>>

-----------------------------------------------------------------------------
(* git status --porcelain=v2 --untracked-files=all (Git itself)            *)

IndexStatus(p) ==
  CASE index[p] = Conflict                       -> "U"
    [] index[p] = head[p]                        -> "."
    [] index[p] = NoFile /\ head[p] # NoFile     -> "D"
    [] index[p] \in Contents /\ head[p] = NoFile -> "A"
    [] OTHER                                     -> "M"
WorktreeStatus(p) ==
  CASE index[p] = Conflict                       -> "U"
    [] index[p] \in {NoFile, worktree[p]}        -> "."
    [] index[p] \in Contents /\ worktree[p] = NoFile -> "D"
    [] OTHER                                     -> "M"

(* q is the new name of p when the index has dropped p and has its content *)
(* as a new file q.                                                        *)
Renamed(p, q) ==
  p # q /\ head[p] # NoFile /\ index[p] = NoFile /\ head[q] = NoFile /\ index[q] = head[p]

NotTaken == [exists |-> FALSE, sha |-> "none", hashTruncated |-> TRUE]    \* no currentIdentity

Record(type, p, original, x, y) ==
  [type |-> type, path |-> p, original |-> original, x |-> x, y |-> y,
   headOid |-> head[p], indexOid |-> index[p], identity |-> NotTaken]

StatusRecords ==
  LET renames == {pq \in Paths \X Paths : Renamed(pq[1], pq[2])}
      from    == {pq[1] : pq \in renames}
      to      == {pq[2] : pq \in renames}
      changed == {p \in Paths : IndexStatus(p) # "." \/ WorktreeStatus(p) # "."}
  IN {Record(IF index[p] = Conflict THEN "unmerged" ELSE "ordinary",
             p, "none", IndexStatus(p), WorktreeStatus(p)) : p \in changed \ (from \union to)}
     \union {Record("rename", pq[2], pq[1], "R", WorktreeStatus(pq[2])) : pq \in renames}
     \union {Record("untracked", p, "none", ".", "?") :
               p \in {r \in Paths : index[r] = NoFile /\ worktree[r] # NoFile}}

-----------------------------------------------------------------------------
(* attach_current_identities, one record at a time                         *)

NeedsIdentity(r) == r.type = "untracked" \/ r.y \notin {".", "D"}

(* A file that has gone since `git status` has no content, one that is too *)
(* big only a size.                                                        *)
Identity(p) ==
  CASE worktree[p] = NoFile -> [exists |-> FALSE, sha |-> "none", hashTruncated |-> FALSE]
    [] worktree[p] \in Big  -> [exists |-> TRUE, sha |-> "none", hashTruncated |-> TRUE]
    [] OTHER                -> [exists |-> TRUE, sha |-> worktree[p], hashTruncated |-> FALSE]

TruncatesAt(identity) == ~identity.exists \/ identity.hashTruncated

-----------------------------------------------------------------------------
(* What the manager accepts of a checkpoint                                *)

(* isValidPathIdentityResult with includeSha256.                           *)
ValidIdentity(i) ==
  IF i.exists THEN i.hashTruncated # (i.sha # "none")
              ELSE i.sha = "none" /\ ~i.hashTruncated

ValidRecord(r) ==
  /\ (r.type = "rename") = (r.original # "none")
  /\ NeedsIdentity(r) => r.identity # NotTaken
  /\ r.identity # NotTaken => ValidIdentity(r.identity)

OnePerPath(records) == \A r, s \in records : r.path = s.path => r = s
ValidCheckpoint(records) == OnePerPath(records) /\ \A r \in records : ValidRecord(r)

(* mutant: as before untracked content took part in the fingerprint *)
TrackedOnly(s) ==
  [headOid |-> s.headOid,
   changesFingerprint |-> {IF r.type = "untracked" THEN [r EXCEPT !.identity = NotTaken] ELSE r
                             : r \in s.done}]

(* git.changes: the records are sorted and hashed, so that the fingerprint *)
(* stands for their set.                                                   *)
SourceStateOf(s) == [headOid |-> s.headOid, changesFingerprint |-> s.done]

-----------------------------------------------------------------------------
NoScan == [at |-> "none", headOid |-> 0, todo |-> {}, done |-> {}, truncated |-> FALSE]

SourceInit ==
  /\ commit = 0
  /\ head \in [Paths -> Contents \union {NoFile}]
  /\ index = head
  /\ worktree = head
  /\ edits = 0
  /\ scan = NoScan
  /\ during = [p \in Paths |-> {}]
  /\ evidence = {}

Edited ==
  /\ edits < MaxEdits
  /\ edits' = edits + 1
  /\ UNCHANGED <<scan, evidence>>

(* An editor or a process of the workspace.                                *)
Write(p, c) ==
  /\ Edited
  /\ worktree[p] # c
  /\ worktree' = [worktree EXCEPT ![p] = c]
  /\ during' = [during EXCEPT ![p] = @ \union {c}]
  /\ UNCHANGED <<commit, head, index>>

(* git add, and git rm --cached.                                           *)
Stage(p) ==
  /\ Edited
  /\ \E c \in {worktree[p], NoFile} : c # index[p] /\ index' = [index EXCEPT ![p] = c]
  /\ UNCHANGED <<commit, head, worktree, during>>

(* A merge stops at p.                                                     *)
Collide(p) ==
  /\ Edited
  /\ head[p] # NoFile /\ index[p] = head[p]
  /\ index' = [index EXCEPT ![p] = Conflict]
  /\ UNCHANGED <<commit, head, worktree, during>>

Commit ==
  /\ Edited
  /\ commit < MaxCommits /\ index # head /\ \A p \in Paths : index[p] # Conflict
  /\ commit' = commit + 1
  /\ head' = index
  /\ UNCHANGED <<index, worktree, during>>

(* git.checkpoint begins with the status.                                  *)
Status ==
  /\ scan.at \in {"none", "accepted", "refused"}
  /\ scan' = [at |-> "identities", headOid |-> commit, done |-> {}, truncated |-> FALSE,
              todo |-> StatusRecords]
  /\ during' = [p \in Paths |-> {worktree[p]}]
  /\ UNCHANGED <<commit, head, index, worktree, edits, evidence>>

(* The metadata of a file is looked at before it is hashed; what is kept   *)
(* comes from one of the two looks, so they are taken as one.              *)
Attach(r) ==
  /\ scan.at = "identities" /\ r \in scan.todo
  /\ LET identity == IF NeedsIdentity(r) THEN Identity(r.path) ELSE NotTaken IN
     scan' = [scan EXCEPT !.todo = @ \ {r},
                          !.done = @ \union {[r EXCEPT !.identity = identity]},
                          !.truncated = @ \/ (NeedsIdentity(r) /\ TruncatesAt(identity))]
  /\ UNCHANGED <<commit, head, index, worktree, edits, during, evidence>>

(* The reply is validated: RUNTIME_PROTOCOL_INVALID becomes                *)
(* GIT_STATUS_INVALID, and whoever asked gets no source state.             *)
Validate ==
  /\ scan.at = "identities" /\ scan.todo = {}
  /\ scan' = [scan EXCEPT !.at = IF ValidCheckpoint(scan.done) THEN "accepted" ELSE "refused"]
  /\ UNCHANGED <<commit, head, index, worktree, edits, during, evidence>>

(* git.checkpoint fails: git does, or a file changes under the hash.       *)
CheckpointFails ==
  /\ scan.at = "identities"
  /\ scan' = NoScan
  /\ UNCHANGED <<commit, head, index, worktree, edits, during, evidence>>

(* verify.run, or a preview, is bound to the state.                        *)
Bind ==
  /\ scan.at = "accepted"
  /\ evidence' = {[state |-> SourceStateOf(scan), truncated |-> scan.truncated, saw |-> during]}
  /\ scan' = NoScan
  /\ UNCHANGED <<commit, head, index, worktree, edits, during>>

SourceNext ==
  \/ \E p \in Paths : (\E c \in Contents \union {NoFile} : Write(p, c)) \/ Stage(p) \/ Collide(p)
  \/ Commit \/ Status \/ (\E r \in scan.todo : Attach(r)) \/ Validate \/ CheckpointFails \/ Bind

SourceSpec == SourceInit /\ [][SourceNext]_sourceVars

-----------------------------------------------------------------------------
Fresh(e) == scan.at = "accepted" /\ e.state = SourceStateOf(scan)

(* Fresh evidence is about the files as they are: whatever was observed of *)
(* a path for the present state was also there when the evidence was bound *)
(* (at some moment of its own scan), unless one of the scans was truncated. *)
FreshEvidenceSawTheseFiles ==
  \A e \in evidence :
    Fresh(e) /\ ~e.truncated /\ ~scan.truncated =>
      \A p \in Paths : e.saw[p] \intersect during[p] # {}

(* docs/compatibility/chatgpt.md: "git.changes provides a content-sensitive *)
(* deterministic checkpoint".  So it does of every state of the repository: *)
(* a checkpoint that the runtime could take is not refused as malformed.    *)
EveryStateHasACheckpoint == scan.at # "refused"
=============================================================================
