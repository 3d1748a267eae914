--------------------------- MODULE ResumeContext ---------------------------
(***************************************************************************)
(* context.build with intent "resume", next to workspace.checkpoint and a  *)
(* repository that moves: the bundle is built first (and with it the       *)
(* current source state observed), then the checkpoint is read, then Git   *)
(* is asked at most twice how the two heads are related, then each         *)
(* evidence reference of the checkpoint is looked up.                      *)
(*                                                                         *)
(* A source state is a head and a fingerprint of the changes; commits are  *)
(* numbered, commit n being made on top of parent[n].                      *)
(***************************************************************************)
EXTENDS Naturals, Sequences, FiniteSets

CONSTANTS
  Refs,        \* sequences of evidence references a checkpoint may carry
  MaxCommits,  \* bound
  MaxResumeMoves     \* bound: changes of the repository and of the checkpoint

EvidenceKinds == {"note", "git", "process", "preview", "pr", "ci", "artifact"}
Reference == [kind : EvidenceKinds, valid : BOOLEAN]    \* WorkspaceEvidenceRef; valid: its text has the form of its kind

ASSUME RefsAssumption == Refs \subseteq Seq(Reference)

VARIABLES
  parent, head, changes, \* the repository
  resumeMoves,
  checkpoint,            \* the stored checkpoint, with the state captured for it
  saving,                \* workspace.checkpoint between git.changes and the store
  resume,                \* the call of context.build
  quiet                  \* history: nothing has moved since that call began

resumeVars == <<parent, head, changes, resumeMoves, checkpoint, saving, resume, quiet>>

NoState == [headOid |-> 0, changesFingerprint |-> 0]    \* no source state
CurrentState == [headOid |-> head, changesFingerprint |-> changes]
SourceStates == [headOid : DOMAIN parent, changesFingerprint : {0, 1}]    \* those the repository has been or may be in

Ancestors[n \in DOMAIN parent] == IF n = 1 THEN {1} ELSE {n} \union Ancestors[parent[n]]

(* git.range in mode "direct": is base an ancestor of head (Git itself).   *)
IsAncestor(base, other) == base \in Ancestors[other]

-----------------------------------------------------------------------------
(* reconcileCheckpointSourceState.  The first question is whether the      *)
(* captured head leads to the current one, the second the reverse; an      *)
(* answer is TRUE, FALSE or "failed", and the second is "unasked" when the *)
(* first settles it.                                                       *)

Relation(captured, current, forward, reverse) ==
  IF NoState \in {captured, current}             THEN "unverifiable"    \* LEGACY_SOURCE_STATE_UNKNOWN; no current state: GIT_ANCESTRY_UNAVAILABLE
  ELSE IF captured = current                     THEN "fresh"
  ELSE IF captured.headOid = current.headOid     THEN "stale"           \* WORKTREE_CHANGED
  ELSE IF "failed" \in {forward, reverse}        THEN "unverifiable"    \* GIT_ANCESTRY_UNAVAILABLE
  ELSE IF forward = "yes"                        THEN "stale"           \* HEAD_ADVANCED
  ELSE                                                "superseded"      \* HEAD_REWOUND, HEAD_DIVERGED

AsksGit(captured, current) ==
  NoState \notin {captured, current} /\ captured.headOid # current.headOid

AncestryAnswer(base, other) == {IF IsAncestor(base, other) THEN "yes" ELSE "no", "failed"}

Backward(captured, current) == AncestryAnswer(current.headOid, captured.headOid)    \* mutant: the heads swapped
Forward(captured, current) == AncestryAnswer(captured.headOid, current.headOid)

-----------------------------------------------------------------------------
(* reconcileEvidenceReference: what is reported of a reference, given the  *)
(* state its subject was bound to (previews and CI runs say) and how the   *)
(* lookup went.                                                            *)

Lookups == {"found", "missing", "unavailable"}

Compare(ref, current, bound) ==
  IF ref.kind = "process"                  THEN "unverifiable"    \* PROCESS_SOURCE_STATE_UNAVAILABLE
  ELSE IF ref.kind \in {"pr", "artifact"}  THEN "none"
  ELSE IF current = NoState                THEN "unverifiable"    \* CURRENT_SOURCE_STATE_UNAVAILABLE
  ELSE IF (IF ref.kind = "ci" THEN bound.headOid = current.headOid ELSE bound = current) THEN "fresh"
  ELSE                                          "stale"

Evidence(ref, current, lookup, bound) ==
  IF ref.kind = "note"       THEN [availability |-> "informational", relation |-> "none"]
  ELSE IF ~ref.valid         THEN [availability |-> "invalid", relation |-> "none"]
  ELSE IF ref.kind = "git"   THEN [availability |-> "informational", relation |-> "none"]
  ELSE IF lookup # "found"   THEN [availability |-> lookup, relation |-> "none"]
  ELSE [availability |-> "observed", relation |-> Compare(ref, current, bound)]

-----------------------------------------------------------------------------
NoCheckpoint == [present |-> FALSE, captured |-> NoState, refs |-> <<>>]
NotRunning == [at |-> "idle", current |-> NoState, read |-> NoCheckpoint, forward |-> "unasked",
               reverse |-> "unasked", evidence |-> <<>>, bounds |-> <<>>, relation |-> "none"]

ResumeInit ==
  /\ parent = <<1>> /\ head = 1 /\ changes = 0
  /\ resumeMoves = 0
  /\ \/ checkpoint = NoCheckpoint
     \/ \E refs \in Refs :    \* of an older release, without a captured state
          checkpoint = [present |-> TRUE, captured |-> NoState, refs |-> refs]
  /\ saving = NoState
  /\ resume = NotRunning
  /\ quiet = TRUE

Moved ==
  /\ resumeMoves < MaxResumeMoves
  /\ resumeMoves' = resumeMoves + 1
  /\ quiet' = FALSE

CommitOnTop ==
  /\ Moved
  /\ Len(parent) < MaxCommits
  /\ parent' = Append(parent, head)
  /\ head' = Len(parent) + 1
  /\ changes' = 0
  /\ UNCHANGED <<checkpoint, saving, resume>>

(* git reset or a switch to another branch.                                *)
Leave(n) ==
  /\ Moved
  /\ n # head
  /\ head' = n
  /\ UNCHANGED <<parent, changes, checkpoint, saving, resume>>

Edit ==
  /\ Moved
  /\ changes' = 1 - changes
  /\ UNCHANGED <<parent, head, checkpoint, saving, resume>>

(* workspace.checkpoint, upsert: git.changes first, whose failure keeps    *)
(* the checkpoint from being stored.                                       *)
Capture ==
  /\ saving = NoState
  /\ saving' = CurrentState
  /\ UNCHANGED <<parent, head, changes, resumeMoves, checkpoint, resume, quiet>>

Store ==
  /\ Moved
  /\ saving # NoState
  /\ \E refs \in Refs : checkpoint' = [present |-> TRUE, captured |-> saving, refs |-> refs]
  /\ saving' = NoState
  /\ UNCHANGED <<parent, head, changes, resume>>

Clear ==
  /\ Moved
  /\ checkpoint.present
  /\ checkpoint' = NoCheckpoint
  /\ UNCHANGED <<parent, head, changes, saving, resume>>

(* native.buildContext: its Git evidence may be unavailable.               *)
BuildContext ==
  /\ resume.at \in {"idle", "answered"}
  /\ \E current \in {CurrentState, NoState} :
       resume' = [NotRunning EXCEPT !.at = "built", !.current = current]
  /\ quiet' = TRUE
  /\ UNCHANGED <<parent, head, changes, resumeMoves, checkpoint, saving>>

(* workspaceInfo.  Without a checkpoint there is nothing to reconcile.     *)
ReadCheckpoint ==
  /\ resume.at = "built"
  /\ resume' = [resume EXCEPT
       !.read = checkpoint,
       !.at = CASE ~checkpoint.present                           -> "answered"
                [] AsksGit(checkpoint.captured, resume.current) -> "forward"
                [] OTHER                                         -> "related"]
  /\ UNCHANGED <<parent, head, changes, resumeMoves, checkpoint, saving, quiet>>

AskForward ==
  /\ resume.at = "forward"
  /\ \E answer \in Forward(resume.read.captured, resume.current) :
       resume' = [resume EXCEPT !.forward = answer,
                                !.at = IF answer = "no" THEN "reverse" ELSE "related"]
  /\ UNCHANGED <<parent, head, changes, resumeMoves, checkpoint, saving, quiet>>

AskReverse ==
  /\ resume.at = "reverse"
  /\ \E answer \in AncestryAnswer(resume.current.headOid, resume.read.captured.headOid) :
       resume' = [resume EXCEPT !.reverse = answer, !.at = "related"]
  /\ UNCHANGED <<parent, head, changes, resumeMoves, checkpoint, saving, quiet>>

(* The next reference of the checkpoint.  A preview was started, and a run *)
(* of remote CI is, in some state of the source; bounds is the history of  *)
(* these states.                                                           *)
LookUp ==
  /\ resume.at = "related" /\ Len(resume.evidence) < Len(resume.read.refs)
  /\ LET ref == resume.read.refs[Len(resume.evidence) + 1] IN
     \E lookup \in Lookups :
     \E bound \in IF lookup = "found" /\ ref.kind \in {"preview", "ci"} THEN SourceStates ELSE {NoState} :
       resume' = [resume EXCEPT !.evidence = Append(@, Evidence(ref, resume.current, lookup, bound)),
                                !.bounds = Append(@, bound)]
  /\ UNCHANGED <<parent, head, changes, resumeMoves, checkpoint, saving, quiet>>

Synthesize ==
  /\ resume.at = "related" /\ Len(resume.evidence) = Len(resume.read.refs)
  /\ resume' = [resume EXCEPT !.at = "answered",
       !.relation = Relation(resume.read.captured, resume.current, resume.forward, resume.reverse)]
  /\ UNCHANGED <<parent, head, changes, resumeMoves, checkpoint, saving, quiet>>

ResumeNext ==
  \/ CommitOnTop \/ (\E n \in DOMAIN parent : Leave(n)) \/ Edit \/ Capture \/ Store \/ Clear
  \/ BuildContext \/ ReadCheckpoint \/ AskForward \/ AskReverse \/ LookUp \/ Synthesize

ResumeSpec == ResumeInit /\ [][ResumeNext]_resumeVars

-----------------------------------------------------------------------------
ResumeAnswered == resume.at = "answered" /\ resume.read.present

(* What is said of one reference: a preview is fresh for the very state it *)
(* was started in, a CI run for the head it ran on, whatever has changed in*)
(* the worktree since.                                                     *)
EvidenceIsTrue(ref, said, bound) ==
  LET same == IF ref.kind = "ci" THEN bound.headOid = head ELSE bound = CurrentState IN
  said.relation \in {"fresh", "stale"} =>
    ref.kind \in {"preview", "ci"} /\ (said.relation = "fresh" <=> same)

(* When nothing moves while the call runs, its answer is the truth about   *)
(* checkpoint and repository: fresh for the very state that was captured,  *)
(* stale for a state that can be reached from it by changes and commits,   *)
(* superseded for any other; and it has one observation for each reference *)
(* of the checkpoint, which calls a preview fresh exactly for the state    *)
(* that the repository is in, and a CI run for the head alone - fresh over *)
(* a worktree with changes that CI has not seen (reconcileCheckpointSource-*)
(* State, reconcileEvidenceReference, compareHeadOid).                     *)
QuietResumeTellsTheTruth ==
  ResumeAnswered /\ quiet =>
    /\ resume.relation = "fresh"      => checkpoint.captured = CurrentState
    /\ resume.relation = "stale"      => checkpoint.captured # CurrentState
                                         /\ IsAncestor(checkpoint.captured.headOid, head)
    /\ resume.relation = "superseded" => ~IsAncestor(checkpoint.captured.headOid, head)
    /\ Len(resume.evidence) = Len(checkpoint.refs)
    /\ \A i \in 1..Len(resume.evidence) : EvidenceIsTrue(checkpoint.refs[i], resume.evidence[i], resume.bounds[i])
=============================================================================
