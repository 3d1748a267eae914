------------------------------ MODULE FilePatch ------------------------------
(***************************************************************************)
(* file.patch (capabilities/src/patch.ts): every file of a unified diff is *)
(* read and its post-image computed, the plans are put in path order, and  *)
(* one file after the other is looked at again and, if it still has the    *)
(* digest that was read, replaced (WorkspaceManager.commitPatchFile, the   *)
(* runtime's commit_patch_file under the registry lock).  Calls overlap    *)
(* and file.write goes on, under the same lock; editors and child processes*)
(* write without it, also between the look and the replacement; and a      *)
(* reply may be lost after the file has been replaced.                     *)
(* A file's content stands for its digest; contents are lines.             *)
(***************************************************************************)
EXTENDS Integers, Sequences, FiniteSets, SequencesExt

CONSTANTS
  Calls,       \* overlapping calls of file.patch
  PatchPaths,  \* a set of numbers: the byte order of paths is theirs
  Lines,       \* lines a file may have
  Patches,     \* parsed patches: sequences of [path, action, hunks]
  MaxLength,   \* MAX_PATCH_BYTES, counted in lines
  MaxWrites    \* bound: writes by others

(* What the parser makes of a patch.                                       *)
ParsedLines == [kind : {"context", "add", "remove"}, text : Lines]
ParsedHunks == [oldStart : Nat, oldCount : Nat, newStart : Nat, newCount : Nat, lines : Seq(ParsedLines)]
ParsedFiles == [path : PatchPaths, action : {"create", "update", "delete"}, hunks : Seq(ParsedHunks)]
ASSUME PatchAssumption ==
  PatchPaths \subseteq Nat /\ MaxLength \in Nat /\ \A parsed \in Patches : parsed \in Seq(ParsedFiles)

VARIABLES
  files,      \* path |-> sequence of lines, or Absent
  writes,     \* writes by others so far
  patch,      \* call |-> what it is doing
  published,  \* history: call |-> <<[path, from, to, raced]>>, the files replaced, in order
  raced       \* history: call |-> somebody without the lock has written the file since its look

patchVars == <<files, writes, patch, published, raced>>

Absent == <<"absent">>
FileTexts == UNION {[1..n -> Lines] : n \in 0..MaxLength}

-----------------------------------------------------------------------------
(* parseUnifiedPatch, parseHunk: what is accepted of a patch already split *)
(* into files and hunks.  A hunk's lines make up two sides: the old one has*)
(* none of those added, the new one none of those removed.                 *)
Side(lines, without) ==
  LET upTo[k \in 0..Len(lines)] ==
        IF k = 0 THEN <<>>
        ELSE IF lines[k].kind = without THEN upTo[k - 1] ELSE Append(upTo[k - 1], lines[k].text)
  IN upTo[Len(lines)]
OldSide(hunk) == Side(hunk.lines, "add")
NewSide(hunk) == Side(hunk.lines, "remove")

WellFormedHunk(hunk) ==
  /\ Len(OldSide(hunk)) = hunk.oldCount /\ Len(NewSide(hunk)) = hunk.newCount
  /\ hunk.oldCount > 0 => hunk.oldStart > 0
  /\ hunk.newCount > 0 => hunk.newStart > 0

WellFormed(parsed) ==
  /\ parsed # <<>>
  /\ \A i, j \in DOMAIN parsed : i # j => parsed[i].path # parsed[j].path
  /\ \A i \in DOMAIN parsed : parsed[i].hunks # <<>> /\ \A k \in DOMAIN parsed[i].hunks :
       WellFormedHunk(parsed[i].hunks[k])

(* applyHunks: how far the source has been used, what has been put out and *)
(* cumulativeDelta.  The source is copied up to each hunk, whose new start *)
(* must agree with the lines added so far; a line that is not added must be*)
(* the next of the source.                                                 *)
Begun == [ok |-> TRUE, cursor |-> 0, output |-> <<>>, delta |-> 0]

OldTarget(hunk) == IF hunk.oldCount = 0 THEN hunk.oldStart ELSE hunk.oldStart - 1
NewTarget(hunk) == IF hunk.newCount = 0 THEN hunk.newStart ELSE hunk.newStart - 1
Unplaced(hunk, done, source) ==
  \/ NewTarget(hunk) # OldTarget(hunk) + done.delta
  \/ OldTarget(hunk) < done.cursor \/ OldTarget(hunk) > Len(source)

ApplyLine(done, line, source) ==
  IF line.kind = "add" THEN [done EXCEPT !.output = Append(@, line.text)]
  ELSE IF done.cursor >= Len(source) \/ source[done.cursor + 1] # line.text THEN [done EXCEPT !.ok = FALSE]
  ELSE [done EXCEPT !.cursor = @ + 1, !.output = IF line.kind = "context" THEN Append(@, line.text) ELSE @]

ApplyLines(start, lines, source) ==
  LET upTo[k \in 0..Len(lines)] == IF k = 0 THEN start ELSE ApplyLine(upTo[k - 1], lines[k], source)
  IN upTo[Len(lines)]

ApplyHunk(done, hunk, source) ==
  IF ~done.ok \/ Unplaced(hunk, done, source) THEN [done EXCEPT !.ok = FALSE]
  ELSE ApplyLines([done EXCEPT !.output = @ \o SubSeq(source, done.cursor + 1, OldTarget(hunk)),
                               !.cursor = OldTarget(hunk), !.delta = @ + hunk.newCount - hunk.oldCount],
                  hunk.lines, source)

ApplyHunks(source, hunks) ==
  LET upTo[k \in 0..Len(hunks)] == IF k = 0 THEN Begun ELSE ApplyHunk(upTo[k - 1], hunks[k], source)
      end == upTo[Len(hunks)]
  IN [ok |-> end.ok, next |-> end.output \o SubSeq(source, end.cursor + 1, Len(source))]

-----------------------------------------------------------------------------
NoPatch == [at |-> "idle", mode |-> "check", todo |-> <<>>, identity |-> "none", plans |-> <<>>,
            committed |-> <<>>, failed |-> 0, answer |-> "none"]

PatchInit ==
  /\ files \in [PatchPaths -> {Absent} \union {f \in FileTexts : Len(f) = MaxLength - 1}]
  /\ writes = 0
  /\ patch = [c \in Calls |-> NoPatch]
  /\ published = [c \in Calls |-> <<>>]
  /\ raced = [c \in Calls |-> FALSE]

AnsweredPatch(c, answer) == [patch[c] EXCEPT !.at = "answered", !.answer = answer]

Call(c) ==
  /\ patch[c].at = "idle"
  /\ \E parsed \in Patches, mode \in {"check", "apply"} :
       patch' = [patch EXCEPT ![c] =
         IF WellFormed(parsed)
           THEN [NoPatch EXCEPT !.at = "identity", !.mode = mode, !.todo = parsed]
           ELSE [NoPatch EXCEPT !.at = "answered", !.answer = "CAPABILITY_INPUT_INVALID"]]
  /\ published' = [published EXCEPT ![c] = <<>>]
  /\ UNCHANGED <<files, writes, raced>>

(* preflightAll, first pathIdentity: a file to create must not be there,   *)
(* any other must be a file and not too large.                             *)
FileIdentity(c) ==
  /\ patch[c].at = "identity"
  /\ LET file == patch[c].todo[1]
         fits == IF file.action = "create" THEN files[file.path] = Absent
                   ELSE files[file.path] # Absent /\ Len(files[file.path]) <= MaxLength
     IN patch' = [patch EXCEPT ![c] =
          IF fits THEN [@ EXCEPT !.at = "read"] ELSE AnsweredPatch(c, "PATCH_PRECONDITION_FAILED")]
  /\ UNCHANGED <<files, writes, published, raced>>

(* ... then readFile and applyHunks; the last file ends the preflight, and *)
(* the plans are sorted.                                                   *)
InPathOrder(plans) ==
  LET rank(plan) == Cardinality({other \in ToSet(plans) : other.path < plan.path})    \* their paths differ
  IN [k \in DOMAIN plans |-> CHOOSE plan \in ToSet(plans) : rank(plan) = k - 1]
InPatchOrder(plans) == plans    \* mutant: the plans are not sorted

Planned(plans) == InPathOrder(plans)

ReadFile(c) ==
  /\ patch[c].at = "read"
  /\ LET file == patch[c].todo[1]
         source == IF file.action = "create" THEN <<>> ELSE files[file.path]
         applied == ApplyHunks(source, file.hunks)
         left == Tail(patch[c].todo)
         plans == Append(patch[c].plans, [path |-> file.path, action |-> file.action, hunks |-> file.hunks,
                                          expected |-> IF file.action = "create" THEN Absent ELSE source,
                                          post |-> IF file.action = "delete" THEN Absent ELSE applied.next])
     IN patch' = [patch EXCEPT ![c] =
          IF source = Absent \/ ~applied.ok \/ (file.action = "delete" /\ applied.next # <<>>)
            THEN AnsweredPatch(c, "PATCH_PRECONDITION_FAILED")
            ELSE IF left # <<>> THEN [@ EXCEPT !.at = "identity", !.todo = left, !.plans = plans]
            ELSE IF @.mode = "check" THEN [AnsweredPatch(c, "ok") EXCEPT !.plans = Planned(plans)]
            ELSE [@ EXCEPT !.at = "commit", !.todo = <<>>, !.plans = Planned(plans)]]
  /\ UNCHANGED <<files, writes, published, raced>>

(* commit_patch_file, one call at a time under the registry lock.  The     *)
(* digest of a file to update or delete is looked at, and then the file is *)
(* replaced: two system calls, between which only those who take the lock  *)
(* are kept out.                                                           *)
NoLock   == TRUE    \* mutant: the operation does not run under the registry lock
LockFree == \A c \in Calls : patch[c].at # "checked"

Unchanged(plan)  == files[plan.path] = plan.expected
Overwrites(plan) == files[plan.path] # Absent    \* mutant: the digest is not compared
Admits(plan)     == Unchanged(plan)

NextPlan(c) == patch[c].plans[Len(patch[c].committed) + 1]

Stopped(c) == [AnsweredPatch(c, "PATCH_COMMIT_INCOMPLETE") EXCEPT !.failed = NextPlan(c).path]
KeptAsDone(c) == LET p == Append(patch[c].committed, NextPlan(c).path)    \* mutant: listed before the reply is looked at
                 IN [AnsweredPatch(c, "PATCH_COMMIT_INCOMPLETE") EXCEPT !.failed = NextPlan(c).path, !.committed = p]
Incomplete(c) == Stopped(c)

CheckFile(c) ==
  /\ patch[c].at = "commit" /\ LockFree
  /\ NextPlan(c).action # "create" => Admits(NextPlan(c))
  /\ patch' = [patch EXCEPT ![c].at = "checked"]
  /\ UNCHANGED <<files, writes, published, raced>>

(* create renames without replacing; update renames over whatever is there *)
(* by now; delete unlinks it, if there is anything.  The reply says so, or *)
(* does not arrive or is not what was planned.                             *)
Replaceable(plan) ==
  /\ plan.action = "create" => files[plan.path] = Absent
  /\ plan.action = "delete" => files[plan.path] # Absent

ReplaceFile(c) ==
  /\ patch[c].at = "checked" /\ Replaceable(NextPlan(c))
  /\ LET plan == NextPlan(c)
         done == Append(patch[c].committed, plan.path)
     IN /\ files' = [files EXCEPT ![plan.path] = plan.post]
        /\ published' = [published EXCEPT ![c] =
             Append(@, [path |-> plan.path, from |-> files[plan.path], to |-> plan.post, raced |-> raced[c]])]
        /\ \/ patch' = [patch EXCEPT ![c] =
                IF Len(done) < Len(@.plans) THEN [@ EXCEPT !.at = "commit", !.committed = done]
                                            ELSE [AnsweredPatch(c, "ok") EXCEPT !.committed = done]]
           \/ patch' = [patch EXCEPT ![c] = Incomplete(c)]
  /\ raced' = [raced EXCEPT ![c] = FALSE]
  /\ UNCHANGED writes

(* The runtime refuses: the digest is another, the workspace is closed, the*)
(* audit log is unavailable, the file to create is there or the one to     *)
(* delete is not, a system call fails; nothing is replaced.                *)
Refused(c) ==
  /\ patch[c].at \in {"commit", "checked"}
  /\ patch' = [patch EXCEPT ![c] = Incomplete(c)]
  /\ raced' = [raced EXCEPT ![c] = FALSE]
  /\ UNCHANGED <<files, writes, published>>

ForgetPatch(c) ==
  /\ patch[c].at = "answered"
  /\ patch' = [patch EXCEPT ![c] = NoPatch]
  /\ published' = [published EXCEPT ![c] = <<>>]
  /\ UNCHANGED <<files, writes, raced>>

(* Another content: by file.write or file.edit of this runtime, which hold *)
(* the registry lock throughout, or by an editor, a child process or the   *)
(* runtime of another server, which know nothing of it.                    *)
Put(p) ==
  /\ writes < MaxWrites /\ writes' = writes + 1
  /\ \E f \in {Absent} \union FileTexts : f # files[p] /\ files' = [files EXCEPT ![p] = f]
  /\ UNCHANGED <<patch, published>>

WriteFile(p) == LockFree /\ Put(p) /\ UNCHANGED raced

OutsideWrite(p) ==
  /\ Put(p)
  /\ raced' = [c \in Calls |-> raced[c] \/ (patch[c].at = "checked" /\ NextPlan(c).path = p)]

PatchNext ==
  \/ \E c \in Calls : Call(c) \/ FileIdentity(c) \/ ReadFile(c)
                    \/ CheckFile(c) \/ ReplaceFile(c) \/ Refused(c) \/ ForgetPatch(c)
  \/ \E p \in PatchPaths : WriteFile(p) \/ OutsideWrite(p)

PatchSpec == PatchInit /\ [][PatchNext]_patchVars

-----------------------------------------------------------------------------
(* What a unified diff means, read off its two sides: a hunk's old lines   *)
(* are in the source and its new lines in the result, at the places it     *)
(* names, and everything between the hunks is the same in both.            *)
End(start, count) == IF count = 0 THEN start ELSE start + count - 1
From(hunks, i) == IF i = 0 THEN 0 ELSE End(hunks[i].oldStart, hunks[i].oldCount)
Into(hunks, i) == IF i = 0 THEN 0 ELSE End(hunks[i].newStart, hunks[i].newCount)
HunkIsThere(source, hunks, result, i) ==
  /\ SubSeq(source, From(hunks, i) - hunks[i].oldCount + 1, From(hunks, i)) = OldSide(hunks[i])
  /\ SubSeq(result, Into(hunks, i) - hunks[i].newCount + 1, Into(hunks, i)) = NewSide(hunks[i])
  /\ SubSeq(source, From(hunks, i - 1) + 1, From(hunks, i) - hunks[i].oldCount)
       = SubSeq(result, Into(hunks, i - 1) + 1, Into(hunks, i) - hunks[i].newCount)
Means(source, hunks, result) ==
  /\ \A i \in DOMAIN hunks : HunkIsThere(source, hunks, result, i)
  /\ SubSeq(source, From(hunks, Len(hunks)) + 1, Len(source)) = SubSeq(result, Into(hunks, Len(hunks)) + 1, Len(result))

Accomplishes(plan) ==
  Means(IF plan.action = "create" THEN <<>> ELSE plan.expected, plan.hunks, IF plan.action = "delete" THEN <<>> ELSE plan.post)

Done(c) == {published[c][i].path : i \in DOMAIN published[c]}

(* What file.patch says it did is what it did.  A post-image is what the   *)
(* diff means for the image it was made from.  That image is the one it    *)
(* replaces, whatever calls of this runtime wrote meanwhile; another one   *)
(* only if somebody who does not take the registry lock wrote the file     *)
(* between the look at its digest and the rename or unlink, and never when *)
(* the file was to be created.  A refused or checking call has replaced    *)
(* nothing, a successful one everything; one that stopped names what it has*)
(* replaced, and at most the file it stopped at besides.                   *)
PatchTellsTheTruth ==
  \A c \in Calls :
    /\ \A i \in DOMAIN patch[c].plans : Accomplishes(patch[c].plans[i])
    /\ \A i \in DOMAIN published[c] :
         \/ published[c][i].from = patch[c].plans[i].expected
         \/ published[c][i].raced /\ patch[c].plans[i].action # "create"
    /\ \A i, j \in DOMAIN published[c] : i < j => published[c][i].path < published[c][j].path
    /\ patch[c].at = "answered" =>
         IF patch[c].answer = "ok" /\ patch[c].mode = "apply"
           THEN Done(c) = {patch[c].plans[i].path : i \in DOMAIN patch[c].plans}
         ELSE IF patch[c].answer = "PATCH_COMMIT_INCOMPLETE"
           THEN /\ ToSet(patch[c].committed) \subseteq Done(c)
                /\ Done(c) \subseteq ToSet(patch[c].committed) \union {patch[c].failed}
                /\ patch[c].failed \notin ToSet(patch[c].committed)
         ELSE Done(c) = {}
=============================================================================
