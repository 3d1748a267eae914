-------------------------- MODULE CheckpointStore --------------------------
(***************************************************************************)
(* The checkpoint of one trusted root (WorkspaceCheckpointStore) and the   *)
(* calls of WorkspaceManager that change it: workspace.checkpoint (upsert  *)
(* and clear, optimistic: the caller names the revision it has seen) and   *)
(* workspace.untrust (which purges).  The mutations of one trust id wait   *)
(* for each other in a chain of promises; each reads the file, decides,    *)
(* and renames a new file over it or removes it.  Every await is a step    *)
(* that may fail, and the server may end at any of them.                   *)
(*                                                                         *)
(* Texts are weights: a weight is a number of bytes, scaled.               *)
(***************************************************************************)
EXTENDS Naturals, Sequences

CONSTANTS
  Calls,          \* calls of workspace.checkpoint and workspace.untrust
  Bodies,         \* checkpoint bodies callers send
  MaxMilestones,  \* WORKSPACE_MILESTONE_MAX_COUNT
  MaxCheckpoint,  \* WORKSPACE_CHECKPOINT_MAX_BYTES
  MaxContinuity,  \* WORKSPACE_CONTINUITY_MAX_BYTES
  MaxRevision     \* bound on revisions

ASSUME BodyAssumption  == Bodies # {} /\ \A b \in Bodies : b.weight \in Nat
ASSUME LimitAssumption ==
  MaxMilestones \in Nat /\ {MaxCheckpoint, MaxContinuity} \subseteq Nat \ {0} /\ MaxRevision \in Nat

VARIABLES
  file,     \* what is under <trust id>.json
  lineage,  \* history: the checkpoints displaced since the file was created
  phase,    \* of the workspace open on the root
  trusted,  \* whether the trust store has the id
  queue,    \* #mutationTails: the calls inside #serialize, in order
  call      \* what each call asks, has read and is at

checkpointVars == <<file, lineage, phase, trusted, queue, call>>

(***************************************************************************)
(* What a body may be                                                      *)
(***************************************************************************)

(* A blocker goes with "blocked" and must say something; a complete        *)
(* checkpoint has nothing left to do; the parts have their limits.         *)
ValidBody(b) ==
  /\ b.blocker = IF b.status = "blocked" THEN "text" ELSE "none"
  /\ b.status = "complete" => b.nextActions = 0
  /\ b.inLimits

(* A file of an older release holds a bare checkpoint, without milestones. *)
Legacy == [revision |-> 1, weight |-> 1, milestones |-> <<>>]
NoFile  == [revision |-> 0, weight |-> 0, milestones |-> <<>>]
Garbled == [revision |-> 0, weight |-> 1, milestones |-> <<>>]

(* readContinuity: an absent file is no checkpoint; what does not parse,   *)
(* has unknown fields or another schema is refused.                        *)
Readable(f) == f # Garbled
Present(f)  == f.revision > 0

LastOf(s, n) == IF Len(s) <= n THEN s ELSE SubSeq(s, Len(s) - n + 1, Len(s))

(* compactMilestone: the objective is cut, so a milestone weighs one.      *)
Milestone(f) == f.revision

Weight(f) == f.weight + Len(f.milestones)

Upserted(f, b) ==
  [revision   |-> f.revision + 1,
   weight     |-> b.weight,
   milestones |-> IF f = NoFile THEN <<>>
                  ELSE LastOf(Append(f.milestones, Milestone(f)), MaxMilestones)]

Fits(f) == f.weight <= MaxCheckpoint /\ Weight(f) <= MaxContinuity

-----------------------------------------------------------------------------
NoCall == [at |-> "idle", op |-> "none", expected |-> 0, body |-> CHOOSE b \in Bodies : TRUE,
           read |-> NoFile]

CheckpointInit ==
  /\ file \in {NoFile, Legacy, Garbled}
  /\ lineage = <<>>
  /\ phase = "READY"
  /\ trusted = TRUE
  /\ queue = <<>>
  /\ call = [c \in Calls |-> NoCall]

At(c, place)  == call[c].at = place
Goto(c, place) == call' = [call EXCEPT ![c].at = place]
Return(c)      == call' = [call EXCEPT ![c] = NoCall]    \* and the caller may call again

(* checkpointWorkspace and untrustWorkspace: the workspace is READY (an    *)
(* untrust may also find nothing open), then the decision is audited.      *)
Begin(c) ==
  /\ At(c, "idle") /\ trusted
  /\ \E op \in {"upsert", "clear", "untrust"}, expected \in 0..MaxRevision, b \in Bodies :
       /\ op # "untrust" => phase = "READY"
       /\ op = "clear" => expected > 0
       /\ op # "upsert" => b = NoCall.body
       /\ op = "untrust" => expected = 0
       /\ call' = [call EXCEPT ![c].at = "decision", ![c].op = op,
                               ![c].expected = expected, ![c].body = b]
  /\ UNCHANGED <<file, lineage, phase, trusted, queue>>

(* The store is entered: a bad body is refused before #serialize; untrust  *)
(* closes the workspaces of the id first.                                  *)
Enter(c) ==
  /\ At(c, "decision")
  /\ phase' = IF call[c].op = "untrust" THEN "CLOSED" ELSE phase
  /\ IF call[c].op = "upsert" /\ ~ValidBody(call[c].body)
       THEN Goto(c, "failed") /\ UNCHANGED queue
       ELSE Goto(c, "queued") /\ queue' = Append(queue, c)
  /\ UNCHANGED <<file, lineage, trusted>>

(* The audit sink, or closeWorkspace, fails before the store is reached.   *)
NotEntered(c) ==
  /\ At(c, "decision")
  /\ Return(c)
  /\ UNCHANGED <<file, lineage, phase, trusted, queue>>

TurnAtOnce(c) == \E i \in DOMAIN queue : queue[i] = c    \* mutant: nobody waits for the tail

(* The previous tail has been released.                                    *)
Turn(c) == queue # <<>> /\ Head(queue) = c

KeptOnFailure(c) ==    \* mutant: the gate is released on success only
  queue' = IF call'[c].at = "failed" THEN queue ELSE Tail(queue)

(* `finally` releases the gate, whichever way the operation went: the call *)
(* whose turn it is makes room for the next.                               *)
Released(c) == queue' = Tail(queue)

(* CHECKPOINT_NOT_FOUND or CHECKPOINT_STALE otherwise.  Zero stands for no *)
(* expectedRevision: the caller expects no checkpoint.                     *)
AnyRevision(c, f) == call[c].expected <= f.revision    \* mutant: only a revision from the future is stale
Expected(c, f) == call[c].expected = f.revision

Load(c) ==
  /\ At(c, "queued") /\ Turn(c)
  /\ IF call[c].op = "untrust" \/ (Readable(file) /\ Expected(c, file))
       THEN /\ call' = [call EXCEPT ![c].at = "loaded", ![c].read = file]
            /\ UNCHANGED queue
       ELSE Goto(c, "failed") /\ Released(c)
  /\ UNCHANGED <<file, lineage, phase, trusted>>

(* The rename of #writeContinuityUnlocked.                                 *)
Replace(c) ==
  LET next == Upserted(call[c].read, call[c].body) IN
  /\ At(c, "loaded") /\ call[c].op = "upsert"
  /\ Fits(next) /\ next.revision <= MaxRevision
  /\ file' = next
  /\ lineage' = IF Present(file) THEN Append(lineage, file.revision) ELSE lineage
  /\ Goto(c, "replaced")
  /\ UNCHANGED <<phase, trusted, queue>>

(* rm in clear (which fails when the file is gone) and in purge.           *)
Delete(c) ==
  /\ At(c, "loaded") /\ call[c].op # "upsert"
  /\ call[c].op = "clear" => file # NoFile
  /\ file' = NoFile
  /\ lineage' = <<>>
  /\ Goto(c, "replaced")
  /\ UNCHANGED <<phase, trusted, queue>>

(* The directory is synced and the gate released.                          *)
Sync(c) ==
  /\ At(c, "replaced")
  /\ Goto(c, IF call[c].op = "untrust" THEN "purged" ELSE "succeeded")
  /\ Released(c)
  /\ UNCHANGED <<file, lineage, phase, trusted>>

(* A limit, a file that cannot be written or renamed, or (the change being *)
(* made already) a chmod or sync that fails.                               *)
StoreFails(c) ==
  /\ At(c, "loaded") \/ At(c, "replaced")
  /\ Goto(c, "failed")
  /\ Released(c)
  /\ UNCHANGED <<file, lineage, phase, trusted>>

(* trust.untrust, which may fail as well.                                  *)
RemoveTrust(c) ==
  /\ At(c, "purged")
  /\ \/ Goto(c, "succeeded") /\ trusted' = FALSE
     \/ Goto(c, "failed") /\ UNCHANGED trusted
  /\ UNCHANGED <<file, lineage, phase, queue>>

(* The outcome is audited and the call answered; when the audit fails the  *)
(* answer is an error, whatever was done.                                  *)
Report(c) ==
  /\ At(c, "succeeded") \/ At(c, "failed")
  /\ Return(c)
  /\ UNCHANGED <<file, lineage, phase, trusted, queue>>

(* openWorkspace on the root, while it is trusted.                         *)
Reopen ==
  /\ phase = "CLOSED" /\ trusted
  /\ phase' = "READY"
  /\ UNCHANGED <<file, lineage, trusted, queue, call>>

(* The server ends; a temporary file it leaves is never read.              *)
Crash ==
  /\ call' = [c \in Calls |-> NoCall]
  /\ queue' = <<>>
  /\ phase' = "CLOSED"
  /\ UNCHANGED <<file, lineage, trusted>>

CallStep(c) ==
  \/ Enter(c) \/ NotEntered(c) \/ Load(c) \/ Replace(c) \/ Delete(c)
  \/ Sync(c) \/ StoreFails(c) \/ RemoveTrust(c) \/ Report(c)

CheckpointNext == (\E c \in Calls : Begin(c) \/ CallStep(c)) \/ Reopen \/ Crash

(* What a call awaits ends: the lock of a tail, the file system, the audit. *)
CheckpointFairness == \A c \in Calls : WF_checkpointVars(CallStep(c))

CheckpointSafety == CheckpointInit /\ [][CheckpointNext]_checkpointVars
CheckpointSpec   == CheckpointSafety /\ CheckpointFairness

-----------------------------------------------------------------------------
(* Properties                                                              *)

(* The milestones a resuming session reads are exactly the latest          *)
(* checkpoints displaced since the file was created, in order and without  *)
(* a gap, however mutations, failures and crashes interleave; and what     *)
(* was written can be read back (upsert never exceeds readContinuity's     *)
(* limits).                                                                *)
HistoryIsFaithful ==
  Present(file) =>
    /\ file.milestones = LastOf(lineage, MaxMilestones)
    /\ lineage # <<>> => file.revision = lineage[Len(lineage)] + 1
    /\ Fits(file)

(* Callers see a register that is compared and set: the look at the        *)
(* revision in Load and the rename in Replace are steps apart, with awaits *)
(* between them, and still no change is made on another revision than the  *)
(* one its caller named, nor a trust ended before its checkpoint; and      *)
(* every mutation, whatever it comes to, lets the next one in.             *)
Progress(c) == CASE At(c, "idle")                                     -> "idle"
                 [] call[c].at \in {"decision", "queued", "loaded"}    -> "asked"
                 [] call[c].at \in {"replaced", "purged"}             -> "taken"
                 [] OTHER                                             -> call[c].at
Requested(c) == [at |-> Progress(c), op |-> call[c].op, expected |-> call[c].expected,
                 text |-> IF At(c, "idle") THEN 0 ELSE call[c].body.weight]

Register == INSTANCE CheckpointRegister WITH
  Callers <- Calls, Texts <- {b.weight : b \in Bodies}, Revisions <- 0..MaxRevision,
  register <- [revision |-> file.revision, text |-> file.weight],
  request <- [c \in Calls |-> Requested(c)]
ImplementsRegister == Register!Safety
MutationsSettle    == Register!Fairness
=============================================================================
