----------------------------- MODULE AuditSink -----------------------------
(***************************************************************************)
(* The security audit log (AuditSink) and the requests that depend on it:  *)
(* a request appends its decision, acts, appends its outcome and answers.  *)
(* Appends are serialised by a mutex inside one runtime process; each      *)
(* process on the state root (the service's runtime, and the one every CLI *)
(* command starts) has a sink of its own on the same files.  Processes     *)
(* end at any point and start again.                                       *)
(*                                                                         *)
(* A file is a sequence of pieces, one for each append: a whole record     *)
(* with its newline, or the torn beginning of one.  A piece counts one     *)
(* unit towards the size limit.                                            *)
(***************************************************************************)
EXTENDS Naturals, Sequences, FiniteSets

CONSTANTS
  Processes,   \* runtime processes on one state root
  Requests,    \* audited requests
  ProcOf,      \* process each request is sent to
  Cap,         \* rotation_bytes, in records
  Retained,    \* retained_rotations
  MaxFiles,    \* bound on the files ever created
  MaxLives     \* bound on the starts of a process

(* What the sink takes for granted of them.                                *)
ASSUME SinkAssumption ==
  /\ ProcOf \in [Requests -> Processes]
  /\ Cap \in Nat \ {0} /\ Retained \in Nat \ {0}
  /\ MaxFiles \in Nat \ {0} /\ MaxLives \in Nat

VARIABLES
  name,      \* file behind audit.jsonl (0) and audit.jsonl.i, 0 if there is none
  data,      \* contents of every file ever created, newest last
  pc,        \* the process, or the step its rotation has reached
  index,     \* loop index of the rotation
  fd,        \* file the sink has open
  bytes,     \* bytes_written
  healthy,   \* processes whose sink is healthy
  lives,     \* starts of each process
  request,   \* progress of each request
  sinkHolder, \* request whose append holds the sink's mutex
  effects    \* requests that have acted

sinkVars == <<pc, index, fd, bytes, healthy, lives, sinkHolder>>
auditVars == <<name, data, sinkVars, request, effects>>

Unheld   == "nobody"
Pieces   == [req : Requests, phase : {"decision", "outcome"}, whole : BOOLEAN,
             proc : Processes, life : 0..MaxLives]
Names    == 0..Retained
LogFiles == DOMAIN data
Rotating == {"removing", "shifting", "reopening"}
Waiting  == {"deciding", "concluding"}
Answered == {"ok", "unavailable", "lost"}

SinkTypeOK ==
  /\ name \in [Names -> 0..MaxFiles]
  /\ data \in Seq(Seq(Pieces)) /\ Len(data) <= MaxFiles
  /\ pc \in [Processes -> {"down", "idle", "writing"} \union Rotating]
  /\ index \in [Processes -> Names]
  /\ fd \in [Processes -> 0..MaxFiles]
  /\ bytes \in [Processes -> Nat]
  /\ healthy \subseteq Processes
  /\ lives \in [Processes -> 0..MaxLives]
  /\ request \in [Requests -> {"new", "allowed"} \union Waiting \union Answered]
  /\ sinkHolder \in [Processes -> Requests \union {Unheld}]
  /\ effects \subseteq Requests

SinkInit ==
  /\ name = [n \in Names |-> 0] /\ data = <<>>
  /\ pc = [p \in Processes |-> "down"]
  /\ index = [p \in Processes |-> 0]
  /\ fd = [p \in Processes |-> 0]
  /\ bytes = [p \in Processes |-> 0]
  /\ healthy = {}
  /\ lives = [p \in Processes |-> 0]
  /\ request = [r \in Requests |-> "new"]
  /\ sinkHolder = [p \in Processes |-> Unheld]
  /\ effects = {}

-----------------------------------------------------------------------------
(* The file                                                                *)

(* open_audit_file: what audit.jsonl names, or a new empty file.           *)
OpenFile(p) ==
  IF name[0] # 0
    THEN /\ fd' = [fd EXCEPT ![p] = name[0]]
         /\ bytes' = [bytes EXCEPT ![p] = Len(data[name[0]])]
         /\ UNCHANGED <<name, data>>
    ELSE /\ Len(data) < MaxFiles
         /\ data' = Append(data, <<>>)
         /\ name' = [name EXCEPT ![0] = Len(data) + 1]
         /\ fd' = [fd EXCEPT ![p] = Len(data) + 1]
         /\ bytes' = [bytes EXCEPT ![p] = 0]

Phase(r) == IF request[r] = "deciding" THEN "decision" ELSE "outcome"

Piece(p, whole) == [req |-> sinkHolder[p], phase |-> Phase(sinkHolder[p]), whole |-> whole,
                    proc |-> p, life |-> lives[p]]

AppendPiece(p, whole) == data' = [data EXCEPT ![fd[p]] = Append(@, Piece(p, whole))]

(* What a write that does not succeed leaves: nothing, a torn record, or   *)
(* the whole one, whose sync failed.                                       *)
LeaveDebris(p) == data' = data \/ \E whole \in BOOLEAN : AppendPiece(p, whole)

-----------------------------------------------------------------------------
(* Processes                                                               *)

(* open_internal: a sink that cannot be opened is unhealthy from the start, *)
(* its file created or not.                                                *)
Start(p) ==
  /\ pc[p] = "down" /\ lives[p] < MaxLives
  /\ pc' = [pc EXCEPT ![p] = "idle"]
  /\ lives' = [lives EXCEPT ![p] = @ + 1]
  /\ \/ OpenFile(p) /\ healthy' = healthy \union {p}
     \/ OpenFile(p) /\ healthy' = healthy \ {p}
     \/ UNCHANGED <<name, data, fd, bytes>> /\ healthy' = healthy \ {p}
  /\ UNCHANGED <<index, request, sinkHolder, effects>>

SinkCrash(p) ==
  /\ pc[p] # "down"
  /\ pc' = [pc EXCEPT ![p] = "down"]
  /\ IF pc[p] = "writing" THEN LeaveDebris(p) ELSE UNCHANGED data
  /\ sinkHolder' = [sinkHolder EXCEPT ![p] = Unheld]
  /\ healthy' = healthy \ {p}
  /\ request' = [r \in Requests |->
       IF ProcOf[r] = p /\ request[r] \notin {"new"} \union Answered THEN "lost" ELSE request[r]]
  /\ UNCHANGED <<name, index, fd, bytes, lives, effects>>

-----------------------------------------------------------------------------
(* Appending                                                               *)

Poisoned(p)     == healthy \ {p}

(* The append fails: the request is answered AUDIT_UNAVAILABLE.            *)
Fails(p) ==
  /\ pc' = [pc EXCEPT ![p] = "idle"]
  /\ healthy' = Poisoned(p)
  /\ request' = [request EXCEPT ![sinkHolder[p]] = "unavailable"]
  /\ sinkHolder' = [sinkHolder EXCEPT ![p] = Unheld]

AfterWriteOnly(p) == bytes[p] > Cap    \* mutant: the new line is not counted
MustRotate(p) == bytes[p] > 0 /\ bytes[p] + 1 > Cap

KeepsWaiting(r) == request    \* mutant: the request waits for the sink to recover
Refused(r)      == [request EXCEPT ![r] = "unavailable"]

BeginAppend(r) ==
  LET p == ProcOf[r]
  IN  /\ request[r] \in Waiting /\ pc[p] = "idle"
      /\ IF p \in healthy
           THEN /\ pc' = [pc EXCEPT ![p] = IF MustRotate(p) THEN "removing" ELSE "writing"]
                /\ sinkHolder' = [sinkHolder EXCEPT ![p] = r]
                /\ UNCHANGED request
           ELSE /\ request' = Refused(r)
                /\ UNCHANGED <<pc, sinkHolder>>
      /\ UNCHANGED <<name, data, index, fd, bytes, healthy, lives, effects>>

NextToOldest == Retained - 1    \* mutant: the retained index is off by one
Oldest       == Retained

RemoveRetained(p) ==
  /\ pc[p] = "removing"
  /\ name' = [name EXCEPT ![Oldest] = 0]
  /\ pc' = [pc EXCEPT ![p] = "shifting"]
  /\ index' = [index EXCEPT ![p] = Retained - 1]
  /\ UNCHANGED <<data, fd, bytes, healthy, lives, request, sinkHolder, effects>>

(* rename(index, index + 1), from the oldest down to audit.jsonl itself.   *)
LoopRunsOn(p) == FALSE    \* mutant: the loop does not stop at audit.jsonl
LoopEnds(p)   == index[p] = 0

Shift(p) ==
  /\ pc[p] = "shifting"
  /\ name' = IF name[index[p]] = 0 THEN name
             ELSE [name EXCEPT ![index[p] + 1] = name[index[p]], ![index[p]] = 0]
  /\ IF LoopEnds(p)
       THEN pc' = [pc EXCEPT ![p] = "reopening"] /\ UNCHANGED index
       ELSE index' = [index EXCEPT ![p] = @ - 1] /\ UNCHANGED pc
  /\ UNCHANGED <<data, fd, bytes, healthy, lives, request, sinkHolder, effects>>

Reopen(p) ==
  /\ pc[p] = "reopening"
  /\ OpenFile(p)
  /\ pc' = [pc EXCEPT ![p] = "writing"]
  /\ UNCHANGED <<index, healthy, lives, request, sinkHolder, effects>>

(* The last step fails with the new file already created, or not.          *)
RotationFails(p) ==
  /\ pc[p] \in Rotating
  /\ Fails(p)
  /\ \/ pc[p] = "reopening" /\ OpenFile(p)
     \/ UNCHANGED <<name, data, fd, bytes>>
  /\ UNCHANGED <<index, lives, effects>>

NextState(r) == IF request[r] = "deciding" THEN "allowed" ELSE "ok"

Write(p) ==
  /\ pc[p] = "writing"
  /\ AppendPiece(p, TRUE)
  /\ bytes' = [bytes EXCEPT ![p] = @ + 1]
  /\ pc' = [pc EXCEPT ![p] = "idle"]
  /\ request' = [request EXCEPT ![sinkHolder[p]] = NextState(sinkHolder[p])]
  /\ sinkHolder' = [sinkHolder EXCEPT ![p] = Unheld]
  /\ UNCHANGED <<name, index, fd, healthy, lives, effects>>

WriteFails(p) ==
  /\ pc[p] = "writing"
  /\ LeaveDebris(p)
  /\ Fails(p)
  /\ UNCHANGED <<name, index, fd, bytes, lives, effects>>

-----------------------------------------------------------------------------
(* Requests                                                                *)

Receive(r) ==
  /\ request[r] = "new" /\ pc[ProcOf[r]] # "down"
  /\ request' = [request EXCEPT ![r] = "deciding"]
  /\ UNCHANGED <<name, data, sinkVars, effects>>

DecidedOrNot(r) == request[r] \in {"deciding", "allowed"}    \* mutant: acts before the append
Decided(r)      == request[r] = "allowed"

(* The operation, or its failure: the outcome is recorded either way.      *)
Act(r) ==
  /\ Decided(r)
  /\ effects' \in {effects, effects \union {r}}
  /\ request' = [request EXCEPT ![r] = "concluding"]
  /\ UNCHANGED <<name, data, sinkVars>>

SinkNext ==
  \/ \E p \in Processes : \/ Start(p) \/ SinkCrash(p) \/ RemoveRetained(p) \/ Shift(p) \/ Reopen(p)
                          \/ RotationFails(p) \/ Write(p) \/ WriteFails(p)
  \/ \E r \in Requests : Receive(r) \/ BeginAppend(r) \/ Act(r)

(* A request in flight is served while its process lives.                  *)
SinkFairness ==
  /\ \A p \in Processes :
       WF_auditVars(RemoveRetained(p) \/ Shift(p) \/ Reopen(p) \/ Write(p) \/ WriteFails(p))
  /\ \A r \in Requests : WF_auditVars(BeginAppend(r) \/ Act(r))

SinkSafety == SinkInit /\ [][SinkNext]_auditVars
SinkSpec   == SinkSafety /\ SinkFairness

-----------------------------------------------------------------------------
(* Properties                                                              *)

Recorded(r, phase) ==
  \E f \in LogFiles : \E k \in DOMAIN data[f] :
    data[f][k].req = r /\ data[f][k].phase = phase /\ data[f][k].whole

(* No request acts before its decision is on disk, whatever processes end  *)
(* and start in between; a request answered with success has both records. *)
EffectIsAudited ==
  /\ \A r \in effects : Recorded(r, "decision")
  /\ \A r \in Requests : request[r] = "ok" => Recorded(r, "decision") /\ Recorded(r, "outcome")

(* Rotation keeps the log in order and loses only its oldest files, also   *)
(* when it stops halfway and another process goes on from what it left.    *)
(* Retained files survive a loss, less one for every life whose rotation   *)
(* may have stopped between the removal and the renames.                   *)
Kept == {name[n] : n \in Names} \ {0}

LogIsASuffix ==
  /\ \A m, n \in Names : m < n /\ name[m] # 0 /\ name[n] # 0 => name[m] > name[n]
  /\ \A f \in LogFiles \ Kept, g \in Kept : f < g
  /\ LogFiles \ Kept # {} => \A p \in Processes : Cardinality(Kept) + lives[p] > Retained

(* The file in use grows beyond the limit of one rotation by nobody's      *)
(* append.                                                                 *)
FilesAreBounded == \A f \in LogFiles : Len(data[f]) <= Cap

(* The three together: what the audit log is worth.                        *)
AuditIsKept == EffectIsAudited /\ LogIsASuffix /\ FilesAreBounded

(* Every request a living process received is answered: as each of them   *)
(* comes once, none waits for ever just when again and again none waits.   *)
RequestsAreAnswered == []<>(\A r \in Requests : request[r] \in {"new"} \union Answered)
=============================================================================
