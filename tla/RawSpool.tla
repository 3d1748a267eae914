----------------------------- MODULE RawSpool ------------------------------
(***************************************************************************)
(* The raw output spool (RawSpoolStore, RawSpoolWriter): artifacts created *)
(* under a maintenance lock that first enforces retention, written by one  *)
(* writer each while other calls create and prune, and kept on disk across *)
(* restarts of the runtime, which forget which artifacts were active.      *)
(*                                                                         *)
(* Each artifact id stands for one create call; ids and execution ids are  *)
(* never issued twice.  Bytes are counted in units, time in ticks.         *)
(***************************************************************************)
EXTENDS Naturals, FiniteSets, FiniteSetsExt

CONSTANTS
  Artifacts,     \* artifact ids (ka_...)
  SourceCap,     \* RAW_SPOOL_SOURCE_CAP_BYTES
  AggregateCap,  \* ARTIFACT_AGGREGATE_CAP_BYTES
  Ttl,           \* ARTIFACT_TTL
  MaxNow,        \* bound on the clock
  MaxRestarts,   \* bound on restarts
  Nobody

ASSUME CapAssumption == SourceCap \in Nat \ {0} /\ AggregateCap \in Nat /\ SourceCap <= AggregateCap
ASSUME TimeAssumption == Ttl \in Nat \ {0} /\ MaxNow \in Nat /\ MaxRestarts \in Nat
ASSUME NobodyAssumption == Nobody \notin Artifacts

VARIABLES
  present,    \* artifacts with a file under artifacts/raw
  size,       \* its length
  mtime,      \* its modification time
  active,     \* active_artifacts: those with a live writer
  create,     \* progress of each create call and of its writer
  holder,     \* create call that holds the maintenance lock
  snapshot,   \* its clone of active_artifacts
  audit,      \* sticky health of the audit sink
  now,
  restarts

files == <<present, size, mtime>>
vars == <<present, size, mtime, active, create, holder, snapshot, audit, now, restarts>>

CreateStates == {"idle", "pruning", "fitting", "created", "open", "closed", "refused"}

TypeOK ==
  /\ present \subseteq Artifacts
  /\ size \in [Artifacts -> 0..SourceCap]
  /\ mtime \in [Artifacts -> 0..MaxNow]
  /\ active \subseteq Artifacts
  /\ create \in [Artifacts -> CreateStates]
  /\ holder \in Artifacts \union {Nobody}
  /\ snapshot \subseteq Artifacts
  /\ audit \in {"healthy", "broken"}
  /\ now \in 0..MaxNow
  /\ restarts \in 0..MaxRestarts

Init ==
  /\ present = {} /\ active = {} /\ snapshot = {}
  /\ size = [a \in Artifacts |-> 0]
  /\ mtime = [a \in Artifacts |-> 0]
  /\ create = [a \in Artifacts |-> "idle"]
  /\ holder = Nobody
  /\ audit = "healthy"
  /\ now = 0 /\ restarts = 0

-----------------------------------------------------------------------------
(* Retention                                                               *)

Bytes(S) == MapThenSumSet(LAMBDA a : size[a], S)

EveryFile == present                    \* mutant: active artifacts are not spared
Completed == present \ snapshot

Expired   == {a \in Completed : now - mtime[a] >= Ttl}
Projected == Bytes(Completed) + Cardinality(snapshot) * SourceCap

Target    == AggregateCap - SourceCap

NewestOf(S) == {a \in S : \A b \in S : mtime[b] <= mtime[a]}    \* mutant: reverse order
OldestOf(S) == {a \in S : \A b \in S : mtime[a] <= mtime[b]}

-----------------------------------------------------------------------------
(* create                                                                  *)

Step(a, from, to) == create[a] = from /\ create' = [create EXCEPT ![a] = to]
Release == holder' = Nobody /\ snapshot' = {}

LockIgnored == TRUE                     \* mutant: no maintenance lock
LockFree    == holder = Nobody

(* The lock, the audit decision of the cleanup, and the clone of the set.  *)
BeginCreate(a) ==
  /\ LockFree
  /\ \/ /\ audit = "healthy"
        /\ Step(a, "idle", "pruning")
        /\ holder' = a /\ snapshot' = active
     \/ /\ audit = "broken"
        /\ Step(a, "idle", "refused")
        /\ UNCHANGED <<holder, snapshot>>
  /\ UNCHANGED <<files, active, audit, now, restarts>>

(* The directory scan removes what expired; an I/O error ends the call.    *)
RemoveExpired(a) ==
  /\ \E D \in SUBSET Expired :
       /\ present' = present \ D
       /\ \/ D = Expired /\ Step(a, "pruning", "fitting") /\ UNCHANGED <<holder, snapshot>>
          \/ Step(a, "pruning", "refused") /\ Release
  /\ UNCHANGED <<size, mtime, active, audit, now, restarts>>

(* One turn of the loop over the completed artifacts, oldest first.        *)
RemoveOldest(a) ==
  /\ create[a] = "fitting" /\ Projected > Target
  /\ \/ \E b \in OldestOf(Completed) :
          present' = present \ {b} /\ UNCHANGED <<create, holder, snapshot>>
     \/ Completed # {} /\ Step(a, "fitting", "refused") /\ Release /\ UNCHANGED present
  /\ UNCHANGED <<size, mtime, active, audit, now, restarts>>

NeverFull == FALSE                      \* mutant: no error after the last removal
QuotaExceeded == Completed = {} /\ Projected > Target

(* QUOTA_EXCEEDED, or the audit of the cleanup or of the creation.         *)
RefuseCreate(a) ==
  /\ QuotaExceeded \/ Projected <= Target
  /\ Step(a, "fitting", "refused")
  /\ Release
  /\ UNCHANGED <<files, active, audit, now, restarts>>

(* create_file fails, the last time after it created the file: its mode    *)
(* could not be set, and nobody removes the empty file.                    *)
CreateFileFails(a) ==
  /\ Projected <= Target /\ audit = "healthy"
  /\ Step(a, "fitting", "refused")
  /\ Release
  /\ \/ UNCHANGED <<present, mtime>>
     \/ present' = present \union {a} /\ mtime' = [mtime EXCEPT ![a] = now]
  /\ UNCHANGED <<size, active, audit, now, restarts>>

CreateFile(a) ==
  /\ Projected <= Target /\ audit = "healthy"
  /\ Step(a, "fitting", "created")
  /\ present' = present \union {a}
  /\ active' = active \union {a}
  /\ mtime' = [mtime EXCEPT ![a] = now]
  /\ UNCHANGED <<size, holder, snapshot, audit, now, restarts>>

(* The outcome is appended, or the file is taken back.                     *)
FinishCreate(a) ==
  /\ Release
  /\ IF audit = "healthy"
       THEN Step(a, "created", "open") /\ UNCHANGED <<present, active>>
       ELSE Step(a, "created", "refused") /\ present' = present \ {a} /\ active' = active \ {a}
  /\ UNCHANGED <<size, mtime, audit, now, restarts>>

-----------------------------------------------------------------------------
(* The writer                                                              *)

(* write_source accepts what remains below the cap and drops the rest.     *)
Acceptable(a) == 0..(SourceCap - size[a])

WriteSource(a) ==
  /\ create[a] = "open"
  /\ \E n \in Acceptable(a) \ {0} : size' = [size EXCEPT ![a] = @ + n]
  /\ mtime' = [mtime EXCEPT ![a] = now]
  /\ UNCHANGED <<present, active, create, holder, snapshot, audit, now, restarts>>

(* finish or an early drop: either way Drop clears the active entry.       *)
DropWriter(a) ==
  /\ Step(a, "open", "closed")
  /\ active' = active \ {a}
  /\ UNCHANGED <<files, holder, snapshot, audit, now, restarts>>

-----------------------------------------------------------------------------
(* Environment                                                             *)

AuditBreaks ==
  /\ audit = "healthy" /\ audit' = "broken"
  /\ UNCHANGED <<files, active, create, holder, snapshot, now, restarts>>

Tick ==
  /\ now < MaxNow /\ now' = now + 1
  /\ UNCHANGED <<files, active, create, holder, snapshot, audit, restarts>>

(* The process ends anywhere; the next one opens the store it finds.       *)
Restart ==
  /\ restarts < MaxRestarts /\ restarts' = restarts + 1
  /\ active' = {} /\ Release /\ audit' = "healthy"
  /\ create' = [a \in Artifacts |-> CASE create[a] \in {"pruning", "fitting"} -> "refused"
                                      [] create[a] \in {"created", "open"}    -> "closed"
                                      [] OTHER -> create[a]]
  /\ UNCHANGED <<files, now>>

-----------------------------------------------------------------------------
Create(a) == RemoveExpired(a) \/ RemoveOldest(a) \/ RefuseCreate(a) \/ CreateFileFails(a)
             \/ CreateFile(a) \/ FinishCreate(a)

Next ==
  \/ \E a \in Artifacts : BeginCreate(a) \/ Create(a) \/ WriteSource(a) \/ DropWriter(a)
  \/ AuditBreaks \/ Tick \/ Restart

Safety == Init /\ [][Next]_vars

(* A create call that has the lock runs to its end; writers promise nothing. *)
Spec == Safety /\ \A a \in Artifacts : WF_vars(Create(a))

-----------------------------------------------------------------------------
(* Properties                                                              *)

(* The aggregate cap holds whatever the active writers still write: each   *)
(* has its full source cap reserved.  A writer that ends in the middle of  *)
(* another call's scan, and a restart that turns active artifacts into     *)
(* completed ones, must not break it.                                      *)
AggregateIsRespected ==
  Bytes(present \ active) + Cardinality(active) * SourceCap <= AggregateCap

(* Retention never takes the file of a live writer.                        *)
ActiveIsKept == active \subseteq present

(* A file disappears because it expired, because the audit took its        *)
(* creation back, or under quota pressure, oldest first.                   *)
Vanishes(a) == a \in present /\ a \notin present'

RetentionIsJustified ==
  [][\A a \in Artifacts : Vanishes(a) =>
       \/ now - mtime[a] >= Ttl
       \/ create[a] = "created"
       \/ /\ Projected > Target
          /\ \A b \in Completed : mtime[a] <= mtime[b]]_vars

(* The maintenance lock is always given back: the pruning loop ends even   *)
(* when nothing it removes makes enough room.                              *)
LockIsReleased == holder # Nobody ~> holder = Nobody
=============================================================================
